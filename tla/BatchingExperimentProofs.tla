----------------------- MODULE BatchingExperimentProofs -----------------------
(***************************************************************************)
(* Theorems about BatchingExperiment, for any arms, any plan of a          *)
(* continuation, any data set and any number of starts.                    *)
(*                                                                         *)
(* No property is inductive.  That the worker and the test pod exclude one *)
(* another rests on what can still bring either of them: replicas above    *)
(* zero, a deployment in an active namespace, and a restoration that will  *)
(* set the replicas of the beginning.  Exclusive says the first two,       *)
(* Stages the third, by the step the script is at; Empty is what a         *)
(* namespace that is gone has taken along.                                 *)
(***************************************************************************)
EXTENDS BatchingExperiment, OpenLoopMeasure, SequenceTheorems, TLAPS

Wanted == deployment.replicas = 1 /\ ns = "active"
TestFree == pod = NoPod /\ ~ Wanted

Configured == {"next", "scaledown", "undeploying", "probe", "apply", "starting", "warm",
               "run", "block", "blocking"}
Opening == {"stop", "stopping", "namespace"}
Closing == {"draining", "rescale", "restarting", "verify"}

Exclusive == worker # "none" \/ replicas # 0 => TestFree

Empty == ns = "none" => deployment.replicas = 0 /\ pod = NoPod

Stages ==
  /\ pc \in Opening => ~ ns_created
  /\ pc = "stopping" => replicas = 0
  /\ pc = "namespace" => replicas = 0 /\ worker = "none"
  /\ pc \in Configured => ns_created /\ ns = "active" /\ replicas = 0 /\ worker = "none"
  /\ pc \notin Ended /\ ~ ns_created => original = 0 \/ TestFree
  /\ pc \in Closing /\ ns_created => ns # "active"
  /\ pc \in Closing \ {"draining"} /\ ns_created => pod = NoPod
  /\ pc = "restored" => TestFree /\ replicas = original /\ (original > 0 => worker = "ready")

Deployed == deployment = [replicas |-> 1, seqs |-> seqs]
Undone == deployment.replicas = 0 /\ pod = NoPod

Configurations ==
  /\ pc \in Opening => seqs = 0
  /\ pc \in Configured \ {"next"} => plan # <<>>
  /\ pc \in {"starting", "warm", "run"} => seqs = Arm /\ Deployed
  /\ pc = "starting" => pod = NoPod \/ pod.seqs = seqs
  /\ pc \in {"warm", "run"} => pod.seqs = seqs
  /\ pc = "next" => IF seqs = 0 THEN Undone ELSE Deployed /\ pod.seqs = seqs
  /\ pc \in {"undeploying", "blocking"} => deployment.replicas = 0
  /\ pc \in {"probe", "apply"} => Undone

Prompts ==
  /\ offset <= Rows /\ cursor \in {0, offset}
  /\ rows \subseteq 1..offset /\ used \subseteq 1..offset
  /\ rows \intersect used = {}

Inv == TypeOK /\ Exclusive /\ Empty /\ Stages /\ Configurations /\ Prompts

-----------------------------------------------------------------------------
(* The plans.                                                              *)

LEMMA PlansTyped ==
  /\ First \in ToSet(Arms)
  /\ FirstPlan \in Seq(Tasks)
  /\ \A c \in ToSet(Arms) : ConfirmPlan(c) \in Seq(Tasks)
  /\ [i \in DOMAIN ResumePlan |-> Task("confirm", ResumePlan[i])] \in Seq(Tasks)
<1>1. First \in ToSet(Arms)
  BY ArmsAssumption DEF First, ToSet
<1>2. \A k \in {"pilot", "baseline", "sweep", "confirm"}, a \in ToSet(Arms) :
        Task(k, a) \in Tasks
  BY DEF Task, Tasks
<1>3. FirstPlan \in Seq(Tasks)
  <2>1. DOMAIN Arms = 1..Len(Arms) /\ Len(Arms) \in Nat
    BY ArmsAssumption
  <2>2. \A i \in DOMAIN Arms : Arms[i] \in ToSet(Arms)
    BY DEF ToSet
  <2>3. [i \in DOMAIN Arms |-> Task("sweep", Arms[i])] \in Seq(Tasks)
    BY <1>2, <2>1, <2>2, IsASeq
  <2>4. <<Task("pilot", First), Task("baseline", First)>> \in Seq(Tasks)
    BY <1>1, <1>2
  <2> QED
    BY <2>3, <2>4, ConcatProperties DEF FirstPlan
<1>4. ASSUME NEW c \in ToSet(Arms) PROVE ConfirmPlan(c) \in Seq(Tasks)
  <2>1. [i \in 1..3 |-> Task("confirm", First)] \in Seq(Tasks)
    BY <1>1, <1>2, IsASeq
  <2>2. [i \in 1..6 |-> Task("confirm", IF i \in {1, 4, 5} THEN First ELSE c)] \in Seq(Tasks)
    BY <1>1, <1>2, IsASeq
  <2> QED
    BY <2>1, <2>2 DEF ConfirmPlan
<1>5. [i \in DOMAIN ResumePlan |-> Task("confirm", ResumePlan[i])] \in Seq(Tasks)
  <2>1. DOMAIN ResumePlan = 1..Len(ResumePlan) /\ Len(ResumePlan) \in Nat
    BY ArmsAssumption
  <2>2. \A i \in DOMAIN ResumePlan : ResumePlan[i] \in ToSet(Arms)
    BY ArmsAssumption
  <2> QED
    BY <1>2, <2>1, <2>2, IsASeq
<1> QED
  BY <1>1, <1>3, <1>4, <1>5

\* The task at hand.
LEMMA TaskTyped ==
  ASSUME plan \in Seq(Tasks), plan # <<>>
  PROVE  Arm \in ToSet(Arms) /\ Arm \in Nat \ {0} /\ Tail(plan) \in Seq(Tasks)
<1>1. Head(plan) \in Tasks /\ Tail(plan) \in Seq(Tasks)
  BY HeadTailProperties
<1>2. Arm \in ToSet(Arms)
  BY <1>1 DEF Arm, Tasks
<1>3. ToSet(Arms) \subseteq Nat \ {0}
  BY ArmsAssumption DEF ToSet
<1> QED
  BY <1>1, <1>2, <1>3

\* A task that ends leads to the next one or to the restoration.
LEMMA AfterTaskTyped ==
  ASSUME plan \in Seq(Tasks), plan # <<>>,
         NEW found \in SUBSET ToSet(Arms), AfterTask(found)
  PROVE  plan' \in Seq(Tasks) /\ pc' \in {"next", "restore"}
<1>1. CASE Len(plan) > 1 \/ Kind = "confirm"
  BY <1>1, TaskTyped DEF AfterTask, Goto
<1>2. CASE ~ (Len(plan) > 1 \/ Kind = "confirm") /\ First \notin found
  BY <1>2 DEF AfterTask, Raise
<1>3. CASE ~ (Len(plan) > 1 \/ Kind = "confirm") /\ First \in found
  BY <1>3, PlansTyped DEF AfterTask, Goto
<1> QED
  BY <1>1, <1>2, <1>3

\* A measurement takes the next prompts, and only new ones.
LEMMA MeasureFresh ==
  ASSUME TypeOK, Prompts, NEW count \in 1..MaxCount, Measure(count)
  PROVE  /\ offset' \in 0..Rows /\ cursor' \in 0..Rows
         /\ rows' \subseteq 1..Rows /\ used' \subseteq 1..Rows
         /\ Prompts'
<1>1. offset \in Nat /\ Rows \in Nat /\ count \in Nat \ {0}
  BY ArmsAssumption DEF TypeOK
<1> QED
  BY <1>1 DEF Measure, Prompts, TypeOK

-----------------------------------------------------------------------------
(* A step of the script, of whoever interrupts it, or of the cluster       *)
(* preserves the invariant: each conjunct by what it says and, where that  *)
(* is not enough, by the conjuncts that are named.                         *)

USE DEF Inv, memory, files, cluster, history, Goto, Raise, GiveUp, Running, Restoring, Ended,
        Opening, Configured, Closing, NoPod, NoDeployment

LEMMA StartInv == Inv /\ Start => Inv'
<1> SUFFICES ASSUME Inv, Start PROVE Inv'
  OBVIOUS
<1> USE DEF Start
<1>1. TypeOK'
  <2>1. pc' \in Running \union Restoring \union Ended
    BY DEF TypeOK
  <2>2. plan' \in Seq(Tasks)
    BY PlansTyped DEF TypeOK
  <2>3. /\ seqs' \in {0} \union ToSet(Arms) /\ passed' \subseteq ToSet(Arms)
        /\ original' \in {0, 1} /\ replicas' \in {0, 1}
    BY DEF TypeOK
  <2>4. /\ scaled' \in BOOLEAN /\ ns_created' \in BOOLEAN
        /\ confirmed' \in BOOLEAN /\ verified' \in BOOLEAN
    BY DEF TypeOK
  <2>5. /\ offset' \in 0..Rows /\ cursor' \in 0..Rows
        /\ rows' \subseteq 1..Rows /\ used' \subseteq 1..Rows
    BY ArmsAssumption DEF TypeOK
  <2>6. /\ worker' \in {"none", "starting", "ready"} /\ ns' \in {"none", "active", "terminating"}
        /\ deployment' \in [replicas : {0, 1}, seqs : {0} \union ToSet(Arms)]
        /\ pod' \in [state : {"none", "starting", "ready", "restarted"}, seqs : {0} \union ToSet(Arms)]
    BY DEF TypeOK
  <2> QED
    BY <2>1, <2>2, <2>3, <2>4, <2>5, <2>6 DEF TypeOK
<1>2. Exclusive'
  BY DEF Exclusive, TestFree, Wanted
<1>3. Empty'
  BY DEF Empty
<1>4. Stages'
  BY DEF Stages, TestFree, Wanted, TypeOK, Exclusive
<1>5. Configurations'
  BY DEF Configurations, Deployed, Undone
<1>6. Prompts'
  BY ArmsAssumption DEF Prompts
<1> QED
  BY <1>1, <1>2, <1>3, <1>4, <1>5, <1>6

LEMMA ResumeInv == Inv /\ Resume => Inv'
<1> SUFFICES ASSUME Inv, Resume PROVE Inv'
  OBVIOUS
<1> USE DEF Resume
<1>1. TypeOK'
  <2>1. pc' \in Running \union Restoring \union Ended
    BY DEF TypeOK
  <2>2. plan' \in Seq(Tasks)
    BY PlansTyped DEF TypeOK
  <2>3. /\ seqs' \in {0} \union ToSet(Arms) /\ passed' \subseteq ToSet(Arms)
        /\ original' \in {0, 1} /\ replicas' \in {0, 1}
    BY DEF TypeOK
  <2>4. /\ scaled' \in BOOLEAN /\ ns_created' \in BOOLEAN
        /\ confirmed' \in BOOLEAN /\ verified' \in BOOLEAN
    BY DEF TypeOK
  <2>5. /\ offset' \in 0..Rows /\ cursor' \in 0..Rows
        /\ rows' \subseteq 1..Rows /\ used' \subseteq 1..Rows
    BY ArmsAssumption DEF TypeOK
  <2>6. /\ worker' \in {"none", "starting", "ready"} /\ ns' \in {"none", "active", "terminating"}
        /\ deployment' \in [replicas : {0, 1}, seqs : {0} \union ToSet(Arms)]
        /\ pod' \in [state : {"none", "starting", "ready", "restarted"}, seqs : {0} \union ToSet(Arms)]
    BY DEF TypeOK
  <2> QED
    BY <2>1, <2>2, <2>3, <2>4, <2>5, <2>6 DEF TypeOK
<1>2. Exclusive'
  BY DEF Exclusive, TestFree, Wanted
<1>3. Empty'
  BY DEF Empty
<1>4. Stages'
  BY DEF Stages, TestFree, Wanted, TypeOK, Exclusive, Empty
<1>5. Configurations'
  BY DEF Configurations, Deployed, Undone
<1>6. Prompts'
  BY DEF Prompts
<1> QED
  BY <1>1, <1>2, <1>3, <1>4, <1>5, <1>6

LEMMA StopWorkerInv == Inv /\ StopWorker => Inv'
<1> SUFFICES ASSUME Inv, StopWorker PROVE Inv'
  OBVIOUS
<1> USE DEF StopWorker
<1>1. TypeOK'
  BY DEF TypeOK
<1>2. Exclusive'
  BY DEF Exclusive, TestFree, Wanted
<1>3. Empty'
  BY DEF Empty
<1>4. Stages'
  BY DEF Stages, TestFree, Wanted
<1>5. Configurations'
  BY DEF Configurations, Deployed, Undone
<1>6. Prompts'
  BY DEF Prompts
<1> QED
  BY <1>1, <1>2, <1>3, <1>4, <1>5, <1>6

LEMMA WorkerStoppedInv == Inv /\ WorkerStopped => Inv'
<1> SUFFICES ASSUME Inv, WorkerStopped PROVE Inv'
  OBVIOUS
<1> USE DEF WorkerStopped
<1>1. TypeOK'
  BY DEF TypeOK
<1>2. Exclusive'
  BY DEF Exclusive, TestFree, Wanted
<1>3. Empty'
  BY DEF Empty
<1>4. Stages'
  BY DEF Stages, TestFree, Wanted
<1>5. Configurations'
  BY DEF Configurations, Deployed, Undone
<1>6. Prompts'
  BY DEF Prompts
<1> QED
  BY <1>1, <1>2, <1>3, <1>4, <1>5, <1>6

LEMMA CreateNamespaceInv == Inv /\ CreateNamespace => Inv'
<1> SUFFICES ASSUME Inv, CreateNamespace PROVE Inv'
  OBVIOUS
<1> USE DEF CreateNamespace
<1>1. TypeOK'
  <2>1. pc' \in Running \union Restoring \union Ended
    BY DEF TypeOK
  <2>2. plan' \in Seq(Tasks)
    BY DEF TypeOK
  <2>3. /\ seqs' \in {0} \union ToSet(Arms) /\ passed' \subseteq ToSet(Arms)
        /\ original' \in {0, 1} /\ replicas' \in {0, 1}
    BY DEF TypeOK
  <2>4. /\ scaled' \in BOOLEAN /\ ns_created' \in BOOLEAN
        /\ confirmed' \in BOOLEAN /\ verified' \in BOOLEAN
    BY DEF TypeOK
  <2>5. /\ offset' \in 0..Rows /\ cursor' \in 0..Rows
        /\ rows' \subseteq 1..Rows /\ used' \subseteq 1..Rows
    BY DEF TypeOK
  <2>6. /\ worker' \in {"none", "starting", "ready"} /\ ns' \in {"none", "active", "terminating"}
        /\ deployment' \in [replicas : {0, 1}, seqs : {0} \union ToSet(Arms)]
        /\ pod' \in [state : {"none", "starting", "ready", "restarted"}, seqs : {0} \union ToSet(Arms)]
    BY DEF TypeOK
  <2> QED
    BY <2>1, <2>2, <2>3, <2>4, <2>5, <2>6 DEF TypeOK
<1>2. Exclusive'
  BY DEF Exclusive, TestFree, Wanted, Stages
<1>3. Empty'
  BY DEF Empty
<1>4. Stages'
  BY DEF Stages, TestFree, Wanted, Empty
<1>5. Configurations'
  BY DEF Configurations, Deployed, Undone, Empty, Stages
<1>6. Prompts'
  BY DEF Prompts
<1> QED
  BY <1>1, <1>2, <1>3, <1>4, <1>5, <1>6

LEMMA NextTaskInv == Inv /\ NextTask => Inv'
<1> SUFFICES ASSUME Inv, NextTask PROVE Inv'
  OBVIOUS
<1> USE DEF NextTask
<1>1. TypeOK'
  BY DEF TypeOK
<1>2. Exclusive'
  BY DEF Exclusive, TestFree, Wanted
<1>3. Empty'
  BY DEF Empty
<1>4. Stages'
  BY DEF Stages, TestFree, Wanted
<1>5. Configurations'
  <2>1. plan \in Seq(Tasks) /\ plan # <<>>
    BY DEF TypeOK
  <2>2. Arm # 0 /\ Arm' = Arm
    BY <2>1, TaskTyped DEF Arm
  <2> QED
    BY <2>1, <2>2 DEF Configurations, Deployed, Undone
<1>6. Prompts'
  BY DEF Prompts
<1> QED
  BY <1>1, <1>2, <1>3, <1>4, <1>5, <1>6

LEMMA ConcludeInv == Inv /\ Conclude => Inv'
<1> SUFFICES ASSUME Inv, Conclude PROVE Inv'
  OBVIOUS
<1> USE DEF Conclude
<1>1. TypeOK'
  BY DEF TypeOK
<1>2. Exclusive'
  BY DEF Exclusive, TestFree, Wanted
<1>3. Empty'
  BY DEF Empty
<1>4. Stages'
  BY DEF Stages, TestFree, Wanted
<1>5. Configurations'
  BY DEF Configurations, Deployed, Undone
<1>6. Prompts'
  BY DEF Prompts
<1> QED
  BY <1>1, <1>2, <1>3, <1>4, <1>5, <1>6

LEMMA ScaleDownInv == Inv /\ ScaleDown => Inv'
<1> SUFFICES ASSUME Inv, ScaleDown PROVE Inv'
  OBVIOUS
<1> USE DEF ScaleDown
<1>1. TypeOK'
  BY DEF TypeOK
<1>2. Exclusive'
  BY DEF Exclusive, TestFree, Wanted, Stages, TypeOK
<1>3. Empty'
  BY DEF Empty, TypeOK, Stages
<1>4. Stages'
  BY DEF Stages, TestFree, Wanted
<1>5. Configurations'
  BY DEF Configurations, Deployed, Undone, TypeOK
<1>6. Prompts'
  BY DEF Prompts
<1> QED
  BY <1>1, <1>2, <1>3, <1>4, <1>5, <1>6

LEMMA UndeployedInv == Inv /\ Undeployed => Inv'
<1> SUFFICES ASSUME Inv, Undeployed PROVE Inv'
  OBVIOUS
<1> USE DEF Undeployed
<1>1. TypeOK'
  BY DEF TypeOK
<1>2. Exclusive'
  BY DEF Exclusive, TestFree, Wanted
<1>3. Empty'
  BY DEF Empty
<1>4. Stages'
  BY DEF Stages, TestFree, Wanted
<1>5. Configurations'
  BY DEF Configurations, Deployed, Undone
<1>6. Prompts'
  BY DEF Prompts
<1> QED
  BY <1>1, <1>2, <1>3, <1>4, <1>5, <1>6

LEMMA ProbeInv == Inv /\ Probe => Inv'
<1> SUFFICES ASSUME Inv, Probe PROVE Inv'
  OBVIOUS
<1> USE DEF Probe, Blocked
<1>1. TypeOK'
  BY DEF TypeOK
<1>2. Exclusive'
  BY DEF Exclusive, TestFree, Wanted
<1>3. Empty'
  BY DEF Empty
<1>4. Stages'
  BY DEF Stages, TestFree, Wanted
<1>5. Configurations'
  BY DEF Configurations, Deployed, Undone
<1>6. Prompts'
  BY DEF Prompts
<1> QED
  BY <1>1, <1>2, <1>3, <1>4, <1>5, <1>6

LEMMA ApplyInv == Inv /\ Apply => Inv'
<1> SUFFICES ASSUME Inv, Apply PROVE Inv'
  OBVIOUS
<1> USE DEF Apply
<1>1. TypeOK'
  BY TaskTyped DEF TypeOK, Configurations
<1>2. Exclusive'
  BY DEF Exclusive, TestFree, Wanted, Stages
<1>3. Empty'
  BY DEF Empty, Stages
<1>4. Stages'
  BY DEF Stages, TestFree, Wanted
<1>5. Configurations'
  BY DEF Configurations, Deployed, Undone, Arm
<1>6. Prompts'
  BY DEF Prompts
<1> QED
  BY <1>1, <1>2, <1>3, <1>4, <1>5, <1>6

LEMMA ReadyInv == Inv /\ Ready => Inv'
<1> SUFFICES ASSUME Inv, Ready PROVE Inv'
  OBVIOUS
<1> USE DEF Ready, Blocked
<1>1. TypeOK'
  BY DEF TypeOK
<1>2. Exclusive'
  BY DEF Exclusive, TestFree, Wanted
<1>3. Empty'
  BY DEF Empty
<1>4. Stages'
  BY DEF Stages, TestFree, Wanted
<1>5. Configurations'
  BY DEF Configurations, Deployed, Undone, TypeOK, Arm
<1>6. Prompts'
  BY DEF Prompts
<1> QED
  BY <1>1, <1>2, <1>3, <1>4, <1>5, <1>6

LEMMA BlockedCleanupInv == Inv /\ BlockedCleanup => Inv'
<1> SUFFICES ASSUME Inv, BlockedCleanup PROVE Inv'
  OBVIOUS
<1> USE DEF BlockedCleanup
<1>1. TypeOK'
  BY ArmsAssumption, AfterTaskTyped DEF TypeOK, Configurations
<1>2. Exclusive'
  BY DEF Exclusive, TestFree, Wanted
<1>3. Empty'
  BY DEF Empty
<1>4. Stages'
  BY AfterTaskTyped DEF Stages, TestFree, Wanted, TypeOK, Configurations
<1>5. Configurations'
  BY AfterTaskTyped DEF Configurations, Deployed, Undone, TypeOK
<1>6. Prompts'
  BY DEF Prompts
<1> QED
  BY <1>1, <1>2, <1>3, <1>4, <1>5, <1>6

LEMMA WarmUpInv == Inv /\ WarmUp => Inv'
<1> SUFFICES ASSUME Inv, WarmUp PROVE Inv'
  OBVIOUS
<1> USE DEF WarmUp, Measure
<1>1. TypeOK'
  <2>1. pc' \in Running \union Restoring \union Ended
    BY DEF TypeOK
  <2>2. plan' \in Seq(Tasks)
    BY DEF TypeOK
  <2>3. /\ seqs' \in {0} \union ToSet(Arms) /\ passed' \subseteq ToSet(Arms)
        /\ original' \in {0, 1} /\ replicas' \in {0, 1}
    BY DEF TypeOK
  <2>4. /\ scaled' \in BOOLEAN /\ ns_created' \in BOOLEAN
        /\ confirmed' \in BOOLEAN /\ verified' \in BOOLEAN
    BY DEF TypeOK
  <2>5. /\ offset' \in 0..Rows /\ cursor' \in 0..Rows
        /\ rows' \subseteq 1..Rows /\ used' \subseteq 1..Rows
    <3>1. CASE \E count \in 1..MaxCount : Measure(count)
      BY <3>1, MeasureFresh
    <3>2. CASE UNCHANGED <<rows, used, offset, cursor>>
      BY <3>2 DEF TypeOK
    <3> QED
      BY <3>1, <3>2
  <2>6. /\ worker' \in {"none", "starting", "ready"} /\ ns' \in {"none", "active", "terminating"}
        /\ deployment' \in [replicas : {0, 1}, seqs : {0} \union ToSet(Arms)]
        /\ pod' \in [state : {"none", "starting", "ready", "restarted"}, seqs : {0} \union ToSet(Arms)]
    BY DEF TypeOK
  <2> QED
    BY <2>1, <2>2, <2>3, <2>4, <2>5, <2>6 DEF TypeOK
<1>2. Exclusive'
  BY DEF Exclusive, TestFree, Wanted
<1>3. Empty'
  BY DEF Empty
<1>4. Stages'
  BY DEF Stages, TestFree, Wanted
<1>5. Configurations'
  BY DEF Configurations, Deployed, Undone, Arm
<1>6. Prompts'
  <2>1. CASE \E count \in 1..MaxCount : Measure(count)
    BY <2>1, MeasureFresh
  <2>2. CASE UNCHANGED <<rows, used, offset, cursor>>
    BY <2>2 DEF Prompts
  <2> QED
    BY <2>1, <2>2
<1> QED
  BY <1>1, <1>2, <1>3, <1>4, <1>5, <1>6

LEMMA RunInv == Inv /\ Run => Inv'
<1> SUFFICES ASSUME Inv, Run PROVE Inv'
  OBVIOUS
<1> USE DEF Run, Measure
<1>1. TypeOK'
  <2>1. pc' \in Running \union Restoring \union Ended /\ plan' \in Seq(Tasks)
    <3>1. plan \in Seq(Tasks) /\ plan # <<>> /\ Arm \in ToSet(Arms)
      BY TaskTyped DEF TypeOK, Configurations
    <3>2. CASE \E found \in SUBSET ToSet(Arms) : AfterTask(found)
      BY <3>1, <3>2, AfterTaskTyped
    <3>3. CASE plan' = plan /\ pc' \in {"run", "restore"}
      BY <3>1, <3>3
    <3>4. passed \subseteq ToSet(Arms)
      BY DEF TypeOK
    <3> HIDE DEF Inv, Measure
    <3> QED
      BY <3>1, <3>2, <3>3, <3>4
  <2>2. plan' \in Seq(Tasks)
    BY <2>1
  <2>3. /\ seqs' \in {0} \union ToSet(Arms) /\ passed' \subseteq ToSet(Arms)
        /\ original' \in {0, 1} /\ replicas' \in {0, 1}
    BY TaskTyped DEF TypeOK, Configurations
  <2>4. /\ scaled' \in BOOLEAN /\ ns_created' \in BOOLEAN
        /\ confirmed' \in BOOLEAN /\ verified' \in BOOLEAN
    BY DEF TypeOK
  <2>5. /\ offset' \in 0..Rows /\ cursor' \in 0..Rows
        /\ rows' \subseteq 1..Rows /\ used' \subseteq 1..Rows
    <3>1. CASE \E count \in 1..MaxCount : Measure(count)
      BY <3>1, MeasureFresh
    <3>2. CASE UNCHANGED <<rows, used, offset, cursor>>
      BY <3>2 DEF TypeOK
    <3> QED
      BY <3>1, <3>2
  <2>6. /\ worker' \in {"none", "starting", "ready"} /\ ns' \in {"none", "active", "terminating"}
        /\ deployment' \in [replicas : {0, 1}, seqs : {0} \union ToSet(Arms)]
        /\ pod' \in [state : {"none", "starting", "ready", "restarted"}, seqs : {0} \union ToSet(Arms)]
    BY DEF TypeOK
  <2> QED
    BY <2>1, <2>2, <2>3, <2>4, <2>5, <2>6 DEF TypeOK
<1>2. Exclusive'
  BY DEF Exclusive, TestFree, Wanted
<1>3. Empty'
  BY DEF Empty
<1>4. Stages'
  BY AfterTaskTyped, TaskTyped DEF Stages, TestFree, Wanted, TypeOK, Configurations
<1>5. Configurations'
  BY AfterTaskTyped, TaskTyped DEF Configurations, Deployed, Undone, TypeOK, Arm
<1>6. Prompts'
  <2>1. CASE \E count \in 1..MaxCount : Measure(count)
    BY <2>1, MeasureFresh
  <2>2. CASE UNCHANGED <<rows, used, offset, cursor>>
    BY <2>2 DEF Prompts
  <2> QED
    BY <2>1, <2>2
<1> QED
  BY <1>1, <1>2, <1>3, <1>4, <1>5, <1>6

LEMMA DeleteNamespaceInv == Inv /\ DeleteNamespace => Inv'
<1> SUFFICES ASSUME Inv, DeleteNamespace PROVE Inv'
  OBVIOUS
<1> USE DEF DeleteNamespace
<1>1. TypeOK'
  BY DEF TypeOK
<1>2. Exclusive'
  BY DEF Exclusive, TestFree, Wanted
<1>3. Empty'
  BY DEF Empty
<1>4. Stages'
  BY DEF Stages, TestFree, Wanted
<1>5. Configurations'
  BY DEF Configurations, Deployed, Undone
<1>6. Prompts'
  BY DEF Prompts
<1> QED
  BY <1>1, <1>2, <1>3, <1>4, <1>5, <1>6

LEMMA DrainedInv == Inv /\ Drained => Inv'
<1> SUFFICES ASSUME Inv, Drained PROVE Inv'
  OBVIOUS
<1> USE DEF Drained
<1>1. TypeOK'
  BY DEF TypeOK
<1>2. Exclusive'
  BY DEF Exclusive, TestFree, Wanted
<1>3. Empty'
  BY DEF Empty
<1>4. Stages'
  BY DEF Stages, TestFree, Wanted
<1>5. Configurations'
  BY DEF Configurations, Deployed, Undone
<1>6. Prompts'
  BY DEF Prompts
<1> QED
  BY <1>1, <1>2, <1>3, <1>4, <1>5, <1>6

LEMMA RescaleInv == Inv /\ Rescale => Inv'
<1> SUFFICES ASSUME Inv, Rescale PROVE Inv'
  OBVIOUS
<1> USE DEF Rescale
<1>1. TypeOK'
  BY DEF TypeOK
<1>2. Exclusive'
  BY DEF Exclusive, TestFree, Wanted, Stages
<1>3. Empty'
  BY DEF Empty
<1>4. Stages'
  BY DEF Stages, TestFree, Wanted
<1>5. Configurations'
  BY DEF Configurations, Deployed, Undone
<1>6. Prompts'
  BY DEF Prompts
<1> QED
  BY <1>1, <1>2, <1>3, <1>4, <1>5, <1>6

LEMMA RestartedInv == Inv /\ Restarted => Inv'
<1> SUFFICES ASSUME Inv, Restarted PROVE Inv'
  OBVIOUS
<1> USE DEF Restarted
<1>1. TypeOK'
  BY DEF TypeOK
<1>2. Exclusive'
  BY DEF Exclusive, TestFree, Wanted
<1>3. Empty'
  BY DEF Empty
<1>4. Stages'
  BY DEF Stages, TestFree, Wanted
<1>5. Configurations'
  BY DEF Configurations, Deployed, Undone
<1>6. Prompts'
  BY DEF Prompts
<1> QED
  BY <1>1, <1>2, <1>3, <1>4, <1>5, <1>6

LEMMA VerifyInv == Inv /\ Verify => Inv'
<1> SUFFICES ASSUME Inv, Verify PROVE Inv'
  OBVIOUS
<1> USE DEF Verify
<1>1. TypeOK'
  <2>1. pc' \in Running \union Restoring \union Ended
    BY DEF TypeOK
  <2>2. plan' \in Seq(Tasks)
    BY DEF TypeOK
  <2>3. /\ seqs' \in {0} \union ToSet(Arms) /\ passed' \subseteq ToSet(Arms)
        /\ original' \in {0, 1} /\ replicas' \in {0, 1}
    BY DEF TypeOK
  <2>4. /\ scaled' \in BOOLEAN /\ ns_created' \in BOOLEAN
        /\ confirmed' \in BOOLEAN /\ verified' \in BOOLEAN
    BY DEF TypeOK
  <2>5. /\ offset' \in 0..Rows /\ cursor' \in 0..Rows
        /\ rows' \subseteq 1..Rows /\ used' \subseteq 1..Rows
    BY DEF TypeOK
  <2>6. /\ worker' \in {"none", "starting", "ready"} /\ ns' \in {"none", "active", "terminating"}
        /\ deployment' \in [replicas : {0, 1}, seqs : {0} \union ToSet(Arms)]
        /\ pod' \in [state : {"none", "starting", "ready", "restarted"}, seqs : {0} \union ToSet(Arms)]
    BY DEF TypeOK
  <2> QED
    BY <2>1, <2>2, <2>3, <2>4, <2>5, <2>6 DEF TypeOK
<1>2. Exclusive'
  BY DEF Exclusive, TestFree, Wanted
<1>3. Empty'
  BY DEF Empty
<1>4. Stages'
  BY DEF Stages, TestFree, Wanted, Exclusive
<1>5. Configurations'
  BY DEF Configurations, Deployed, Undone
<1>6. Prompts'
  BY DEF Prompts
<1> QED
  BY <1>1, <1>2, <1>3, <1>4, <1>5, <1>6

LEMMA SigtermInv == Inv /\ Sigterm => Inv'
<1> SUFFICES ASSUME Inv, Sigterm PROVE Inv'
  OBVIOUS
<1> USE DEF Sigterm
<1>1. TypeOK'
  BY DEF TypeOK
<1>2. Exclusive'
  BY DEF Exclusive, TestFree, Wanted
<1>3. Empty'
  BY DEF Empty
<1>4. Stages'
  BY DEF Stages, TestFree, Wanted
<1>5. Configurations'
  BY DEF Configurations, Deployed, Undone
<1>6. Prompts'
  BY DEF Prompts
<1> QED
  BY <1>1, <1>2, <1>3, <1>4, <1>5, <1>6

LEMMA KillInv == Inv /\ Kill => Inv'
<1> SUFFICES ASSUME Inv, Kill PROVE Inv'
  OBVIOUS
<1> USE DEF Kill
<1>1. TypeOK'
  BY DEF TypeOK
<1>2. Exclusive'
  BY DEF Exclusive, TestFree, Wanted
<1>3. Empty'
  BY DEF Empty
<1>4. Stages'
  BY DEF Stages, TestFree, Wanted
<1>5. Configurations'
  BY DEF Configurations, Deployed, Undone
<1>6. Prompts'
  BY DEF Prompts
<1> QED
  BY <1>1, <1>2, <1>3, <1>4, <1>5, <1>6

LEMMA WorkerPodInv == Inv /\ WorkerPod => Inv'
<1> SUFFICES ASSUME Inv, WorkerPod PROVE Inv'
  OBVIOUS
<1> USE DEF WorkerPod
<1>1. TypeOK'
  BY DEF TypeOK
<1>2. Exclusive'
  BY DEF Exclusive, TestFree, Wanted
<1>3. Empty'
  BY DEF Empty
<1>4. Stages'
  BY DEF Stages, TestFree, Wanted
<1>5. Configurations'
  BY DEF Configurations, Deployed, Undone, Arm
<1>6. Prompts'
  BY DEF Prompts
<1> QED
  BY <1>1, <1>2, <1>3, <1>4, <1>5, <1>6

LEMMA TestPodInv == Inv /\ TestPod => Inv'
<1> SUFFICES ASSUME Inv, TestPod PROVE Inv'
  OBVIOUS
<1> USE DEF TestPod
<1>1. TypeOK'
  BY DEF TypeOK
<1>2. Exclusive'
  BY DEF Exclusive, TestFree, Wanted
<1>3. Empty'
  BY DEF Empty
<1>4. Stages'
  BY DEF Stages, TestFree, Wanted
<1>5. Configurations'
  BY DEF Configurations, Deployed, Undone, Arm, Stages, TypeOK
<1>6. Prompts'
  BY DEF Prompts
<1> QED
  BY <1>1, <1>2, <1>3, <1>4, <1>5, <1>6

LEMMA NamespaceGoneInv == Inv /\ NamespaceGone => Inv'
<1> SUFFICES ASSUME Inv, NamespaceGone PROVE Inv'
  OBVIOUS
<1> USE DEF NamespaceGone
<1>1. TypeOK'
  BY DEF TypeOK
<1>2. Exclusive'
  BY DEF Exclusive, TestFree, Wanted
<1>3. Empty'
  BY DEF Empty
<1>4. Stages'
  BY DEF Stages, TestFree, Wanted
<1>5. Configurations'
  BY DEF Configurations, Deployed, Undone, Arm, Stages, Empty
<1>6. Prompts'
  BY DEF Prompts
<1> QED
  BY <1>1, <1>2, <1>3, <1>4, <1>5, <1>6

LEMMA StutterInv == Inv /\ UNCHANGED vars => Inv'
BY DEF vars, memory, files, cluster, history, Inv, TypeOK, Exclusive, TestFree, Wanted, Empty,
       Stages, Configurations, Deployed, Undone, Arm, Prompts

LEMMA NextInv == Inv /\ [Next]_vars => Inv'
<1> SUFFICES ASSUME Inv, [Next]_vars PROVE Inv'
  OBVIOUS
<1>1. CASE Start \/ Resume
  BY <1>1, StartInv, ResumeInv
<1>2. CASE ScriptStep
  BY <1>2, StopWorkerInv, WorkerStoppedInv, CreateNamespaceInv, NextTaskInv, ConcludeInv,
     ScaleDownInv, UndeployedInv, ProbeInv, ApplyInv, ReadyInv, BlockedCleanupInv, WarmUpInv,
     RunInv, DeleteNamespaceInv, DrainedInv, RescaleInv, RestartedInv, VerifyInv
  DEF ScriptStep
<1>3. CASE Sigterm \/ Kill
  BY <1>3, SigtermInv, KillInv
<1>4. CASE ClusterStep
  BY <1>4, WorkerPodInv, TestPodInv, NamespaceGoneInv DEF ClusterStep
<1>5. CASE UNCHANGED vars
  BY <1>5, StutterInv
<1> QED
  BY <1>1, <1>2, <1>3, <1>4, <1>5 DEF Next

LEMMA InitInv == Init => Inv
<1> SUFFICES ASSUME Init PROVE Inv
  OBVIOUS
<1>1. plan \in Seq(Tasks) /\ 0 \in 0..Rows
  BY ArmsAssumption DEF Init
<1>2. TypeOK
  BY <1>1 DEF Init, TypeOK, Ended, NoPod, NoDeployment
<1>3. Exclusive /\ Empty
  BY DEF Init, Exclusive, TestFree, Wanted, Empty, NoPod, NoDeployment
<1>4. Stages /\ Configurations
  BY DEF Init, Stages, Configurations, Opening, Configured, Closing, Ended
<1>5. Prompts
  BY <1>1, ArmsAssumption DEF Init, Prompts
<1> QED
  BY <1>2, <1>3, <1>4, <1>5 DEF Inv

-----------------------------------------------------------------------------
(* The theorems.                                                           *)

\* The state of the experiment keeps its type, and the strengthening holds.
THEOREM Invariance == Spec => []Inv
BY InitInv, NextInv, PTL DEF Spec

\* The production worker and the test pod are never on the GPU together,
\* however often the two scripts are started, interrupted and killed.
THEOREM Exclusion == Spec => []GpuExclusive
<1>1. Inv => GpuExclusive
  BY DEF Inv, Exclusive, TestFree, GpuExclusive
<1> QED
  BY <1>1, Invariance, PTL

\* Every measurement is of the arm it is filed under.
THEOREM ArmMeasured == Spec => []MeasuresItsArm
<1>1. Inv => MeasuresItsArm
  BY DEF Inv, Configurations, Deployed, MeasuresItsArm
<1> QED
  BY <1>1, Invariance, PTL

\* No prompt is offered twice, over a continuation too.
THEOREM Freshness == Spec => []PromptsFresh
<1>1. Inv => PromptsFresh
  BY DEF Inv, Prompts, PromptsFresh
<1> QED
  BY <1>1, Invariance, PTL

\* A verified restoration has brought the worker back and left nothing that
\* could still take its GPU.
THEOREM Restoration == Spec => []VerifiedRestores
<1>1. Inv => VerifiedRestores
  <2> SUFFICES ASSUME Inv, pc = "restored"
               PROVE  /\ pod = NoPod /\ ~ (ns = "active" /\ deployment.replicas = 1)
                      /\ original > 0 => worker = "ready"
    BY DEF VerifiedRestores
  <2>1. TestFree /\ (original > 0 => worker = "ready")
    BY DEF Inv, Stages
  <2> QED
    BY <2>1 DEF TestFree, Wanted
<1> QED
  BY <1>1, Invariance, PTL

-----------------------------------------------------------------------------
(***************************************************************************)
(* One measurement (OpenLoopMeasure), for any number of requests: it is    *)
(* typed, a finished one is settled, and an invalid one has a reason.      *)
(***************************************************************************)

\* Exactly the launched requests have a task, and the ones that ran to their
\* end have a record.
TasksInv ==
  /\ \A r \in Requests : (task[r] = "none") <=> (r > launched)
  /\ \A r \in Requests : (task[r] = "ended") <=> (record[r] # "none")

\* Whatever is not on its way to a complete answer has left a reason.
ReasonsInv ==
  /\ \A r \in Requests : task[r] \in {"cancelling", "dropped"} => reasons # {}
  /\ \A r \in Requests : record[r] \notin {"none", "completed"} => reasons # {}
  /\ main = "gathering" => reasons # {}
  /\ stop /\ main # "finished" => reasons # {}

\* The launcher waits only when all are launched, and finishes only then or
\* with a reason, when nothing runs any more.
LauncherInv ==
  /\ main = "waiting" => launched = Count
  /\ main = "finished" => /\ Outstanding = {} /\ monitor = "ended"
                          /\ reasons # {} \/ launched = Count

MeasureInv == MeasureTypeOK /\ TasksInv /\ ReasonsInv /\ LauncherInv

LEMMA MeasureInitInv == MeasureInit => MeasureInv
<1> SUFFICES ASSUME MeasureInit PROVE MeasureInv
  OBVIOUS
<1> USE CountAssumption DEF MeasureInit, Requests
<1>1. MeasureTypeOK
  <2>1. launched \in 0..Count
    OBVIOUS
  <2>2. /\ task \in [Requests -> {"none", "created", "running", "cancelling", "ended", "dropped"}]
        /\ record \in [Requests -> Statuses \union {"none"}]
    OBVIOUS
  <2>3. /\ main \in {"launching", "waiting", "gathering", "finished"}
        /\ stop \in BOOLEAN /\ reasons \subseteq {"request", "dispatch", "monitor"}
        /\ monitor \in {"polling", "judging", "ended"}
    OBVIOUS
  <2> QED
    BY <2>1, <2>2, <2>3 DEF MeasureTypeOK
<1>2. TasksInv
  BY DEF TasksInv
<1>3. ReasonsInv /\ LauncherInv
  BY DEF ReasonsInv, LauncherInv
<1> QED
  BY <1>1, <1>2, <1>3 DEF MeasureInv

\* Cancelling everything keeps tasks typed, and none of those it touches runs on.
LEMMA CancelledTyped ==
  ASSUME NEW ts \in [Requests -> {"none", "created", "running", "cancelling", "ended", "dropped"}]
  PROVE  /\ Cancelled(ts) \in [Requests -> {"none", "created", "running", "cancelling", "ended", "dropped"}]
         /\ \A r \in Requests : /\ (Cancelled(ts)[r] = "none") <=> (ts[r] = "none")
                                /\ (Cancelled(ts)[r] = "ended") <=> (ts[r] = "ended")
BY DEF Cancelled

\* Launching k more creates the tasks of exactly those.
LEMMA CreatedTyped ==
  ASSUME MeasureTypeOK, TasksInv, NEW k \in 1..Count, launched + k <= Count
  PROVE  /\ Created(k) \in [Requests -> {"none", "created", "running", "cancelling", "ended", "dropped"}]
         /\ \A r \in Requests : /\ (Created(k)[r] = "none") <=> (r > launched + k)
                                /\ (Created(k)[r] = "ended") <=> (task[r] = "ended")
                                /\ Created(k)[r] \in {"cancelling", "dropped"} => task[r] = Created(k)[r]
BY CountAssumption DEF MeasureTypeOK, TasksInv, Created, Requests

LEMMA MeasureNextInv == MeasureInv /\ [MeasureNext]_measureVars => MeasureInv'
<1> SUFFICES ASSUME MeasureInv, [MeasureNext]_measureVars PROVE MeasureInv'
  OBVIOUS
<1> USE CountAssumption
<1>1. CASE LaunchOnTime
  <2>1. PICK k \in 1..Count : Launch(k)
    BY <1>1 DEF LaunchOnTime
  <2>2. launched + k <= Count /\ launched' = launched + k /\ task' = Created(k)
    BY <2>1 DEF Launch
  <2>3. /\ main = "launching" /\ ~ stop /\ UNCHANGED <<record, stop, reasons, monitor>>
        /\ main' = IF launched' = Count THEN "waiting" ELSE "launching"
    BY <1>1, <2>1 DEF LaunchOnTime, Launch
  <2>4. MeasureTypeOK /\ TasksInv /\ ReasonsInv /\ LauncherInv
    BY DEF MeasureInv
  <2>5. MeasureTypeOK'
    BY <2>2, <2>3, <2>4, CreatedTyped DEF MeasureTypeOK, Statuses
  <2>6. TasksInv'
    BY <2>2, <2>3, <2>4, CreatedTyped DEF TasksInv
  <2>7. ReasonsInv'
    BY <2>2, <2>3, <2>4, CreatedTyped DEF ReasonsInv
  <2>8. LauncherInv'
    BY <2>2, <2>3 DEF LauncherInv
  <2> QED
    BY <2>5, <2>6, <2>7, <2>8 DEF MeasureInv
<1>2. CASE LaunchLate
  <2>1. PICK k \in 1..Count : /\ launched + k <= Count /\ launched' = launched + k
                              /\ task' = Cancelled(Created(k))
    BY <1>2 DEF LaunchLate
  <2>2. /\ main = "launching" /\ main' = "gathering" /\ UNCHANGED <<record, monitor>>
        /\ stop' = TRUE /\ reasons' = reasons \union {"dispatch"}
    BY <1>2 DEF LaunchLate, Stopped
  <2>3. MeasureTypeOK /\ TasksInv
    BY DEF MeasureInv
  <2>4. MeasureTypeOK'
    BY <2>1, <2>2, <2>3, CreatedTyped, CancelledTyped DEF MeasureTypeOK, Statuses
  <2>5. TasksInv'
    BY <2>1, <2>2, <2>3, CreatedTyped, CancelledTyped DEF TasksInv
  <2>6. ReasonsInv' /\ LauncherInv'
    BY <2>2 DEF ReasonsInv, LauncherInv
  <2> QED
    BY <2>4, <2>5, <2>6 DEF MeasureInv
<1>3. CASE CancelAll
  <2>1. /\ main \in {"launching", "waiting"} /\ stop /\ main' = "gathering"
        /\ task' = Cancelled(task) /\ UNCHANGED <<launched, record, stop, reasons, monitor>>
    BY <1>3 DEF CancelAll
  <2>2. MeasureTypeOK /\ TasksInv /\ ReasonsInv
    BY DEF MeasureInv
  <2>3. MeasureTypeOK'
    BY <2>1, <2>2, CancelledTyped DEF MeasureTypeOK, Statuses
  <2>4. TasksInv'
    <3>1. task \in [Requests -> {"none", "created", "running", "cancelling", "ended", "dropped"}]
      BY <2>2 DEF MeasureTypeOK
    <3> QED
      BY <2>1, <2>2, <3>1, CancelledTyped DEF TasksInv
  <2>5. reasons # {} /\ reasons' # {}
    BY <2>1, <2>2 DEF ReasonsInv
  <2>6. ReasonsInv' /\ LauncherInv'
    BY <2>1, <2>5 DEF ReasonsInv, LauncherInv
  <2> QED
    BY <2>3, <2>4, <2>6 DEF MeasureInv
<1>4. CASE Finish
  BY <1>4 DEF Finish, MeasureInv, MeasureTypeOK, TasksInv, ReasonsInv, LauncherInv, Outstanding
<1>5. ASSUME NEW r \in Requests, Begin(r) PROVE MeasureInv'
  <2>1. /\ task[r] = "created" /\ task' = [task EXCEPT ![r] = "running"]
        /\ UNCHANGED <<main, launched, record, stop, reasons, monitor>>
    BY <1>5 DEF Begin
  <2>2. MeasureTypeOK /\ TasksInv /\ ReasonsInv /\ LauncherInv
    BY DEF MeasureInv
  <2>3. MeasureTypeOK'
    BY <2>1, <2>2 DEF MeasureTypeOK
  <2>4. TasksInv' /\ ReasonsInv'
    BY <2>1, <2>2 DEF TasksInv, ReasonsInv, MeasureTypeOK
  <2>5. main # "finished"
    BY <2>1, <2>2 DEF LauncherInv, Outstanding
  <2>6. LauncherInv'
    BY <2>1, <2>2, <2>5 DEF LauncherInv
  <2> QED
    BY <2>3, <2>4, <2>6 DEF MeasureInv
<1>6. ASSUME NEW r \in Requests, End(r) PROVE MeasureInv'
  <2>1. PICK status \in Statuses : Write(r, status)
    BY <1>6 DEF End, Statuses
  <2>2. task[r] \in {"running", "cancelling"}
    BY <1>6 DEF End
  <2>3. /\ record' = [record EXCEPT ![r] = status] /\ task' = [task EXCEPT ![r] = "ended"]
        /\ UNCHANGED <<main, launched, monitor>>
        /\ IF status = "completed" THEN UNCHANGED <<stop, reasons>>
           ELSE stop' = TRUE /\ reasons' = reasons \union {"request"}
    BY <2>1 DEF Write, Stopped
  <2>4. MeasureTypeOK /\ TasksInv /\ ReasonsInv /\ LauncherInv
    BY DEF MeasureInv
  <2>5. MeasureTypeOK'
    BY <2>3, <2>4 DEF MeasureTypeOK, Statuses
  <2>6. TasksInv'
    BY <2>2, <2>3, <2>4 DEF TasksInv, MeasureTypeOK, Statuses
  <2>7. main # "finished"
    BY <2>2, <2>4 DEF LauncherInv, Outstanding
  <2>8. ReasonsInv' /\ LauncherInv'
    BY <2>3, <2>4, <2>7 DEF ReasonsInv, LauncherInv, MeasureTypeOK
  <2> QED
    BY <2>5, <2>6, <2>8 DEF MeasureInv
<1>7. CASE Poll
  BY <1>7 DEF Poll, MeasureInv, MeasureTypeOK, TasksInv, ReasonsInv, LauncherInv, Outstanding
<1>8. CASE Judge
  <2>1. /\ monitor = "judging" /\ monitor' = "polling" /\ UNCHANGED <<main, launched, task, record>>
        /\ \/ UNCHANGED <<stop, reasons>>
           \/ stop' = TRUE /\ reasons' = reasons \union {"monitor"}
    BY <1>8 DEF Judge, Stopped
  <2>2. MeasureTypeOK /\ TasksInv /\ ReasonsInv /\ LauncherInv
    BY DEF MeasureInv
  <2>3. main # "finished"
    BY <2>1, <2>2 DEF LauncherInv
  <2>4. MeasureTypeOK'
    BY <2>1, <2>2 DEF MeasureTypeOK
  <2>5. TasksInv'
    BY <2>1, <2>2 DEF TasksInv
  <2>6. ReasonsInv' /\ LauncherInv'
    BY <2>1, <2>2, <2>3 DEF ReasonsInv, LauncherInv
  <2> QED
    BY <2>4, <2>5, <2>6 DEF MeasureInv
<1>9. CASE UNCHANGED measureVars
  BY <1>9 DEF measureVars, MeasureInv, MeasureTypeOK, TasksInv, ReasonsInv, LauncherInv, Outstanding
<1> QED
  BY <1>1, <1>2, <1>3, <1>4, <1>5, <1>6, <1>7, <1>8, <1>9 DEF MeasureNext

\* Every reachable state of a measurement satisfies the invariant above.
THEOREM MeasureInvariance == MeasureSpec => []MeasureInv
BY MeasureInitInv, MeasureNextInv, PTL DEF MeasureSpec

\* The type invariant, for any number of requests.
THEOREM TypeCorrect == MeasureSpec => []MeasureTypeOK
<1>1. MeasureInv => MeasureTypeOK
  BY DEF MeasureInv
<1> QED
  BY <1>1, MeasureInvariance, PTL

\* When measure returns nothing of it runs any more, and every request that
\* ever ran has its record.
THEOREM Settled == MeasureSpec => []FinishedIsSettled
<1>1. MeasureInv => FinishedIsSettled
  <2> SUFFICES ASSUME MeasureInv, main = "finished" PROVE FinishedIsSettled
    BY DEF FinishedIsSettled
  <2>1. Outstanding = {}
    BY DEF MeasureInv, LauncherInv
  <2>2. ASSUME NEW r \in 1..launched PROVE record[r] # "none" \/ task[r] = "dropped"
    <3>1. r \in Requests /\ ~ (r > launched)
      BY CountAssumption DEF MeasureInv, MeasureTypeOK, Requests
    <3>2. task[r] # "none" /\ task[r] \notin {"created", "running", "cancelling"}
      BY <2>1, <3>1 DEF MeasureInv, TasksInv, Outstanding
    <3>3. task[r] \in {"ended", "dropped"}
      BY <3>1, <3>2 DEF MeasureInv, MeasureTypeOK
    <3> QED
      BY <3>1, <3>3 DEF MeasureInv, TasksInv
  <2> QED
    BY <2>1, <2>2 DEF FinishedIsSettled
<1> QED
  BY <1>1, MeasureInvariance, PTL

\* A measurement that has returned and is not valid has a stop reason.
THEOREM Explained == MeasureSpec => []InvalidHasReason
<1>1. MeasureInv => InvalidHasReason
  <2> SUFFICES ASSUME MeasureInv, main = "finished", reasons = {} PROVE Valid
    BY DEF InvalidHasReason
  <2>1. launched = Count /\ Outstanding = {}
    BY DEF MeasureInv, LauncherInv
  <2>2. ASSUME NEW r \in Requests PROVE record[r] = "completed"
    <3>1. ~ (r > launched)
      BY <2>1, CountAssumption DEF Requests
    <3>2. task[r] \notin {"none", "created", "running", "cancelling", "dropped"}
      BY <2>1, <3>1 DEF MeasureInv, TasksInv, ReasonsInv, Outstanding
    <3>3. task[r] = "ended"
      BY <3>2 DEF MeasureInv, MeasureTypeOK
    <3> QED
      BY <3>3 DEF MeasureInv, TasksInv, ReasonsInv
  <2> QED
    BY <2>2 DEF Valid
<1> QED
  BY <1>1, MeasureInvariance, PTL
=============================================================================
