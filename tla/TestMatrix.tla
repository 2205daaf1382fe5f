----------------------------- MODULE TestMatrix -----------------------------
(***************************************************************************)
(* The Qwen3.5 test matrix: scripts/qwen35-27b/orchestrate.sh, the loop of *)
(* bench.py that it starts for every job, and run-spark01-remaining.sh.    *)
(*                                                                         *)
(* A run of the script drives up to two lanes.  A lane takes its jobs one  *)
(* after the other:                                                        *)
(*                                                                         *)
(*   next -> apply -> ready -> load -> level ... -> drop -> next           *)
(*     \_ skipped         \_ not ready: next, or the end of the script      *)
(*                                                                         *)
(* Lane "a" of phases A to D runs under `set -e`, so most failures end the *)
(* whole script; lane "b" (phase A, spark-02) and both lanes of "R", the   *)
(* script run-spark01-remaining.sh, stand left of `|| true`, where bash    *)
(* ignores `set -e`, and are background processes, which survive the       *)
(* script.  Phase C differs from B in its techniques only.                 *)
(***************************************************************************)
EXTENDS Integers, Sequences, FiniteSets, FiniteSetsExt

CONSTANTS Production,  \* the pods that serve from spark-02
          Levels,      \* the cells of a job, by its data set; numbers
          FileFlags,   \* pod |-> the technique whose flags its manifest holds
          JobTable,    \* job |-> [pod, node, technique, set]: its data set is "set"
          FirstLane,   \* phase A, spark-01: sequence of jobs
          SecondLane,  \* phase A, spark-02: sequence of jobs
          SweepLane,   \* phases B and C on [node |-> sequence of jobs]
          ShareLane,   \* phase D on [node |-> sequence of jobs]
          Remaining,   \* the two jobs of run-spark01-remaining.sh
          MaxRuns,     \* bound: starts of a script
          MaxDays,     \* bound: dates
          MaxSlips     \* bound: kinds of mishaps in one behaviour

Nodes == {"spark-01", "spark-02"}
Phases == {"A", "B", "D", "R"}    \* ALL starts A to D one after the other
Runs == 1..MaxRuns
Days == 1..MaxDays
Lanes == Runs \X {"a", "b"}

Jobs == DOMAIN JobTable
JobsOf(jobs) == {jobs[i] : i \in DOMAIN jobs}
BenchPods == {JobTable[j].pod : j \in Jobs}
Cells(j) == Levels[JobTable[j].set]

ASSUME BoundsAssumption == {MaxRuns, MaxSlips} \subseteq Nat /\ MaxDays \in Nat \ {0}
ASSUME LevelsAssumption ==
  \A j \in Jobs : Cells(j) \subseteq Nat /\ IsFiniteSet(Cells(j))
\* A name of a pod stands for one node, and is not that of a pod of production.
ASSUME PodsAssumption ==
  /\ Production \cap BenchPods = {}  /\ {"none", "production"} \cap Jobs = {}
  /\ \A i, j \in Jobs : JobTable[i].pod = JobTable[j].pod => JobTable[i].node = JobTable[j].node
\* Phase A has its first lane on spark-01 and its second on spark-02; the remaining
\* jobs are on spark-01, each in a pod of its own.
ASSUME LanesAssumption ==
  /\ {FirstLane, SecondLane} \subseteq Seq(Jobs)
  /\ \A n \in Nodes : {SweepLane[n], ShareLane[n]} \subseteq Seq(Jobs)
  /\ {Remaining[1], Remaining[2]} \subseteq Jobs
  /\ \A j \in JobsOf(FirstLane) \cup {Remaining[1], Remaining[2]} : JobTable[j].node # "spark-02"
  /\ \A j \in JobsOf(SecondLane) : JobTable[j].node = "spark-02"
  /\ JobTable[Remaining[1]].pod # JobTable[Remaining[2]].pod

VARIABLES
  today,     \* the date
  run,       \* the number of script starts
  script,    \* [pc, phase, day] of the last start; day also for its lanes
  lane,      \* the lanes of every start
  pods,      \* the cluster: [maker, terminating] of every pod; the maker is the
             \* job whose apply created it
  files,     \* the result files: [job, day] |-> none, torn or what is saved
  tried,     \* history: <<job, level>> that some bench.py has run
  slip       \* history: what went wrong or was left out, for the properties

vars == <<today, run, script, lane, pods, files, tried, slip>>

\* A pod that exists may be starting, serving or failed at any moment: a wait for
\* it, and a level measured on it, may succeed or fail.
Absent == [maker |-> "none", terminating |-> FALSE]
Fresh(maker) == [maker |-> maker, terminating |-> FALSE]
PodStates == [maker : Jobs \cup {"production", "none"}, terminating : BOOLEAN]
Exists(p) == pods[p] # Absent

File(kind, done, saved) == [kind |-> kind, done |-> done, saved |-> saved]
None == File("none", 0, {})
Torn == File("torn", 0, {})

Idle == [todo |-> <<>>, step |-> "ended", mem |-> {}, done |-> 0, left |-> {}]
Load(jobs) == IF jobs = <<>> THEN Idle ELSE [Idle EXCEPT !.todo = jobs, !.step = "next"]

Init ==
  /\ today = 1  /\ run = 0
  /\ script = [pc |-> "idle", phase |-> "A", day |-> [r \in Runs |-> 1]]
  /\ lane = [l \in Lanes |-> Idle]
  /\ pods = [p \in Production \cup BenchPods |->
               IF p \in Production THEN Fresh("production") ELSE Absent]
  /\ files = [f \in Jobs \X Days |-> None]
  /\ tried = {} /\ slip = {}
-----------------------------------------------------------------------------
(* One lane *)

Alive(l) == lane[l].step # "ended"
Job(l) == Head(lane[l].todo)
PodOf(l) == JobTable[Job(l)].pod
Foreground(l) == l = <<run, "a">> /\ script.phase # "R" /\ script.pc \in {"lanes", "sweep"}
Strict(l) == Foreground(l)   \* under `set -e`

\* What a pod that does not become ready ends: run_benchmark returns 1, phase D
\* goes on with its next technique.
ContinuesUnready(l) == ~Strict(l) \/ JobTable[Job(l)].set = "sharegpt"

FileOf(l) == <<Job(l), script.day[l[1]]>>
Goto(l, step) == lane' = [lane EXCEPT ![l].step = step]
NextJob(l) == lane' = [lane EXCEPT ![l] = Load(Tail(@.todo))]

\* What goes wrong is noted by its kind; a behaviour has at most MaxSlips kinds.
Note(kinds) == slip' = slip \cup kinds /\ Cardinality(slip') <= MaxSlips

\* The script dies.  Its background lane does not.
Dies(l, kinds) ==
  /\ lane' = [lane EXCEPT ![l] = Idle]
  /\ script' = [script EXCEPT !.pc = "idle"]
  /\ Note(kinds \cup (IF Alive(<<run, "b">>) THEN {"orphan"}
                      ELSE IF script.pc = "lanes" THEN {"died"} ELSE {}))

\* `ls | head -1`: of all dates of a job, only the oldest file is asked.
Oldest(j) == LET ds == {d \in Days : files[j, d] # None}
             IN  IF ds = {} THEN None ELSE files[j, Min(ds)]
Complete(j) == LET f == Oldest(j) IN f.kind = "saved" /\ f.done = Cardinality(Cells(j))

Skip(l) ==
  /\ lane[l].step = "next"
  /\ Complete(Job(l))
  /\ NextJob(l)
  /\ UNCHANGED <<today, run, script, pods, files, tried, slip>>

\* teardown_pod deletes, waits 120 s and looks at nothing: the pod is gone, or
\* still terminating, or the call has failed.
Teardowns(p) == {[pods EXCEPT ![p] = Absent]} \cup
  (IF Exists(p) THEN {pods, [pods EXCEPT ![p].terminating = TRUE]} ELSE {})
Late(p, after) == IF after[p] = Absent THEN {} ELSE {"deletion"}

Clear(l) ==      \* before a job
  LET p == PodOf(l) IN
  /\ lane[l].step = "next" /\ ~Complete(Job(l))
  /\ \E after \in Teardowns(p) : pods' = after /\ Note(Late(p, after))
  /\ Goto(l, "apply")
  /\ UNCHANGED <<today, run, script, files, tried>>

Drop(l) ==       \* after it
  LET p == PodOf(l) IN
  /\ lane[l].step \in {"drop", "level"} /\ lane[l].left = {}
  /\ \E after \in Teardowns(p) : pods' = after /\ Note(Late(p, after))
  /\ NextJob(l)
  /\ UNCHANGED <<today, run, script, files, tried>>

\* kubectl apply.  Whatever --print-technique-flags prints for the technique (no
\* flags for an unknown one, nothing when it fails), the manifest is applied as it
\* is in the repository: sed edits single lines, and the manifests have the name
\* and the value of EXTRA_*_ARGS on two.  A pod that is there is left as it is.
Apply(l) ==
  LET p == PodOf(l) IN
  /\ lane[l].step = "apply"
  /\ \/ /\ pods' = IF Exists(p) THEN pods ELSE [pods EXCEPT ![p] = Fresh(Job(l))]
        /\ Goto(l, "ready") /\ UNCHANGED <<script, slip>>
     \/ /\ IF Strict(l) THEN Dies(l, {"apply"})
                       ELSE Goto(l, "ready") /\ Note({"apply"}) /\ UNCHANGED script
        /\ UNCHANGED pods
  /\ UNCHANGED <<today, run, files, tried>>

\* wait_pod_ready: kubectl exec also reaches a pod that is terminating.
PodReady(l) ==
  /\ lane[l].step = "ready" /\ Exists(PodOf(l))
  /\ Goto(l, "load")
  /\ UNCHANGED <<today, run, script, pods, files, tried, slip>>

\* Failed, or the deadline of 1800 s.
PodNotReady(l) ==
  /\ lane[l].step = "ready"
  /\ \E after \in Teardowns(PodOf(l)) :
       LET kinds == Late(PodOf(l), after) \cup {"unready"} IN
       /\ pods' = after
       /\ IF ContinuesUnready(l)
          THEN NextJob(l) /\ Note(kinds) /\ UNCHANGED script
          ELSE Dies(l, kinds)
  /\ UNCHANGED <<today, run, files, tried>>
-----------------------------------------------------------------------------
(* bench.py *)

BenchLoad_Afresh(l) ==         \* does not read the file
  /\ lane[l].step = "load"
  /\ lane' = [lane EXCEPT ![l] = [@ EXCEPT !.step = "level", !.left = Cells(Job(l))]]
  /\ UNCHANGED <<today, run, script, pods, files, tried, slip>>

\* Resume from the file of this date; a torn one raises.
BenchLoad(l) ==
  LET saved == files[FileOf(l)].saved IN
  /\ lane[l].step = "load" /\ files[FileOf(l)] # Torn
  /\ lane' = [lane EXCEPT ![l] = [@ EXCEPT !.step = "level", !.mem = saved,
                !.done = Cardinality(saved), !.left = Cells(Job(l)) \ {s[1] : s \in saved}]]
  /\ UNCHANGED <<today, run, script, pods, files, tried, slip>>

\* run_bench: the requests go to the pod of the job, by exec or by its IP.
LevelRuns(l) == Exists(PodOf(l))

\* One level: a failed one is counted as done, and the file is written anew.
BenchLevel(l) ==
  LET c == Min(lane[l].left)  done == lane[l].done + 1 IN
  /\ lane[l].step = "level" /\ lane[l].left # {}
  /\ \E entry \in {{}} \cup (IF LevelRuns(l) THEN {{<<c, pods[PodOf(l)].maker>>}} ELSE {}) :
       LET mem == lane[l].mem \cup entry IN
       /\ lane' = [lane EXCEPT ![l] =
                     [@ EXCEPT !.mem = mem, !.done = done, !.left = lane[l].left \ {c}]]
       /\ files' = [files EXCEPT ![FileOf(l)] = File("saved", done, mem)]
       /\ Note(IF entry = {} THEN {"level"} ELSE {})
  /\ tried' = tried \cup {<<Job(l), c>>}
  /\ UNCHANGED <<today, run, script, pods>>

\* An exception: a torn file, the warmup, a level that outlasts its timeout.
BenchRaises(l) ==
  /\ lane[l].step = "load" \/ lane[l].left # {}
  /\ IF Strict(l) THEN Dies(l, {"raised"})
                 ELSE /\ lane' = [lane EXCEPT ![l] = [@ EXCEPT !.step = "drop", !.left = {}]]
                      /\ Note({"raised"}) /\ UNCHANGED script
  /\ UNCHANGED <<today, run, pods, files, tried>>
-----------------------------------------------------------------------------
(* The script *)

StartLanes(a, b) == lane' = [lane EXCEPT ![<<run', "a">>] = Load(a), ![<<run', "b">>] = Load(b)]
\* run-spark01-remaining.sh: two subshells at once, on one node.
RemainingLanes == <<<<Remaining[1]>>, <<Remaining[2]>>>>
Unstopped(jobs) == IF \E j \in JobsOf(jobs) : JobTable[j].node = "spark-02" THEN {"unstopped"} ELSE {}

Sweeps(phase, n) == IF phase = "B" THEN SweepLane[n] ELSE ShareLane[n]

Start(phase, n) ==
  /\ script.pc = "idle" /\ run < MaxRuns
  /\ phase \in {"A", "R"} => n = "spark-01"    \* these do not read BEST_NODE
  /\ run' = run + 1
  /\ script' = [pc |-> IF phase = "A" THEN "stop" ELSE "sweep",
                phase |-> phase, day |-> [script.day EXCEPT ![run'] = today]]
  /\ \/ phase = "A" /\ UNCHANGED <<lane, slip>>
     \/ /\ phase \in {"B", "D"}
        /\ StartLanes(Sweeps(phase, n), <<>>)
        /\ Note(Unstopped(Sweeps(phase, n)))
     \/ /\ phase = "R"
        /\ StartLanes(RemainingLanes[1], RemainingLanes[2])
        /\ UNCHANGED slip
  /\ UNCHANGED <<today, pods, files, tried>>

\* stop_spark02_production: deletes that may fail, without waiting ...
StopProduction ==
  /\ script.pc = "stop"
  /\ \E refused \in SUBSET Production :
       /\ pods' = [p \in DOMAIN pods |-> IF p \in Production \ refused
                                         THEN [pods[p] EXCEPT !.terminating = Exists(p)] ELSE pods[p]]
       /\ Note(IF refused = {} THEN {} ELSE {"deletion"})
  /\ script' = [script EXCEPT !.pc = "stopping"]
  /\ UNCHANGED <<today, run, lane, files, tried>>

\* ... then 120 s for each pod to go, and on with both lanes in any case.
StartPhaseA ==
  /\ script.pc = "stopping"
  /\ Note(IF \E p \in Production : Exists(p) THEN {"deletion"} ELSE {})
  /\ script' = [script EXCEPT !.pc = "lanes"]
  /\ lane' = [lane EXCEPT ![<<run, "a">>] = Load(FirstLane), ![<<run, "b">>] = Load(SecondLane)]
  /\ UNCHANGED <<today, run, pods, files, tried>>

Joined_Fault == script.pc = "lanes" /\ ~Alive(<<run, "a">>)    \* without the wait
\* `wait $SPARK02_PID || true`
Joined == script.pc = "lanes" /\ ~Alive(<<run, "a">>) /\ ~Alive(<<run, "b">>)

\* restore_spark02_production: apply creates what is absent; it leaves a pod
\* that is still terminating as it is, and may fail.
Restore ==
  /\ Joined
  /\ \E refused \in SUBSET Production :
       /\ pods' = [p \in DOMAIN pods |->
                     IF p \in Production \ refused /\ ~Exists(p)
                     THEN Fresh("production")
                     ELSE pods[p]]
       /\ Note(IF refused = {} THEN {} ELSE {"refused"})
  /\ script' = [script EXCEPT !.pc = "idle"]
  /\ UNCHANGED <<today, run, lane, files, tried>>

SweepsEnd ==
  /\ script.pc = "sweep" /\ ~Alive(<<run, "a">>) /\ ~Alive(<<run, "b">>)
  /\ script' = [script EXCEPT !.pc = "idle"]
  /\ UNCHANGED <<today, run, lane, pods, files, tried, slip>>

\* Ctrl-C or a lost terminal: a background lane ignores the interrupt.  A
\* foreground bench.py that dies inside json.dump leaves a torn file.
Interrupt ==
  LET a == <<run, "a">>  b == <<run, "b">> IN
  /\ script.pc # "idle"
  /\ lane' = IF Foreground(a) THEN [lane EXCEPT ![a] = Idle] ELSE lane
  /\ \/ UNCHANGED files
     \/ /\ Foreground(a) /\ lane[a].step = "level" /\ lane[a].left # {}
        /\ files' = [files EXCEPT ![FileOf(a)] = Torn]
  /\ script' = [script EXCEPT !.pc = "idle"]
  /\ Note(IF Alive(b) \/ (script.phase = "R" /\ Alive(a)) THEN {"orphan"}
          ELSE IF script.pc # "sweep" THEN {"died"} ELSE {})
  /\ UNCHANGED <<today, run, pods, tried>>
-----------------------------------------------------------------------------
(* The cluster and the calendar *)

PodGoes(p) ==
  /\ pods[p].terminating
  /\ pods' = [pods EXCEPT ![p] = Absent]
  /\ UNCHANGED <<today, run, script, lane, files, tried, slip>>

NextDay ==
  /\ script.pc = "idle" /\ run \in 1..(MaxRuns - 1)    \* DATE is read at the start
  /\ today < MaxDays /\ today' = today + 1
  /\ UNCHANGED <<run, script, lane, pods, files, tried, slip>>

LaneStep(l) ==
  \/ Skip(l) \/ Clear(l) \/ Drop(l) \/ Apply(l) \/ PodReady(l) \/ PodNotReady(l)
  \/ BenchLoad(l) \/ BenchLevel(l) \/ BenchRaises(l)

Next ==
  \/ \E l \in Lanes : LaneStep(l)
  \/ \E phase \in Phases, n \in Nodes : Start(phase, n)
  \/ StopProduction \/ StartPhaseA \/ Restore \/ SweepsEnd \/ Interrupt
  \/ \E p \in Production \cup BenchPods : PodGoes(p)
  \/ NextDay

Spec == Init /\ [][Next]_vars
-----------------------------------------------------------------------------
(* Correctness *)

FileContents ==
  [kind : {"none", "torn", "saved"}, done : Nat,
   saved : SUBSET ((UNION {Cells(j) : j \in Jobs}) \X (Jobs \cup {"production"}))]

(* Types of the script, its lanes, the cluster and the result files.        *)
TypeOK ==
  /\ today \in Days  /\ run \in 0..MaxRuns
  /\ script.pc \in {"idle", "stop", "stopping", "lanes", "sweep"}
  /\ script.phase \in Phases /\ script.day \in [Runs -> Days]
  /\ \A l \in Lanes : /\ lane[l].done \in Nat
                      /\ lane[l].step = "level" =>
                           lane[l].done + Cardinality(lane[l].left) = Cardinality(Cells(Job(l)))
  /\ pods \in [Production \cup BenchPods -> PodStates]
  /\ \A f \in Jobs \X Days : files[f] \in FileContents

(* "for exclusive GPU access": on spark-02 production and a benchmark hold   *)
(* the GPU together only after a deletion failed or outlasted its wait, a    *)
(* lane outlived its script, or a phase ran that stops nothing there.        *)
ExclusiveOnSpark02 ==
  slip \cap {"deletion", "orphan", "unstopped"} = {} =>
    ~(/\ \E p \in Production : Exists(p)
      /\ \E j \in Jobs : JobTable[j].node = "spark-02" /\ Exists(JobTable[j].pod))

(* Every saved level was measured on a pod that was started for the job it   *)
(* is filed under, unless a deletion failed or outlasted its wait, or a lane *)
(* outlived its script: the jobs of a sweep share one pod name, the pod of   *)
(* one job answers under the name of the next, and apply leaves it as it is. *)
OwnPod ==
  slip \cap {"deletion", "orphan"} = {} =>
    \A f \in Jobs \X Days : \A s \in files[f].saved : s[2] = f[1]

(* What the header of TECHNIQUE_FLAGS takes for granted: the pod was started *)
(* with the flags of the technique the level is filed under.                 *)
TechniqueApplied ==
  \A f \in Jobs \X Days : \A s \in files[f].saved :
    FileFlags[JobTable[s[2]].pod] = JobTable[f[1]].technique

(* A job is skipped only when each of its levels has been tried, over all     *)
(* crashes, resumptions and dates.                                           *)
SkipsOnlyTried ==
  \A j \in Jobs : Complete(j) => {j} \X Cells(j) \subseteq tried

(* A saved level is never lost, unless the file is torn or a lane outlived   *)
(* its script and two bench.py write the same file.                          *)
SavedStays ==
  [][\A f \in Jobs \X Days :
       files[f] # Torn =>
         \/ files'[f] = Torn \/ "orphan" \in slip
         \/ files[f].saved \subseteq files'[f].saved]_vars

(* While no script runs, production is there, unless a script died between   *)
(* stopping and restoring it, a deletion dragged on or an apply failed.      *)
ProductionBack ==
  script.pc = "idle" /\ slip \cap {"died", "orphan", "deletion", "refused"} = {} =>
    \A p \in Production : Exists(p)

(* The node: whoever holds the GPU of spark-02 holds it alone, and           *)
(* production is back when no script runs.                                   *)
Spark02Kept == TypeOK /\ ExclusiveOnSpark02 /\ ProductionBack

(* The files: a level that is saved was measured on the pod of the job it is *)
(* filed under, stays saved, and a job that is skipped was tried in full.    *)
FilesTell == []OwnPod /\ []SkipsOnlyTried /\ SavedStays

=============================================================================
