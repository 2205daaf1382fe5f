--------------------------- MODULE TestMatrixProofs ---------------------------
(***************************************************************************)
(* Spark-02 is kept, and the result files tell the truth, for any jobs,    *)
(* levels, pods, starts and mishaps.                                       *)
(***************************************************************************)
EXTENDS TestMatrix, FiniteSetTheorems, SequenceTheorems, WellFoundedInduction, TLAPS

Makers == Jobs \cup {"production"}
Steps == {"ended", "next", "apply", "ready", "load", "level", "drop"}
AllLevels == UNION {Cells(j) : j \in Jobs}

\* What can be saved of a job: one entry for a level, of its own levels.
SavedOf(j) == {S \in SUBSET (Cells(j) \X Makers) : \A x, y \in S : x[1] = y[1] => x = y}
LevelsIn(S) == {s[1] : s \in S}

LaneRecs == [todo : Seq(Jobs), step : Steps, mem : SUBSET (AllLevels \X Makers), done : Nat,
             left : SUBSET AllLevels]

\* A lane that runs has a job; while bench.py runs, each level of the job has
\* been done or is left, and what is kept of it is not left.
LaneOK(x) ==
  /\ x \in LaneRecs
  /\ x.step # "ended" => x.todo # <<>>
  /\ x.step # "level" => x.left = {}
  /\ x.step = "level" =>
       LET j == Head(x.todo) IN
       /\ x.mem \in SavedOf(j) /\ x.left \subseteq Cells(j) \ LevelsIn(x.mem)
       /\ x.done + Cardinality(x.left) = Cardinality(Cells(j))

\* A pod that exists has been created, by a job or for production.
PodRecs == {Absent} \cup [maker : Makers, terminating : BOOLEAN]
FileRecs(j) == [kind : {"none", "torn", "saved"}, done : Nat, saved : SavedOf(j)]

ScriptOK ==
  /\ script \in [pc : {"idle", "stop", "stopping", "lanes", "sweep"}, phase : Phases,
                 day : [Runs -> Days]]
  /\ today \in Days /\ run \in 0..MaxRuns /\ (script.pc # "idle" => run \in Runs)
LanesOK == lane \in [Lanes -> LaneRecs] /\ \A l \in Lanes : LaneOK(lane[l])
PodsOK == pods \in [Production \cup BenchPods -> PodRecs]
FilesOK == DOMAIN files = Jobs \X Days /\ \A j \in Jobs, d \in Days : files[<<j, d>>] \in FileRecs(j)

Types == ScriptOK /\ LanesOK /\ PodsOK /\ FilesOK

-----------------------------------------------------------------------------
(* Levels, records and pods                                                *)

LEMMA MinIsLeft ==
  ASSUME NEW S \in SUBSET Nat, S # {}
  PROVE  Min(S) \in S
<1>1. PICK n \in S : \A k \in S : ~(<<k, n>> \in OpToRel(<, Nat))
  BY NatLessThanWellFounded, WFMin
<1>2. \A k \in S : n <= k
  <2> SUFFICES ASSUME NEW k \in S, ~(n <= k) PROVE FALSE
    OBVIOUS
  <2>1. k \in Nat /\ n \in Nat /\ k < n
    OBVIOUS
  <2> QED
    BY <2>1, <1>1 DEF OpToRel
<1> QED
  BY <1>2 DEF Min

LEMMA LevelFacts ==
  ASSUME NEW j \in Jobs
  PROVE  /\ Cells(j) \subseteq Nat /\ IsFiniteSet(Cells(j)) /\ Cells(j) \subseteq AllLevels
         /\ Cardinality(Cells(j)) \in Nat /\ {} \in SavedOf(j)
         /\ SavedOf(j) \subseteq SUBSET (AllLevels \X Makers)
<1>1. Cells(j) \subseteq Nat /\ IsFiniteSet(Cells(j))
  BY LevelsAssumption
<1>2. Cells(j) \subseteq AllLevels
  BY DEF AllLevels
<1>3. Cardinality(Cells(j)) \in Nat
  BY <1>1, FS_CardinalityType
<1> QED
  BY <1>1, <1>2, <1>3 DEF SavedOf

\* A resumed file has done what it has saved.
LEMMA ResumedCount ==
  ASSUME NEW j \in Jobs, NEW S \in SavedOf(j)
  PROVE  /\ Cardinality(S) \in Nat
         /\ Cardinality(S) + Cardinality(Cells(j) \ LevelsIn(S)) = Cardinality(Cells(j))
<1> DEFINE D == LevelsIn(S)
           g == [d \in D |-> CHOOSE s \in S : s[1] = d]
<1>1. D \subseteq Cells(j) /\ \A x, y \in S : x[1] = y[1] => x = y
  BY DEF SavedOf, LevelsIn
<1>2. IsFiniteSet(D) /\ Cardinality(D) \in Nat
  BY <1>1, LevelFacts, FS_Subset, FS_CardinalityType
<1>3. \A d \in D : g[d] \in S /\ g[d][1] = d
  BY DEF LevelsIn
<1>4. \A s \in S : s[1] \in D /\ g[s[1]] = s
  BY <1>1, <1>3 DEF LevelsIn
<1>5. g \in Bijection(D, S)
  <2>1. g \in [D -> S]
    BY <1>3
  <2>2. IsInjective(g)
    BY <1>3 DEF IsInjective
  <2>3. \A s \in S : \E d \in D : g[d] = s
    BY <1>4
  <2> HIDE DEF g
  <2> QED
    BY <2>1, <2>2, <2>3 DEF Bijection, Injection, Surjection
<1>6. IsFiniteSet(S) /\ Cardinality(S) = Cardinality(D)
  BY <1>2, <1>5, FS_Bijection DEF ExistsBijection
<1>7. Cardinality(Cells(j) \ D) = Cardinality(Cells(j)) - Cardinality(Cells(j) \cap D)
  BY LevelFacts, FS_Difference
<1>8. Cells(j) \cap D = D
  BY <1>1
<1>9. Cardinality(Cells(j)) \in Nat
  BY LevelFacts
<1>10. Cardinality(Cells(j) \ D) = Cardinality(Cells(j)) - Cardinality(D)
  BY <1>7, <1>8
<1> HIDE DEF D
<1>11. Cardinality(S) + Cardinality(Cells(j) \ D) = Cardinality(Cells(j))
  BY <1>2, <1>6, <1>9, <1>10
<1> QED
  BY <1>2, <1>6, <1>11 DEF D

LEMMA PodRecFacts ==
  /\ Absent \in PodRecs
  /\ \A j \in Jobs : Fresh(j) \in PodRecs
  /\ Fresh("production") \in PodRecs /\ Fresh("production") # Absent
  /\ ~Fresh("production").terminating
  /\ \A x \in PodRecs : /\ [x EXCEPT !.terminating = TRUE] \in PodRecs \/ x = Absent
                        /\ x # Absent => x.maker \in Makers /\ x.terminating \in BOOLEAN
                        /\ x.terminating => x # Absent
<1>2. ~Absent.terminating /\ Absent.maker = "none"
  BY DEF Absent
<1>3. Fresh("production") \in PodRecs /\ ~Fresh("production").terminating
      /\ Fresh("production").maker = "production"
  BY DEF Fresh, PodRecs, Makers
<1>4. \A j \in Jobs : Fresh(j) \in PodRecs
  BY DEF Fresh, PodRecs, Makers
<1>5. ASSUME NEW x \in PodRecs
      PROVE  /\ [x EXCEPT !.terminating = TRUE] \in PodRecs \/ x = Absent
             /\ x # Absent => x.maker \in Makers /\ x.terminating \in BOOLEAN
             /\ x.terminating => x # Absent
  <2>1. CASE x = Absent
    BY <2>1, <1>2
  <2>2. CASE x \in [maker : Makers, terminating : BOOLEAN]
    BY <2>2, <1>2 DEF PodRecs
  <2> QED
    BY <2>1, <2>2 DEF PodRecs
<1> QED
  BY <1>2, <1>3, <1>4, <1>5 DEF PodRecs

\* What a teardown may leave: a pod that is still there is noted.
LEMMA TeardownFacts ==
  ASSUME PodsOK, NEW p \in BenchPods, NEW after \in Teardowns(p)
  PROVE  /\ after \in [Production \cup BenchPods -> PodRecs]
         /\ \A q \in (Production \cup BenchPods) \ {p} : after[q] = pods[q]
         /\ after[p] = Absent \/ "deletion" \in Late(p, after)
<1>1. pods \in [Production \cup BenchPods -> PodRecs]
  BY DEF PodsOK
<1>2. after = [pods EXCEPT ![p] = Absent] \/ after = pods
      \/ (Exists(p) /\ after = [pods EXCEPT ![p].terminating = TRUE])
  BY DEF Teardowns
<1>3. after[p] = Absent \/ "deletion" \in Late(p, after)
  BY DEF Late
<1> QED
  BY <1>1, <1>2, <1>3, PodRecFacts DEF Exists

LEMMA LoadOK ==
  ASSUME NEW jobs \in Seq(Jobs)
  PROVE  LaneOK(Load(jobs)) /\ LaneOK(Idle) /\ Load(jobs).todo = jobs
         /\ Load(jobs).step = IF jobs = <<>> THEN "ended" ELSE "next"
<1>1. Idle \in LaneRecs /\ Idle.step = "ended" /\ Idle.left = {} /\ Idle.todo = <<>>
  BY DEF Idle, LaneRecs, Steps
<1>2. CASE jobs = <<>>
  BY <1>1, <1>2 DEF Load, LaneOK
<1>3. CASE jobs # <<>>
  <2>1. Load(jobs) = [todo |-> jobs, step |-> "next", mem |-> {}, done |-> 0, left |-> {}]
    BY <1>3 DEF Load, Idle
  <2>2. Load(jobs) \in LaneRecs
    BY <2>1 DEF LaneRecs, Steps
  <2> QED
    BY <1>1, <1>3, <2>1, <2>2 DEF LaneOK
<1> QED
  BY <1>2, <1>3

\* Of a lane that runs.
LEMMA LaneFacts ==
  ASSUME Types, NEW l \in Lanes, Alive(l)
  PROVE  /\ lane[l] \in LaneRecs /\ LaneOK(lane[l]) /\ lane[l].todo \in Seq(Jobs)
         /\ Job(l) \in Jobs /\ PodOf(l) \in BenchPods /\ Tail(lane[l].todo) \in Seq(Jobs)
         /\ FileOf(l) \in Jobs \X Days /\ FileOf(l)[1] = Job(l)
         /\ files[FileOf(l)] \in FileRecs(Job(l))
<1>1. lane[l] \in LaneRecs /\ LaneOK(lane[l]) /\ lane[l].todo \in Seq(Jobs) /\ lane[l].todo # <<>>
  BY DEF Types, LanesOK, LaneOK, LaneRecs, Alive
<1>2. Job(l) \in Jobs /\ Tail(lane[l].todo) \in Seq(Jobs)
  BY <1>1, HeadTailProperties DEF Job
<1>3. script.day[l[1]] \in Days
  BY DEF Types, ScriptOK, Lanes
<1>4. FileOf(l) = <<Job(l), script.day[l[1]]>>
  BY DEF FileOf
<1> QED
  BY <1>1, <1>2, <1>3, <1>4 DEF PodOf, BenchPods, Types, FilesOK

LEMMA Updated ==
  ASSUME LanesOK, NEW l \in Lanes, NEW x, LaneOK(x), lane' = [lane EXCEPT ![l] = x]
  PROVE  LanesOK' /\ lane'[l] = x /\ \A m \in Lanes \ {l} : lane'[m] = lane[m]
BY DEF LanesOK, LaneOK

\* A lane that goes to a step other than that of bench.py.
LEMMA Gone ==
  ASSUME Types, NEW l \in Lanes, Alive(l), NEW step \in Steps \ {"ended", "level"},
         lane[l].step # "level", Goto(l, step)
  PROVE  /\ LanesOK' /\ \A m \in Lanes \ {l} : lane'[m] = lane[m]
         /\ lane'[l].step = step /\ lane'[l].todo = lane[l].todo
<1> DEFINE x == [lane[l] EXCEPT !.step = step]
<1>1. lane[l] \in LaneRecs /\ LaneOK(lane[l]) /\ LanesOK
  BY LaneFacts DEF Types
<1>2. x \in LaneRecs /\ x.step = step /\ x.todo = lane[l].todo /\ x.left = lane[l].left
  BY <1>1 DEF LaneRecs
<1>3. LaneOK(x)
  <2> HIDE DEF x
  <2> QED
    BY <1>1, <1>2 DEF LaneOK, Alive
<1>4. lane' = [lane EXCEPT ![l] = x]
  BY DEF Goto
<1> HIDE DEF x
<1> QED
  BY <1>1, <1>2, <1>3, <1>4, Updated

LEMMA Took ==
  ASSUME Types, NEW l \in Lanes, Alive(l), NextJob(l)
  PROVE  /\ LanesOK' /\ \A m \in Lanes \ {l} : lane'[m] = lane[m]
         /\ lane'[l].todo = Tail(lane[l].todo)
         /\ lane'[l].step \in {"ended", "next"}
<1> DEFINE x == Load(Tail(lane[l].todo))
<1>1. Tail(lane[l].todo) \in Seq(Jobs) /\ LanesOK
  BY LaneFacts DEF Types
<1>2. LaneOK(x) /\ x.todo = Tail(lane[l].todo) /\ x.step \in {"ended", "next"}
  BY <1>1, LoadOK
<1>3. lane' = [lane EXCEPT ![l] = x]
  BY DEF NextJob
<1> HIDE DEF x
<1> QED
  BY <1>1, <1>2, <1>3, Updated

LEMMA Died ==
  ASSUME Types, NEW l \in Lanes, NEW kinds, Dies(l, kinds)
  PROVE  /\ LanesOK' /\ \A m \in Lanes \ {l} : lane'[m] = lane[m]
         /\ lane'[l] = Idle
         /\ script' = [script EXCEPT !.pc = "idle"]
<1>1. LaneOK(Idle) /\ LanesOK
  BY LoadOK, EmptySeq DEF Types
<1>2. lane' = [lane EXCEPT ![l] = Idle] /\ script' = [script EXCEPT !.pc = "idle"]
  BY DEF Dies
<1> QED
  BY <1>1, <1>2, Updated

-----------------------------------------------------------------------------
(* The invariant                                                           *)

Holding == {"ready", "load", "level", "drop"}
On02(j) == JobTable[j].node = "spark-02"
Clean(kinds) == slip \cap kinds = {}

\* Only the lanes of the last start run, while their script waits for them.
Current ==
  Clean({"orphan"}) =>
    \A l \in Lanes : Alive(l) => l[1] = run /\ script.pc \in {"lanes", "sweep"}

\* Only the second lane of phase A has jobs for spark-02.
Second ==
  Clean({"orphan", "unstopped"}) =>
    \A l \in Lanes : Alive(l) /\ (\E j \in JobsOf(lane[l].todo) : On02(j)) =>
       l[2] = "b" /\ script.pc = "lanes"

\* A benchmark pod of spark-02 is that of the job a lane is at.
Held ==
  Clean({"deletion", "orphan", "unstopped"}) =>
    \A j \in Jobs : On02(j) /\ Exists(JobTable[j].pod) =>
      \E l \in Lanes : Alive(l) /\ lane[l].step \in Holding /\ PodOf(l) = JobTable[j].pod

\* Production is away while phase A runs, and there before it stops it.
Away ==
  Clean({"deletion"}) /\ script.pc = "lanes" => \A p \in Production : ~Exists(p)
Back ==
  Clean({"died", "orphan", "deletion", "refused"}) /\ script.pc \in {"idle", "sweep", "stop"} =>
    \A p \in Production : Exists(p) /\ ~pods[p].terminating

Safe == Current /\ Second /\ Held /\ Away /\ Back
Inv == Types /\ Safe

LEMMA JobListed ==
  ASSUME Types, NEW l \in Lanes, Alive(l)
  PROVE  /\ Job(l) \in JobsOf(lane[l].todo)
         /\ JobsOf(Tail(lane[l].todo)) \subseteq JobsOf(lane[l].todo)
<1>1. lane[l].todo \in Seq(Jobs) /\ lane[l].todo # <<>>
  BY LaneFacts DEF LaneOK, Alive
<1>2. Job(l) = lane[l].todo[1] /\ 1 \in DOMAIN lane[l].todo
  BY <1>1 DEF Job
<1>3. \A i \in DOMAIN Tail(lane[l].todo) :
         i + 1 \in DOMAIN lane[l].todo /\ Tail(lane[l].todo)[i] = lane[l].todo[i + 1]
  BY <1>1
<1> QED
  BY <1>2, <1>3 DEF JobsOf

\* Whoever is at a job of spark-02 is the second lane of the last start.
LEMMA AtSecond ==
  ASSUME Types, Current, Second, Clean({"orphan", "unstopped"}),
         NEW l \in Lanes, Alive(l), On02(Job(l))
  PROVE  l = <<run, "b">> /\ script.pc = "lanes"
<1>1. l[2] = "b" /\ script.pc = "lanes"
  BY JobListed DEF Second
<1>2. l[1] = run
  BY DEF Current, Clean
<1> QED
  BY <1>1, <1>2 DEF Lanes

LEMMA SamePod ==
  ASSUME Types, NEW l \in Lanes, Alive(l), NEW j \in Jobs, PodOf(l) = JobTable[j].pod
  PROVE  On02(Job(l)) <=> On02(j)
BY LaneFacts, PodsAssumption DEF PodOf, On02

\* A lane that holds no pod finds none on spark-02.
LEMMA NoneHeld ==
  ASSUME Types, Current, Second, Held, Clean({"deletion", "orphan", "unstopped"}),
         NEW l \in Lanes, Alive(l), On02(Job(l)), lane[l].step \notin Holding
  PROVE  ~Exists(PodOf(l))
<1> SUFFICES ASSUME Exists(PodOf(l)) PROVE FALSE
  OBVIOUS
<1>1. Job(l) \in Jobs /\ PodOf(l) = JobTable[Job(l)].pod
  BY LaneFacts DEF PodOf
<1>2. PICK m \in Lanes : Alive(m) /\ lane[m].step \in Holding /\ PodOf(m) = PodOf(l)
  BY <1>1 DEF Held
<1>3. On02(Job(m)) /\ Clean({"orphan", "unstopped"})
  BY <1>1, <1>2, SamePod DEF Clean
<1> QED
  BY <1>2, <1>3, AtSecond

\* The step of a lane that leaves its script as it is.
LEMMA Stepped ==
  ASSUME Inv, NEW l \in Lanes, Alive(l), UNCHANGED <<run, script>>, slip \subseteq slip',
         \A m \in Lanes \ {l} : lane'[m] = lane[m],
         JobsOf(lane'[l].todo) \subseteq JobsOf(lane[l].todo),
         \A q \in (Production \cup BenchPods) \ {PodOf(l)} : pods'[q] = pods[q],
         Clean({"deletion", "orphan", "unstopped"})' /\ On02(Job(l)) /\ pods'[PodOf(l)] # Absent =>
           Alive(l)' /\ lane'[l].step \in Holding /\ lane'[l].todo = lane[l].todo
  PROVE  Safe'
<1>1. \A kinds : Clean(kinds)' => Clean(kinds)
  BY DEF Clean
<1>2. \A m \in Lanes : Alive(m)' => Alive(m)
  BY DEF Alive
<1>3. Types /\ Current /\ Second /\ Held /\ Away /\ Back
  BY DEF Inv, Safe
<1>4. Current'
  BY <1>1, <1>2, <1>3 DEF Current
<1>5. Second'
  BY <1>1, <1>2, <1>3 DEF Second
<1>6. \A q \in Production : pods'[q] = pods[q]
  BY <1>3, LaneFacts, PodsAssumption
<1>7. Away' /\ Back'
  BY <1>1, <1>3, <1>6 DEF Away, Back, Exists
<1>8. Held'
  <2> SUFFICES ASSUME Clean({"deletion", "orphan", "unstopped"})',
                      NEW j \in Jobs, On02(j), pods'[JobTable[j].pod] # Absent
               PROVE  \E m \in Lanes : Alive(m)' /\ lane'[m].step \in Holding /\ PodOf(m)' = JobTable[j].pod
    BY DEF Held, Exists
  <2>1. CASE JobTable[j].pod = PodOf(l)
    <3>1. On02(Job(l))
      BY <1>3, <2>1, SamePod
    <3>2. Alive(l)' /\ lane'[l].step \in Holding /\ lane'[l].todo = lane[l].todo
      BY <2>1, <3>1
    <3> QED
      BY <2>1, <3>2 DEF PodOf, Job
  <2>2. CASE JobTable[j].pod # PodOf(l)
    <3>1. Exists(JobTable[j].pod)
      BY <2>2 DEF Exists, BenchPods
    <3>2. PICK m \in Lanes : Alive(m) /\ lane[m].step \in Holding /\ PodOf(m) = JobTable[j].pod
      BY <1>1, <1>3, <3>1 DEF Held
    <3>3. lane'[m] = lane[m]
      BY <2>2, <3>2
    <3> QED
      BY <3>2, <3>3 DEF Alive, PodOf, Job
  <2> QED
    BY <2>1, <2>2
<1> QED
  BY <1>4, <1>5, <1>7, <1>8 DEF Safe

\* A lane under `set -e` that takes its script with it.
LEMMA Dying ==
  ASSUME Inv, NEW l \in Lanes, Alive(l), Strict(l), NEW kinds, Dies(l, kinds), run' = run,
         \A q \in (Production \cup BenchPods) \ {PodOf(l)} : pods'[q] = pods[q]
  PROVE  Safe'
<1>1. Types /\ Current /\ Second /\ Held /\ Away /\ Back
  BY DEF Inv, Safe
<1>2. /\ l = <<run, "a">> /\ script.pc \in {"lanes", "sweep"} /\ script'.pc = "idle"
      /\ \A m \in Lanes \ {l} : lane'[m] = lane[m]
      /\ ~Alive(l)' /\ slip \subseteq slip'
      /\ Alive(<<run, "b">>) => "orphan" \in slip'
      /\ script.pc = "lanes" => "orphan" \in slip' \/ "died" \in slip'
  <2>1. script' = [script EXCEPT !.pc = "idle"] /\ lane'[l] = Idle
        /\ \A m \in Lanes \ {l} : lane'[m] = lane[m]
    BY <1>1, Died
  <2>2. script'.pc = "idle" /\ Idle.step = "ended"
    BY <1>1, <2>1 DEF Types, ScriptOK, Idle
  <2>3. slip' = slip \cup (kinds \cup (IF Alive(<<run, "b">>) THEN {"orphan"}
                      ELSE IF script.pc = "lanes" THEN {"died"} ELSE {}))
    BY DEF Dies, Note
  <2> QED
    BY <2>1, <2>2, <2>3 DEF Strict, Foreground, Alive
<1>3. \A k : Clean(k)' => Clean(k)
  BY <1>2 DEF Clean
<1>4. ASSUME Clean({"orphan"})' PROVE ~Alive(<<run, "b">>) /\ \A m \in Lanes : ~Alive(m)'
  <2>1. ~Alive(<<run, "b">>)
    BY <1>2, <1>4 DEF Clean
  <2>2. \A m \in Lanes \ {l} : Alive(m)' => m = <<run, "b">>
    BY <1>1, <1>2, <1>3, <1>4 DEF Current, Alive, Lanes
  <2>3. \A m \in Lanes \ {l} : Alive(m)' => Alive(m)
    BY <1>2 DEF Alive
  <2> QED
    BY <1>2, <2>1, <2>2, <2>3
<1>5. Current' /\ Second'
  BY <1>4 DEF Current, Second, Clean
<1>6. Held'
  <2> SUFFICES ASSUME Clean({"deletion", "orphan", "unstopped"})',
                      NEW j \in Jobs, On02(j), pods'[JobTable[j].pod] # Absent
               PROVE  FALSE
    BY DEF Held, Exists
  <2>1. Clean({"deletion", "orphan", "unstopped"}) /\ Clean({"orphan", "unstopped"})
        /\ ~Alive(<<run, "b">>)
    BY <1>3, <1>4 DEF Clean
  <2>2. CASE JobTable[j].pod = PodOf(l)
    <3>1. On02(Job(l))
      BY <1>1, <2>2, SamePod
    <3> QED
      BY <1>1, <1>2, <2>1, <3>1, AtSecond
  <2>3. CASE JobTable[j].pod # PodOf(l)
    <3>1. Exists(JobTable[j].pod)
      BY <2>3 DEF Exists, BenchPods
    <3>2. PICK m \in Lanes : Alive(m) /\ PodOf(m) = JobTable[j].pod
      BY <1>1, <2>1, <3>1 DEF Held
    <3>3. On02(Job(m))
      BY <1>1, <3>2, SamePod
    <3> QED
      BY <1>1, <2>1, <3>2, <3>3, AtSecond
  <2> QED
    BY <2>2, <2>3
<1>7. Away'
  BY <1>2 DEF Away
<1>8. Back'
  <2>1. \A q \in Production : pods'[q] = pods[q]
    BY <1>1, LaneFacts, PodsAssumption
  <2>2. Clean({"died", "orphan", "deletion", "refused"})' => script.pc = "sweep"
    BY <1>2 DEF Clean
  <2> QED
    BY <1>1, <1>3, <2>1, <2>2 DEF Back, Exists
<1> QED
  BY <1>5, <1>6, <1>7, <1>8 DEF Safe

-----------------------------------------------------------------------------
(* The steps of a lane                                                     *)

LEMMA SkipInv ==
  ASSUME Inv, NEW l \in Lanes, Skip(l)
  PROVE  Inv'
<1>1. /\ Types /\ Safe /\ Alive(l) /\ lane[l].step = "next" /\ NextJob(l)
      /\ UNCHANGED <<today, run, script, pods, files, tried, slip>>
  BY DEF Inv, Skip, Alive
<1>2. /\ LanesOK' /\ \A m \in Lanes \ {l} : lane'[m] = lane[m]
      /\ lane'[l].todo = Tail(lane[l].todo)
  BY <1>1, Took
<1>3. Types'
  BY <1>1, <1>2 DEF Types, ScriptOK, PodsOK, FilesOK
<1>4. Clean({"deletion", "orphan", "unstopped"})' /\ On02(Job(l)) => pods'[PodOf(l)] = Absent
  BY <1>1, NoneHeld DEF Safe, Clean, Holding, Exists
<1>5. Safe'
  BY <1>1, <1>2, <1>4, JobListed, Stepped
<1> QED
  BY <1>3, <1>5 DEF Inv

LEMMA ClearInv ==
  ASSUME Inv, NEW l \in Lanes, Clear(l)
  PROVE  Inv'
<1>1. /\ Types /\ Alive(l) /\ lane[l].step = "next" /\ Goto(l, "apply")
      /\ UNCHANGED <<today, run, script, files, tried>>
  BY DEF Inv, Clear, Alive
<1>2. PICK after \in Teardowns(PodOf(l)) : pods' = after /\ Note(Late(PodOf(l), after))
  BY DEF Clear
<1>3. /\ pods' \in [Production \cup BenchPods -> PodRecs]
      /\ \A q \in (Production \cup BenchPods) \ {PodOf(l)} : pods'[q] = pods[q]
      /\ pods'[PodOf(l)] = Absent \/ "deletion" \in slip'
      /\ slip \subseteq slip'
  BY <1>1, <1>2, LaneFacts, TeardownFacts DEF Types, Note
<1>4. /\ LanesOK' /\ \A m \in Lanes \ {l} : lane'[m] = lane[m]
      /\ lane'[l].todo = lane[l].todo
  BY <1>1, Gone DEF Steps
<1>5. Types'
  BY <1>1, <1>3, <1>4 DEF Types, ScriptOK, PodsOK, FilesOK
<1>6. Safe'
  BY <1>1, <1>3, <1>4, Stepped DEF Clean
<1> QED
  BY <1>5, <1>6 DEF Inv

LEMMA DropInv ==
  ASSUME Inv, NEW l \in Lanes, Drop(l)
  PROVE  Inv'
<1>1. /\ Types /\ Alive(l) /\ NextJob(l) /\ UNCHANGED <<today, run, script, files, tried>>
  BY DEF Inv, Drop, Alive
<1>2. PICK after \in Teardowns(PodOf(l)) : pods' = after /\ Note(Late(PodOf(l), after))
  BY DEF Drop
<1>3. /\ pods' \in [Production \cup BenchPods -> PodRecs]
      /\ \A q \in (Production \cup BenchPods) \ {PodOf(l)} : pods'[q] = pods[q]
      /\ pods'[PodOf(l)] = Absent \/ "deletion" \in slip'
      /\ slip \subseteq slip'
  BY <1>1, <1>2, LaneFacts, TeardownFacts DEF Types, Note
<1>4. /\ LanesOK' /\ \A m \in Lanes \ {l} : lane'[m] = lane[m]
      /\ lane'[l].todo = Tail(lane[l].todo)
  BY <1>1, Took
<1>5. Types'
  BY <1>1, <1>3, <1>4 DEF Types, ScriptOK, PodsOK, FilesOK
<1>6. Safe'
  BY <1>1, <1>3, <1>4, JobListed, Stepped DEF Clean
<1> QED
  BY <1>5, <1>6 DEF Inv

LEMMA DiesInv ==
  ASSUME Inv, NEW l \in Lanes, Alive(l), Strict(l), NEW kinds, Dies(l, kinds),
         UNCHANGED <<today, run, files>>, pods' \in [Production \cup BenchPods -> PodRecs],
         \A q \in (Production \cup BenchPods) \ {PodOf(l)} : pods'[q] = pods[q]
  PROVE  Inv'
<1>1. Types
  BY DEF Inv
<1>2. LanesOK' /\ script' = [script EXCEPT !.pc = "idle"]
  BY <1>1, Died
<1>3. ScriptOK'
  BY <1>1, <1>2 DEF Types, ScriptOK
<1>4. Types'
  BY <1>1, <1>2, <1>3 DEF Types, PodsOK, FilesOK
<1> QED
  BY <1>4, Dying DEF Inv

LEMMA ApplyInv ==
  ASSUME Inv, NEW l \in Lanes, Apply(l)
  PROVE  Inv'
<1>1. /\ Types /\ Safe /\ Alive(l) /\ lane[l].step = "apply"
      /\ UNCHANGED <<today, run, files, tried>>
  BY DEF Inv, Apply, Alive
<1>2. Job(l) \in Jobs /\ PodOf(l) \in BenchPods /\ pods \in [Production \cup BenchPods -> PodRecs]
  BY <1>1, LaneFacts DEF Types, PodsOK
<1>3. ASSUME Goto(l, "ready"), UNCHANGED script, slip \subseteq slip',
             pods' \in [Production \cup BenchPods -> PodRecs],
             \A q \in (Production \cup BenchPods) \ {PodOf(l)} : pods'[q] = pods[q]
      PROVE  Inv'
  <2>1. /\ LanesOK' /\ \A m \in Lanes \ {l} : lane'[m] = lane[m]
        /\ lane'[l].todo = lane[l].todo /\ lane'[l].step = "ready"
    BY <1>1, <1>3, Gone DEF Steps
  <2>2. Types'
    BY <1>1, <1>3, <2>1 DEF Types, ScriptOK, PodsOK, FilesOK
  <2>3. Safe'
    BY <1>1, <1>3, <2>1, Stepped DEF Alive, Holding
  <2> QED
    BY <2>2, <2>3 DEF Inv
<1>4. CASE /\ pods' = [pods EXCEPT ![PodOf(l)] = Fresh(Job(l))]
           /\ Goto(l, "ready") /\ UNCHANGED <<script, slip>>
  <2>1. /\ pods' \in [Production \cup BenchPods -> PodRecs]
        /\ \A q \in (Production \cup BenchPods) \ {PodOf(l)} : pods'[q] = pods[q]
    BY <1>2, <1>4, PodRecFacts
  <2> QED
    BY <1>3, <1>4, <2>1
<1>5. CASE Goto(l, "ready") /\ UNCHANGED <<script, slip, pods>>
  BY <1>2, <1>3, <1>5
<1>6. CASE Strict(l) /\ Dies(l, {"apply"}) /\ UNCHANGED pods
  BY <1>1, <1>2, <1>6, DiesInv
<1>7. CASE Goto(l, "ready") /\ Note({"apply"}) /\ UNCHANGED <<script, pods>>
  BY <1>2, <1>3, <1>7 DEF Note
<1> QED
  BY <1>4, <1>5, <1>6, <1>7 DEF Apply

LEMMA ReadyInv ==
  ASSUME Inv, NEW l \in Lanes, PodReady(l)
  PROVE  Inv'
<1>1. /\ Types /\ Alive(l) /\ lane[l].step = "ready" /\ Goto(l, "load")
      /\ UNCHANGED <<today, run, script, pods, files, tried, slip>>
  BY DEF Inv, PodReady, Alive
<1>2. /\ LanesOK' /\ \A m \in Lanes \ {l} : lane'[m] = lane[m]
      /\ lane'[l].todo = lane[l].todo /\ lane'[l].step = "load"
  BY <1>1, Gone DEF Steps
<1>3. Types'
  BY <1>1, <1>2 DEF Types, ScriptOK, PodsOK, FilesOK
<1>4. Safe'
  BY <1>1, <1>2, Stepped DEF Alive, Holding
<1> QED
  BY <1>3, <1>4 DEF Inv

LEMMA NotReadyInv ==
  ASSUME Inv, NEW l \in Lanes, PodNotReady(l)
  PROVE  Inv'
<1>1. /\ Types /\ Alive(l) /\ UNCHANGED <<today, run, files, tried>>
  BY DEF Inv, PodNotReady, Alive
<1>2. PICK after \in Teardowns(PodOf(l)) :
        /\ pods' = after
        /\ IF ContinuesUnready(l)
           THEN NextJob(l) /\ Note(Late(PodOf(l), after) \cup {"unready"}) /\ UNCHANGED script
           ELSE Dies(l, Late(PodOf(l), after) \cup {"unready"})
  BY DEF PodNotReady
<1>3. /\ pods' \in [Production \cup BenchPods -> PodRecs]
      /\ \A q \in (Production \cup BenchPods) \ {PodOf(l)} : pods'[q] = pods[q]
      /\ pods'[PodOf(l)] = Absent \/ "deletion" \in Late(PodOf(l), after)
  BY <1>1, <1>2, LaneFacts, TeardownFacts DEF Types
<1>4. CASE ~ContinuesUnready(l)
  BY <1>1, <1>2, <1>3, <1>4, DiesInv DEF ContinuesUnready
<1>5. CASE ContinuesUnready(l)
  <2>1. NextJob(l) /\ UNCHANGED script /\ slip \subseteq slip'
        /\ (pods'[PodOf(l)] = Absent \/ "deletion" \in slip')
    BY <1>2, <1>3, <1>5 DEF Note
  <2>2. /\ LanesOK' /\ \A m \in Lanes \ {l} : lane'[m] = lane[m]
        /\ lane'[l].todo = Tail(lane[l].todo)
    BY <1>1, <2>1, Took
  <2>3. Types'
    BY <1>1, <1>3, <2>1, <2>2 DEF Types, ScriptOK, PodsOK, FilesOK
  <2>4. Safe'
    BY <1>1, <1>3, <2>1, <2>2, JobListed, Stepped DEF Clean
  <2> QED
    BY <2>3, <2>4 DEF Inv
<1> QED
  BY <1>4, <1>5

\* A step of bench.py: the lane keeps its job and its pod.
LEMMA BenchSafe ==
  ASSUME Inv, NEW l \in Lanes, Alive(l), UNCHANGED <<today, run, script, pods>>,
         slip \subseteq slip', NEW x, LaneOK(x), lane' = [lane EXCEPT ![l] = x],
         x.todo = lane[l].todo, x.step \in Holding, FilesOK'
  PROVE  Inv'
<1>1. Types
  BY DEF Inv
<1>2. LanesOK' /\ lane'[l] = x /\ \A m \in Lanes \ {l} : lane'[m] = lane[m]
  BY <1>1, Updated DEF Types
<1>3. Types'
  BY <1>1, <1>2 DEF Types, ScriptOK, PodsOK
<1>4. Safe'
  BY <1>2, Stepped DEF Alive, Holding
<1> QED
  BY <1>3, <1>4 DEF Inv

LEMMA LoadInv ==
  ASSUME Inv, NEW l \in Lanes, BenchLoad(l)
  PROVE  Inv'
<1> DEFINE saved == files[FileOf(l)].saved
           left == Cells(Job(l)) \ LevelsIn(saved)
           x == [lane[l] EXCEPT !.step = "level", !.mem = saved, !.done = Cardinality(saved),
                                !.left = left]
<1>1. /\ Types /\ Alive(l) /\ UNCHANGED <<today, run, script, pods, files, tried, slip>>
      /\ lane' = [lane EXCEPT ![l] = x]
  BY DEF Inv, BenchLoad, Alive, LevelsIn
<1>2. /\ lane[l] \in LaneRecs /\ LaneOK(lane[l]) /\ Job(l) \in Jobs
      /\ files[FileOf(l)] \in FileRecs(Job(l))
  BY <1>1, LaneFacts
<1>3. saved \in SavedOf(Job(l))
  BY <1>2 DEF FileRecs
<1>4. Cardinality(saved) \in Nat /\ Cardinality(saved) + Cardinality(left) = Cardinality(Cells(Job(l)))
  BY <1>2, <1>3, ResumedCount
<1>5. left \in SUBSET AllLevels /\ saved \in SUBSET (AllLevels \X Makers) /\ left \subseteq Cells(Job(l)) \ LevelsIn(saved)
  BY <1>2, <1>3, LevelFacts
<1> HIDE DEF saved, left
<1>6. /\ x \in LaneRecs /\ x.todo = lane[l].todo /\ x.step = "level" /\ x.mem = saved
      /\ x.done = Cardinality(saved) /\ x.left = left
  BY <1>2, <1>4, <1>5 DEF LaneRecs, Steps
<1> HIDE DEF x
<1>7. LaneOK(x)
  BY <1>1, <1>2, <1>3, <1>4, <1>5, <1>6 DEF LaneOK, Alive, Job
<1>8. FilesOK'
  BY <1>1 DEF Types, FilesOK
<1> QED
  BY <1>1, <1>6, <1>7, <1>8, BenchSafe DEF Holding

LEMMA LevelInv ==
  ASSUME Inv, NEW l \in Lanes, BenchLevel(l)
  PROVE  Inv'
<1> DEFINE c == Min(lane[l].left)
           mem(e) == lane[l].mem \cup e
           x(e) == [lane[l] EXCEPT !.mem = mem(e), !.done = lane[l].done + 1,
                                   !.left = lane[l].left \ {c}]
<1>1. /\ Types /\ Alive(l) /\ lane[l].step = "level" /\ lane[l].left # {}
      /\ UNCHANGED <<today, run, script, pods>>
  BY DEF Inv, BenchLevel, Alive
<1>2. PICK e \in {{}} \cup (IF LevelRuns(l) THEN {{<<c, pods[PodOf(l)].maker>>}} ELSE {}) :
        /\ lane' = [lane EXCEPT ![l] = x(e)]
        /\ files' = [files EXCEPT ![FileOf(l)] = File("saved", lane[l].done + 1, mem(e))]
        /\ Note(IF e = {} THEN {"level"} ELSE {})
  BY DEF BenchLevel
<1>3. /\ lane[l] \in LaneRecs /\ LaneOK(lane[l]) /\ Job(l) \in Jobs /\ PodOf(l) \in BenchPods
      /\ FileOf(l) \in Jobs \X Days /\ FileOf(l)[1] = Job(l) /\ lane[l].todo # <<>>
  BY <1>1, LaneFacts DEF LaneOK
<1>4. /\ lane[l].mem \in SavedOf(Job(l)) /\ lane[l].left \subseteq Cells(Job(l)) \ LevelsIn(lane[l].mem)
      /\ lane[l].done + Cardinality(lane[l].left) = Cardinality(Cells(Job(l)))
      /\ lane[l].done \in Nat
  BY <1>1, <1>3 DEF LaneOK, LaneRecs, Job
<1>5. IsFiniteSet(lane[l].left) /\ Cardinality(lane[l].left) \in Nat /\ c \in lane[l].left
  <2>1. lane[l].left \in SUBSET Cells(Job(l)) /\ lane[l].left \in SUBSET Nat
    BY <1>3, <1>4, LevelFacts
  <2> QED
    BY <1>1, <1>3, <2>1, LevelFacts, FS_Subset, FS_CardinalityType, MinIsLeft
<1> HIDE DEF c
<1>6. lane[l].done + 1 + Cardinality(lane[l].left \ {c}) = Cardinality(Cells(Job(l)))
  <2>1. Cardinality(lane[l].left \ {c}) = Cardinality(lane[l].left) - 1
    BY <1>5, FS_RemoveElement
  <2>2. Cardinality(Cells(Job(l))) \in Nat
    BY <1>3, LevelFacts
  <2> QED
    BY <1>4, <1>5, <2>1, <2>2
<1>7. mem(e) \in SavedOf(Job(l)) /\ LevelsIn(mem(e)) \subseteq LevelsIn(lane[l].mem) \cup {c}
  <2>1. CASE e = {}
    BY <2>1, <1>4
  <2>2. CASE LevelRuns(l) /\ e = {<<c, pods[PodOf(l)].maker>>}
    <3>1. pods[PodOf(l)].maker \in Makers
      BY <1>1, <1>3, <2>2, PodRecFacts DEF LevelRuns, Exists, Types, PodsOK
    <3>2. c \in Cells(Job(l)) /\ \A y \in lane[l].mem : y[1] # c
      BY <1>4, <1>5 DEF LevelsIn
    <3> DEFINE s == <<c, pods[PodOf(l)].maker>>
    <3>3. s \in Cells(Job(l)) \X Makers /\ s[1] = c /\ mem(e) = lane[l].mem \cup {s}
      BY <2>2, <3>1, <3>2
    <3> HIDE DEF s, mem
    <3> QED
      BY <3>2, <3>3, <1>4 DEF SavedOf, LevelsIn
  <2> QED
    BY <1>2, <2>1, <2>2
<1> HIDE DEF mem
<1>8. /\ x(e) \in LaneRecs /\ x(e).todo = lane[l].todo /\ x(e).step = "level"
      /\ x(e).mem = mem(e) /\ x(e).done = lane[l].done + 1 /\ x(e).left = lane[l].left \ {c}
  <2>1. mem(e) \in SUBSET (AllLevels \X Makers) /\ lane[l].left \ {c} \in SUBSET AllLevels
    BY <1>3, <1>7, LevelFacts DEF LaneRecs
  <2>2. lane[l].done + 1 \in Nat
    BY <1>4
  <2> QED
    BY <1>1, <1>3, <2>1, <2>2 DEF LaneRecs
<1> DEFINE new == x(e)
<1>9. /\ new \in LaneRecs /\ new.todo = lane[l].todo /\ new.step = "level"
      /\ new.mem = mem(e) /\ new.done = lane[l].done + 1 /\ new.left = lane[l].left \ {c}
      /\ lane' = [lane EXCEPT ![l] = new]
  BY <1>2, <1>8
<1> HIDE DEF new, x
<1>10. LaneOK(new)
  <2>1. new.left \subseteq Cells(Job(l)) \ LevelsIn(new.mem)
    BY <1>4, <1>7, <1>9
  <2> QED
    BY <1>3, <1>6, <1>7, <1>9, <2>1 DEF LaneOK, Job
<1>11. FilesOK'
  <2>1. File("saved", lane[l].done + 1, mem(e)) \in FileRecs(Job(l))
    <3>1. lane[l].done + 1 \in Nat
      BY <1>4
    <3> QED
      BY <1>7, <3>1 DEF File, FileRecs
  <2> HIDE DEF FileRecs
  <2>2. \A j \in Jobs, d \in Days : files'[<<j, d>>] \in FileRecs(j)
    <3> TAKE j \in Jobs, d \in Days
    <3>1. <<j, d>> \in DOMAIN files /\ files[<<j, d>>] \in FileRecs(j)
      BY <1>1 DEF Types, FilesOK
    <3>2. CASE <<j, d>> = FileOf(l)
      <4>1. j = Job(l)
        BY <1>3, <3>2
      <4> QED
        BY <1>2, <2>1, <3>1, <3>2, <4>1
    <3>3. CASE <<j, d>> # FileOf(l)
      BY <1>2, <3>1, <3>3
    <3> QED
      BY <3>2, <3>3
  <2> QED
    BY <1>1, <1>2, <2>2 DEF Types, FilesOK
<1>12. slip \subseteq slip'
  BY <1>2 DEF Note
<1> QED
  BY <1>1, <1>9, <1>10, <1>11, <1>12, BenchSafe DEF Holding

LEMMA RaisesInv ==
  ASSUME Inv, NEW l \in Lanes, BenchRaises(l)
  PROVE  Inv'
<1>1. /\ Types /\ LaneOK(lane[l]) /\ lane[l] \in LaneRecs
      /\ UNCHANGED <<today, run, pods, files, tried>>
  BY DEF Inv, BenchRaises, Types, LanesOK
<1>2. lane[l].step \in {"load", "level"} /\ Alive(l)
  BY <1>1 DEF BenchRaises, LaneOK, Alive
<1>3. CASE Strict(l)
  BY <1>1, <1>2, <1>3, DiesInv DEF BenchRaises, Types, PodsOK
<1>4. CASE ~Strict(l)
  <2> DEFINE x == [lane[l] EXCEPT !.step = "drop", !.left = {}]
  <2>1. lane' = [lane EXCEPT ![l] = x] /\ slip \subseteq slip' /\ UNCHANGED script
    BY <1>4 DEF BenchRaises, Note
  <2>2. x \in LaneRecs /\ x.todo = lane[l].todo /\ x.step = "drop" /\ x.left = {}
    BY <1>1 DEF LaneRecs, Steps
  <2> HIDE DEF x
  <2>3. LaneOK(x)
    BY <1>1, <1>2, <2>2 DEF LaneOK
  <2>4. FilesOK'
    BY <1>1 DEF Types, FilesOK
  <2> QED
    BY <1>1, <1>2, <2>1, <2>2, <2>3, <2>4, BenchSafe DEF Holding
<1> QED
  BY <1>3, <1>4

-----------------------------------------------------------------------------
(* The steps of the script                                                 *)

\* While a script has no lanes, none runs, and spark-02 has no benchmark pod.
LEMMA Quiet ==
  ASSUME Types, Current, Held, Clean({"orphan"}),
         \/ script.pc \notin {"lanes", "sweep"}
         \/ ~Alive(<<run, "a">>) /\ ~Alive(<<run, "b">>)
  PROVE  /\ \A l \in Lanes : ~Alive(l)
         /\ Clean({"deletion", "orphan", "unstopped"}) =>
              \A j \in Jobs : On02(j) => ~Exists(JobTable[j].pod)
<1>1. ASSUME NEW l \in Lanes PROVE ~Alive(l)
  <2>1. l = <<l[1], "a">> \/ l = <<l[1], "b">>
    BY DEF Lanes
  <2>2. Alive(l) => l[1] = run /\ script.pc \in {"lanes", "sweep"}
    BY DEF Current
  <2> QED
    BY <2>1, <2>2
<1> QED
  BY <1>1 DEF Held

\* A step after which no lane runs and spark-02 has no benchmark pod.
LEMMA Settled ==
  ASSUME Clean({"orphan"})' => \A l \in Lanes : ~Alive(l)',
         Clean({"deletion", "orphan", "unstopped"})' =>
           \A j \in Jobs : On02(j) => ~Exists(JobTable[j].pod)'
  PROVE  Current' /\ Second' /\ Held'
<1>1. Clean({"orphan", "unstopped"})' => Clean({"orphan"})'
  BY DEF Clean
<1> QED
  BY <1>1 DEF Current, Second, Held

\* The lanes of one start.
LEMMA Opened ==
  ASSUME LanesOK, NEW r \in Runs, NEW a \in Seq(Jobs), NEW b \in Seq(Jobs),
         lane' = [lane EXCEPT ![<<r, "a">>] = Load(a), ![<<r, "b">>] = Load(b)]
  PROVE  /\ LanesOK'
         /\ \A l \in Lanes : l[1] # r => lane'[l] = lane[l]
         /\ lane'[<<r, "a">>].todo = a /\ lane'[<<r, "b">>].todo = b
<1> DEFINE x == Load(a)
           y == Load(b)
<1>1. LaneOK(x) /\ LaneOK(y) /\ x.todo = a /\ y.todo = b
  BY LoadOK
<1>2. lane' = [lane EXCEPT ![<<r, "a">>] = x, ![<<r, "b">>] = y]
  OBVIOUS
<1> HIDE DEF x, y
<1>3. <<r, "a">> \in Lanes /\ <<r, "b">> \in Lanes /\ <<r, "a">> # <<r, "b">>
  BY DEF Lanes
<1>4. lane'[<<r, "a">>] = x /\ lane'[<<r, "b">>] = y
      /\ \A l \in Lanes \ {<<r, "a">>, <<r, "b">>} : lane'[l] = lane[l]
  BY <1>2, <1>3 DEF LanesOK
<1>5. LanesOK'
  BY <1>1, <1>2, <1>3, <1>4 DEF LanesOK, LaneOK
<1>6. <<r, "a">>[1] = r /\ <<r, "b">>[1] = r
  OBVIOUS
<1>7. \A l \in Lanes : l[1] # r => l \notin {<<r, "a">>, <<r, "b">>}
  BY <1>6
<1> QED
  BY <1>1, <1>4, <1>5, <1>7

LEMMA StartInv ==
  ASSUME Inv, NEW phase \in Phases, NEW n \in Nodes, Start(phase, n)
  PROVE  Inv'
<1>1. /\ Types /\ Current /\ Second /\ Held /\ Away /\ Back
      /\ script.pc = "idle" /\ run < MaxRuns /\ run' = run + 1
      /\ UNCHANGED <<today, pods, files, tried>>
      /\ script' = [pc |-> IF phase = "A" THEN "stop" ELSE "sweep",
                    phase |-> phase, day |-> [script.day EXCEPT ![run'] = today]]
  BY DEF Inv, Safe, Start
<1>2. run' \in Runs /\ run' # run
  BY <1>1, BoundsAssumption DEF Types, ScriptOK, Runs
<1>3. ScriptOK' /\ script'.pc = (IF phase = "A" THEN "stop" ELSE "sweep")
  <2>1. [script.day EXCEPT ![run'] = today] \in [Runs -> Days]
    BY <1>1 DEF Types, ScriptOK
  <2> QED
    BY <1>1, <1>2, <2>1 DEF ScriptOK, Runs
<1>4. slip \subseteq slip'
  BY DEF Start, Note
<1>5. \A kinds : Clean(kinds)' => Clean(kinds)
  BY <1>4 DEF Clean
<1>6. Clean({"orphan"}) => \A l \in Lanes : ~Alive(l)
  BY <1>1, Quiet
<1>7. Held'
  <2>1. Clean({"deletion", "orphan", "unstopped"}) => Clean({"orphan"})
    BY DEF Clean
  <2>2. Clean({"deletion", "orphan", "unstopped"})' =>
          \A j \in Jobs : On02(j) => ~Exists(JobTable[j].pod)
    BY <1>1, <1>5, <2>1, Quiet
  <2> QED
    BY <1>1, <2>2 DEF Held, Exists
<1>8. Away' /\ Back'
  BY <1>1, <1>3, <1>5 DEF Away, Back, Exists
<1>9. CASE phase = "A"
  <2>1. UNCHANGED lane
    BY <1>9 DEF Start
  <2>2. LanesOK' /\ PodsOK' /\ FilesOK'
    BY <1>1, <2>1 DEF Types, LanesOK, LaneOK, PodsOK, FilesOK
  <2>3. Clean({"orphan"})' => \A l \in Lanes : ~Alive(l)'
    BY <1>5, <1>6, <2>1 DEF Alive
  <2>4. Clean({"orphan", "unstopped"})' => Clean({"orphan"})'
    BY DEF Clean
  <2>5. Current' /\ Second'
    BY <2>3, <2>4 DEF Current, Second
  <2> QED
    BY <1>3, <1>7, <1>8, <2>2, <2>5 DEF Inv, Types, Safe
<1>10. CASE phase # "A"
  <2>1. PICK a, b \in Seq(Jobs) :
          /\ StartLanes(a, b)
          /\ "unstopped" \notin slip' => \A j \in JobsOf(a) \cup JobsOf(b) : ~On02(j)
    <3>1. CASE phase \in {"B", "D"}
      <4>1. StartLanes(Sweeps(phase, n), <<>>) /\ Note(Unstopped(Sweeps(phase, n)))
        BY <3>1 DEF Start
      <4>2. Sweeps(phase, n) \in Seq(Jobs) /\ <<>> \in Seq(Jobs) /\ JobsOf(<<>>) = {}
        BY LanesAssumption, EmptySeq DEF Sweeps, JobsOf
      <4>3. "unstopped" \notin slip' => \A j \in JobsOf(Sweeps(phase, n)) : ~On02(j)
        BY <4>1 DEF Note, Unstopped, On02
      <4> QED
        BY <4>1, <4>2, <4>3
    <3>2. CASE phase = "R"
      <4>1. StartLanes(<<Remaining[1]>>, <<Remaining[2]>>)
        BY <3>2 DEF Start, RemainingLanes
      <4>2. Remaining[1] \in Jobs /\ Remaining[2] \in Jobs
            /\ ~On02(Remaining[1]) /\ ~On02(Remaining[2])
        BY LanesAssumption DEF On02
      <4>3. \A j \in Jobs : <<j>> \in Seq(Jobs) /\ JobsOf(<<j>>) = {j}
        BY DEF JobsOf
      <4>4. \A j \in JobsOf(<<Remaining[1]>>) \cup JobsOf(<<Remaining[2]>>) : ~On02(j)
        BY <4>2, <4>3
      <4>5. <<Remaining[1]>> \in Seq(Jobs) /\ <<Remaining[2]>> \in Seq(Jobs)
        BY <4>2, <4>3
      <4> QED
        BY <4>1, <4>4, <4>5
    <3> QED
      BY <1>10, <3>1, <3>2 DEF Phases
  <2>2. PICK r \in Runs : r = run'
    BY <1>2
  <2>3. LanesOK /\ lane' = [lane EXCEPT ![<<r, "a">>] = Load(a), ![<<r, "b">>] = Load(b)]
    BY <1>1, <2>1, <2>2 DEF Types, StartLanes
  <2>4. LanesOK' /\ (\A l \in Lanes : l[1] # r => lane'[l] = lane[l])
        /\ lane'[<<r, "a">>].todo = a /\ lane'[<<r, "b">>].todo = b
    BY <2>3, Opened
  <2>5. PodsOK' /\ FilesOK'
    BY <1>1 DEF Types, PodsOK, FilesOK
  <2>6. Current'
    BY <1>3, <1>5, <1>6, <1>10, <2>4, <2>2 DEF Current, Alive
  <2>7. Second'
    <3> SUFFICES ASSUME Clean({"orphan", "unstopped"})', NEW l \in Lanes, Alive(l)',
                        NEW j \in JobsOf(lane'[l].todo), On02(j)
                 PROVE  FALSE
      BY DEF Second
    <3>1. Clean({"orphan"}) /\ "unstopped" \notin slip'
      BY <1>4 DEF Clean
    <3>2. l[1] = r
      BY <1>6, <2>4, <3>1 DEF Alive
    <3>3. l = <<r, "a">> \/ l = <<r, "b">>
      BY <3>2 DEF Lanes
    <3> QED
      BY <2>1, <2>4, <3>1, <3>3
  <2> QED
    BY <1>3, <1>7, <1>8, <2>4, <2>5, <2>6, <2>7 DEF Inv, Types, Safe
<1> QED
  BY <1>9, <1>10

LEMMA StopInv ==
  ASSUME Inv, StopProduction
  PROVE  Inv'
<1>1. /\ Types /\ Current /\ Second /\ Held /\ script.pc = "stop"
      /\ script' = [script EXCEPT !.pc = "stopping"]
      /\ UNCHANGED <<today, run, lane, files, tried>>
  BY DEF Inv, Safe, StopProduction
<1>2. PICK refused \in SUBSET Production :
        /\ pods' = [p \in DOMAIN pods |-> IF p \in Production \ refused
                                          THEN [pods[p] EXCEPT !.terminating = Exists(p)] ELSE pods[p]]
        /\ slip \subseteq slip'
  BY DEF StopProduction, Note
<1>3. pods \in [Production \cup BenchPods -> PodRecs]
  BY <1>1 DEF Types, PodsOK
<1>4. ASSUME NEW p \in Production \cup BenchPods
      PROVE  [pods[p] EXCEPT !.terminating = Exists(p)] \in PodRecs
  <2>1. CASE pods[p] = Absent
    <3>1. Exists(p) = FALSE
      BY <2>1 DEF Exists
    <3>2. [Absent EXCEPT !.terminating = FALSE] = Absent
      <4>1. Absent \in [maker : {"none"}, terminating : BOOLEAN] /\ Absent.terminating = FALSE
        BY DEF Absent
      <4> QED
        BY <4>1
    <3> QED
      BY <2>1, <3>1, <3>2 DEF PodRecs
  <2>2. CASE pods[p] # Absent
    <3>1. Exists(p) = TRUE
      BY <2>2 DEF Exists
    <3> QED
      BY <1>3, <2>2, <3>1, PodRecFacts
  <2> QED
    BY <2>1, <2>2
<1>5. PodsOK'
  BY <1>2, <1>3, <1>4 DEF PodsOK
<1>6. \A j \in Jobs : pods'[JobTable[j].pod] = pods[JobTable[j].pod]
  BY <1>2, <1>3, PodsAssumption DEF BenchPods
<1>7. script'.pc = "stopping" /\ ScriptOK' /\ LanesOK' /\ FilesOK'
  BY <1>1 DEF Types, ScriptOK, LanesOK, LaneOK, FilesOK
<1>8. \A kinds : Clean(kinds)' => Clean(kinds)
  BY <1>2 DEF Clean
<1>9. Clean({"deletion", "orphan", "unstopped"}) => Clean({"orphan"})
  BY DEF Clean
<1>10. Current' /\ Second' /\ Held'
  BY <1>1, <1>6, <1>8, <1>9, Quiet, Settled DEF Alive, Exists
<1> QED
  BY <1>5, <1>7, <1>10 DEF Inv, Types, Safe, Away, Back

LEMMA PhaseAInv ==
  ASSUME Inv, StartPhaseA
  PROVE  Inv'
<1>1. /\ Types /\ Current /\ Second /\ Held /\ script.pc = "stopping"
      /\ script' = [script EXCEPT !.pc = "lanes"] /\ run \in Runs
      /\ UNCHANGED <<today, run, pods, files, tried>>
      /\ lane' = [lane EXCEPT ![<<run, "a">>] = Load(FirstLane), ![<<run, "b">>] = Load(SecondLane)]
  BY DEF Inv, Safe, StartPhaseA, Types, ScriptOK
<1>2. slip \subseteq slip' /\ ("deletion" \notin slip' => \A p \in Production : ~Exists(p))
  BY DEF StartPhaseA, Note
<1>3. \A kinds : Clean(kinds)' => Clean(kinds)
  BY <1>2 DEF Clean
<1>4. FirstLane \in Seq(Jobs) /\ SecondLane \in Seq(Jobs) /\ \A j \in JobsOf(FirstLane) : ~On02(j)
  BY LanesAssumption DEF On02
<1>5. LanesOK' /\ (\A l \in Lanes : l[1] # run => lane'[l] = lane[l])
      /\ lane'[<<run, "a">>].todo = FirstLane
  BY <1>1, <1>4, Opened DEF Types
<1>6. script'.pc = "lanes" /\ ScriptOK' /\ PodsOK' /\ FilesOK'
  BY <1>1 DEF Types, ScriptOK, PodsOK, FilesOK
<1>7. /\ Clean({"deletion", "orphan", "unstopped"}) => Clean({"orphan"})
      /\ Clean({"orphan", "unstopped"}) => Clean({"orphan"})
  BY DEF Clean
<1>8. Clean({"orphan"}) => \A l \in Lanes : ~Alive(l)
  BY <1>1, Quiet
<1>9. Current'
  BY <1>1, <1>3, <1>5, <1>6, <1>8 DEF Current, Alive
<1>10. Second'
  <2> SUFFICES ASSUME Clean({"orphan", "unstopped"})', NEW l \in Lanes, Alive(l)',
                      NEW j \in JobsOf(lane'[l].todo), On02(j)
               PROVE  l[2] = "b"
    BY <1>6 DEF Second
  <2>1. l[1] = run
    BY <1>3, <1>5, <1>7, <1>8 DEF Alive
  <2>2. l = <<run, "a">> \/ l[2] = "b"
    BY <2>1 DEF Lanes
  <2> QED
    BY <1>4, <1>5, <2>2
<1>11. Held'
  <2>1. Clean({"deletion", "orphan", "unstopped"})' =>
          \A j \in Jobs : On02(j) => ~Exists(JobTable[j].pod)
    BY <1>1, <1>3, <1>7, Quiet
  <2> QED
    BY <1>1, <2>1 DEF Held, Exists
<1>12. Away' /\ Back'
  BY <1>1, <1>2, <1>6 DEF Away, Back, Clean, Exists
<1> QED
  BY <1>5, <1>6, <1>9, <1>10, <1>11, <1>12 DEF Inv, Types, Safe

LEMMA RestoreInv ==
  ASSUME Inv, Restore
  PROVE  Inv'
<1>1. /\ Types /\ Current /\ Second /\ Held /\ Away /\ script.pc = "lanes"
      /\ ~Alive(<<run, "a">>) /\ ~Alive(<<run, "b">>)
      /\ script' = [script EXCEPT !.pc = "idle"]
      /\ UNCHANGED <<today, run, lane, files, tried>>
  BY DEF Inv, Safe, Restore, Joined
<1>2. PICK refused \in SUBSET Production :
        /\ pods' = [p \in DOMAIN pods |-> IF p \in Production \ refused /\ ~Exists(p)
                                          THEN Fresh("production") ELSE pods[p]]
        /\ slip' = slip \cup (IF refused = {} THEN {} ELSE {"refused"})
  BY DEF Restore, Note
<1>3. pods \in [Production \cup BenchPods -> PodRecs]
  BY <1>1 DEF Types, PodsOK
<1>4. PodsOK'
  BY <1>2, <1>3, PodRecFacts DEF PodsOK
<1>5. \A j \in Jobs : pods'[JobTable[j].pod] = pods[JobTable[j].pod]
  BY <1>2, <1>3, PodsAssumption DEF BenchPods
<1>6. script'.pc = "idle" /\ ScriptOK' /\ LanesOK' /\ FilesOK'
  BY <1>1 DEF Types, ScriptOK, LanesOK, LaneOK, FilesOK
<1>7. \A kinds : Clean(kinds)' => Clean(kinds)
  BY <1>2 DEF Clean
<1>8. /\ Clean({"deletion", "orphan", "unstopped"}) => Clean({"orphan"})
      /\ Clean({"died", "orphan", "deletion", "refused"})' => Clean({"deletion"})' /\ "refused" \notin slip'
  BY DEF Clean
<1>9. Current' /\ Second' /\ Held'
  BY <1>1, <1>5, <1>7, <1>8, Quiet, Settled DEF Alive, Exists
<1>10. Back'
  <2> SUFFICES ASSUME Clean({"deletion"})', "refused" \notin slip', NEW p \in Production
               PROVE  pods'[p] = Fresh("production")
    BY <1>8, PodRecFacts DEF Back, Exists
  <2>1. ~Exists(p) /\ refused = {}
    BY <1>1, <1>2, <1>7 DEF Away
  <2> QED
    BY <1>2, <1>3, <2>1
<1> QED
  BY <1>4, <1>6, <1>9, <1>10 DEF Inv, Types, Safe, Away

LEMMA SweepsEndInv ==
  ASSUME Inv, SweepsEnd
  PROVE  Inv'
<1>1. /\ Types /\ Current /\ Second /\ Held /\ Back /\ script.pc = "sweep"
      /\ ~Alive(<<run, "a">>) /\ ~Alive(<<run, "b">>)
      /\ script' = [script EXCEPT !.pc = "idle"]
      /\ UNCHANGED <<today, run, lane, pods, files, tried, slip>>
  BY DEF Inv, Safe, SweepsEnd
<1>2. script'.pc = "idle" /\ Types'
  BY <1>1 DEF Types, ScriptOK, LanesOK, LaneOK, FilesOK, PodsOK
<1>3. Clean({"deletion", "orphan", "unstopped"}) => Clean({"orphan"})
  BY DEF Clean
<1>4. Current' /\ Second' /\ Held'
  BY <1>1, <1>3, Quiet, Settled DEF Alive, Exists, Clean
<1>5. Away' /\ Back'
  BY <1>1, <1>2 DEF Away, Back, Clean, Exists
<1> QED
  BY <1>2, <1>4, <1>5 DEF Inv, Safe

LEMMA InterruptInv ==
  ASSUME Inv, Interrupt
  PROVE  Inv'
<1> DEFINE a == <<run, "a">>
           b == <<run, "b">>
<1>1. /\ Types /\ Current /\ Second /\ Held /\ Back /\ script.pc # "idle"
      /\ script' = [script EXCEPT !.pc = "idle"]
      /\ lane' = IF Foreground(a) THEN [lane EXCEPT ![a] = Idle] ELSE lane
      /\ UNCHANGED <<today, run, pods, tried>>
  BY DEF Inv, Safe, Interrupt
<1>2. a \in Lanes /\ b \in Lanes /\ a # b
  BY <1>1 DEF Types, ScriptOK, Lanes
<1>3. slip' = slip \cup (IF Alive(b) \/ (script.phase = "R" /\ Alive(a)) THEN {"orphan"}
                         ELSE IF script.pc # "sweep" THEN {"died"} ELSE {})
  BY DEF Interrupt, Note
<1>4. \A kinds : Clean(kinds)' => Clean(kinds)
  BY <1>3 DEF Clean
<1>5. LanesOK' /\ (\A l \in Lanes \ {a} : lane'[l] = lane[l])
      /\ lane'[a] = IF Foreground(a) THEN Idle ELSE lane[a]
  <2>1. CASE Foreground(a)
    <3>1. LaneOK(Idle) /\ LanesOK
      BY <1>1, LoadOK, EmptySeq DEF Types
    <3> QED
      BY <1>1, <1>2, <2>1, <3>1, Updated
  <2>2. CASE ~Foreground(a)
    BY <1>1, <2>2 DEF Types, LanesOK, LaneOK
  <2> QED
    BY <2>1, <2>2
<1>6. FilesOK'
  <2>1. CASE UNCHANGED files
    BY <1>1, <2>1 DEF Types, FilesOK
  <2>2. CASE Alive(a) /\ files' = [files EXCEPT ![FileOf(a)] = Torn]
    <3>1. \A j \in Jobs : Torn \in FileRecs(j)
      BY LevelFacts DEF Torn, File, FileRecs
    <3> QED
      BY <1>1, <1>2, <2>2, <3>1, LaneFacts DEF Types, FilesOK
  <2> QED
    BY <2>1, <2>2 DEF Interrupt, Alive
<1>7. Types' /\ script'.pc = "idle"
  BY <1>1, <1>5, <1>6 DEF Types, ScriptOK, PodsOK
<1>8. ASSUME Clean({"orphan"})' PROVE ~Alive(b) /\ \A l \in Lanes : ~Alive(l)'
  <2>1. ~Alive(b) /\ (Alive(a) => script.phase # "R")
    BY <1>3, <1>8 DEF Clean
  <2>2. Alive(a) => Foreground(a)
    BY <1>1, <1>2, <1>4, <1>8, <2>1 DEF Current, Foreground
  <2>3. ~Alive(a)' /\ ~Alive(b)'
    BY <1>1, <1>2, <1>5, <2>1, <2>2 DEF Alive, Idle
  <2>4. \A l \in Lanes \ {a, b} : ~Alive(l)'
    BY <1>1, <1>4, <1>5, <1>8 DEF Current, Alive, Lanes
  <2> QED
    BY <1>1, <2>1, <2>3, <2>4
<1>9. ASSUME Clean({"deletion", "orphan", "unstopped"})', NEW j \in Jobs, On02(j)
      PROVE  ~Exists(JobTable[j].pod)
  <2> SUFFICES ASSUME Exists(JobTable[j].pod) PROVE FALSE
    OBVIOUS
  <2>1. Clean({"orphan"})' /\ Clean({"orphan", "unstopped"})'
    BY <1>9 DEF Clean
  <2>2. PICK l \in Lanes : Alive(l) /\ PodOf(l) = JobTable[j].pod
    BY <1>1, <1>4, <1>9 DEF Held
  <2>3. On02(Job(l))
    BY <1>1, <1>9, <2>2, SamePod
  <2>4. l = b
    BY <1>1, <1>4, <2>1, <2>2, <2>3, AtSecond
  <2> QED
    BY <1>8, <2>1, <2>2, <2>4
<1>10. Current' /\ Second' /\ Held'
  BY <1>1, <1>8, <1>9, Settled DEF Exists
<1>11. Clean({"died", "orphan", "deletion", "refused"})' => script.pc = "sweep"
  BY <1>3 DEF Clean
<1>12. Away' /\ Back'
  BY <1>1, <1>4, <1>7, <1>11 DEF Away, Back, Exists
<1> QED
  BY <1>7, <1>10, <1>12 DEF Inv, Safe

-----------------------------------------------------------------------------
(* The cluster, the calendar, and the theorem                              *)

LEMMA GoesInv ==
  ASSUME Inv, NEW p \in Production \cup BenchPods, PodGoes(p)
  PROVE  Inv'
<1>1. /\ Types /\ Current /\ Second /\ Held /\ Away /\ Back /\ pods[p].terminating
      /\ pods' = [pods EXCEPT ![p] = Absent]
      /\ UNCHANGED <<today, run, script, lane, files, tried, slip>>
  BY DEF Inv, Safe, PodGoes
<1>2. pods \in [Production \cup BenchPods -> PodRecs]
  BY <1>1 DEF Types, PodsOK
<1>3. PodsOK' /\ \A q \in Production \cup BenchPods :
                   pods'[q] = IF q = p THEN Absent ELSE pods[q]
  BY <1>1, <1>2, PodRecFacts DEF PodsOK
<1>4. Types'
  BY <1>1, <1>3 DEF Types, ScriptOK, LanesOK, LaneOK, FilesOK
<1>5. Current' /\ Second'
  BY <1>1 DEF Current, Second, Clean, Alive
<1>6. Held'
  <2>1. \A j \in Jobs : Exists(JobTable[j].pod)' => Exists(JobTable[j].pod)
    BY <1>3 DEF Exists, BenchPods
  <2> QED
    BY <1>1, <2>1 DEF Held, Clean, Alive, PodOf, Job
<1>7. Away'
  BY <1>1, <1>3 DEF Away, Clean, Exists
<1>8. Back'
  BY <1>1, <1>3 DEF Back, Clean, Exists
<1> QED
  BY <1>4, <1>5, <1>6, <1>7, <1>8 DEF Inv, Safe

LEMMA StillInv ==
  ASSUME Inv, UNCHANGED <<run, script, lane, pods, files, slip>>, today' \in Days
  PROVE  Inv'
<1>1. Types'
  BY DEF Inv, Types, ScriptOK, LanesOK, LaneOK, PodsOK, FilesOK
<1>2. Current' /\ Second' /\ Held'
  BY DEF Inv, Safe, Current, Second, Held, Clean, Alive, Exists, PodOf, Job
<1>3. Away' /\ Back'
  BY DEF Inv, Safe, Away, Back, Clean, Exists
<1> QED
  BY <1>1, <1>2, <1>3 DEF Inv, Safe

LEMMA InitInv == Init => Inv
<1> SUFFICES ASSUME Init PROVE Inv
  OBVIOUS
<1>1. LaneOK(Idle) /\ Idle.step = "ended"
  BY LoadOK, EmptySeq DEF Idle
<1>2. LanesOK /\ \A l \in Lanes : ~Alive(l)
  BY <1>1 DEF Init, LanesOK, LaneOK, Alive
<1>3. 1 \in Days /\ 0 \in 0..MaxRuns
  BY BoundsAssumption DEF Days
<1>4. ScriptOK
  BY <1>3 DEF Init, ScriptOK, Phases
<1>5. PodsOK /\ (\A p \in Production : pods[p] = Fresh("production"))
      /\ \A j \in Jobs : ~Exists(JobTable[j].pod)
  <2>1. pods = [p \in Production \cup BenchPods |->
                  IF p \in Production THEN Fresh("production") ELSE Absent]
    BY DEF Init
  <2> QED
    BY <2>1, PodRecFacts, PodsAssumption DEF PodsOK, BenchPods, Exists
<1>6. FilesOK
  <2>1. \A j \in Jobs : None \in FileRecs(j)
    BY LevelFacts DEF None, File, FileRecs
  <2> QED
    BY <2>1 DEF Init, FilesOK
<1>7. Current /\ Second /\ Held
  BY <1>2, <1>5 DEF Current, Second, Held
<1>8. Away /\ Back
  BY <1>5, PodRecFacts DEF Init, Away, Back, Exists
<1> QED
  BY <1>2, <1>4, <1>5, <1>6, <1>7, <1>8 DEF Inv, Types, Safe

LEMMA NextInv == Inv /\ [Next]_vars => Inv'
<1> SUFFICES ASSUME Inv, [Next]_vars PROVE Inv'
  OBVIOUS
<1>1. ASSUME NEW l \in Lanes, LaneStep(l) PROVE Inv'
  BY <1>1, SkipInv, ClearInv, DropInv, ApplyInv, ReadyInv, NotReadyInv, LoadInv, LevelInv,
     RaisesInv DEF LaneStep
<1>2. ASSUME NEW phase \in Phases, NEW n \in Nodes, Start(phase, n) PROVE Inv'
  BY <1>2, StartInv
<1>3. CASE StopProduction \/ StartPhaseA \/ Restore
  BY <1>3, StopInv, PhaseAInv, RestoreInv
<1>4. CASE SweepsEnd \/ Interrupt
  BY <1>4, SweepsEndInv, InterruptInv
<1>5. ASSUME NEW p \in Production \cup BenchPods, PodGoes(p) PROVE Inv'
  BY <1>5, GoesInv
<1>6. CASE NextDay
  <2>1. today \in Days /\ today < MaxDays /\ today' = today + 1
    BY <1>6 DEF NextDay, Inv, Types, ScriptOK
  <2>2. today' \in Days
    BY <2>1, BoundsAssumption DEF Days
  <2> QED
    BY <1>6, <2>2, StillInv DEF NextDay
<1>7. CASE UNCHANGED vars
  BY <1>7, StillInv DEF vars, Inv, Types, ScriptOK
<1> QED
  BY <1>1, <1>2, <1>3, <1>4, <1>5, <1>6, <1>7 DEF Next

LEMMA Typed ==
  ASSUME Types
  PROVE  TypeOK
<1>1. /\ today \in Days  /\ run \in 0..MaxRuns
      /\ script.pc \in {"idle", "stop", "stopping", "lanes", "sweep"}
      /\ script.phase \in Phases /\ script.day \in [Runs -> Days]
  BY DEF Types, ScriptOK
<1>2. \A l \in Lanes :
        /\ lane[l].done \in Nat
        /\ lane[l].step = "level" =>
             lane[l].done + Cardinality(lane[l].left) = Cardinality(Cells(Job(l)))
  BY DEF Types, LanesOK, LaneOK, LaneRecs, Job
<1>3. pods \in [Production \cup BenchPods -> PodStates]
  <2>1. Absent \in PodStates
    BY DEF PodStates, Absent
  <2>2. [maker : Makers, terminating : BOOLEAN] \subseteq PodStates
    BY DEF PodStates, Makers
  <2> QED
    BY <2>1, <2>2 DEF Types, PodsOK, PodRecs
<1>4. \A f \in Jobs \X Days : files[f] \in FileContents
  <2>1. ASSUME NEW j \in Jobs PROVE FileRecs(j) \subseteq FileContents
    <3>1. SavedOf(j) \subseteq SUBSET (AllLevels \X Makers)
      BY LevelFacts
    <3> QED
      BY <3>1 DEF FileRecs, FileContents, AllLevels, Makers
  <2>2. ASSUME NEW f \in Jobs \X Days PROVE files[f] \in FileContents
    <3>1. PICK j \in Jobs : \E d \in Days : f = <<j, d>>
      OBVIOUS
    <3> QED
      BY <2>1, <3>1 DEF Types, FilesOK
  <2> QED
    BY <2>2
<1> QED
  BY <1>1, <1>2, <1>3, <1>4 DEF TypeOK

\* While a benchmark pod of spark-02 exists, phase A is running its second lane.
LEMMA Exclusive ==
  ASSUME Inv
  PROVE  ExclusiveOnSpark02
<1> SUFFICES ASSUME Clean({"deletion", "orphan", "unstopped"}), NEW p \in Production, Exists(p),
                    NEW j \in Jobs, On02(j), Exists(JobTable[j].pod)
             PROVE  FALSE
  BY DEF ExclusiveOnSpark02, Clean, On02
<1>1. Types /\ Current /\ Second /\ Held /\ Away
  BY DEF Inv, Safe
<1>2. PICK l \in Lanes : Alive(l) /\ PodOf(l) = JobTable[j].pod
  BY <1>1 DEF Held
<1>3. On02(Job(l)) /\ Clean({"orphan", "unstopped"}) /\ Clean({"deletion"})
  BY <1>1, <1>2, SamePod DEF Clean
<1>4. script.pc = "lanes"
  BY <1>1, <1>2, <1>3, AtSecond
<1> QED
  BY <1>1, <1>3, <1>4 DEF Away

(* Whoever holds the GPU of spark-02 holds it alone, and production is back   *)
(* there when no script runs, unless one of the named mishaps happened.      *)
THEOREM Spark02 == Spec => []Spark02Kept
<1>1. Inv => Spark02Kept
  <2> SUFFICES ASSUME Inv PROVE Spark02Kept
    OBVIOUS
  <2>1. TypeOK /\ ExclusiveOnSpark02
    BY Typed, Exclusive DEF Inv
  <2>2. ProductionBack
    BY DEF Inv, Safe, Back, Clean, ProductionBack
  <2> QED
    BY <2>1, <2>2 DEF Spark02Kept
<1> QED
  BY <1>1, InitInv, NextInv, PTL DEF Spec

-----------------------------------------------------------------------------
(* What the files tell                                                     *)

\* While no deletion has failed or dragged on, a lane has cleared the pod before
\* it applies one, and measures the pod it has applied.
Cleared(l) ==
  Clean({"deletion"}) =>
    /\ lane[l].step = "apply" => ~Exists(PodOf(l))
    /\ lane[l].step \in {"ready", "load", "level"} /\ Exists(PodOf(l)) =>
         pods[PodOf(l)].maker = Job(l)

\* What bench.py has in memory contains what its file has, and was measured so.
Remembered(l) ==
  lane[l].step = "level" =>
    /\ files[FileOf(l)].saved \subseteq lane[l].mem
    /\ Clean({"deletion"}) => \A s \in lane[l].mem : s[2] = Job(l)

\* What is not left of a job has been tried.
Tried(l) ==
  lane[l].step = "level" => \A c \in Cells(Job(l)) \ lane[l].left : <<Job(l), c>> \in tried

LaneTold(l) == Alive(l) => Tried(l) /\ (Clean({"orphan"}) => Cleared(l) /\ Remembered(l))

FileTold(f) ==
  /\ \A s \in files[f].saved : <<f[1], s[1]>> \in tried
  /\ files[f].kind = "saved" /\ files[f].done = Cardinality(Cells(f[1])) =>
       {f[1]} \X Cells(f[1]) \subseteq tried
  /\ Clean({"orphan"}) /\ Clean({"deletion"}) =>
       \A s \in files[f].saved : s[2] = f[1]

\* Two lanes that run at the same time have no pod in common.
LanesApart ==
  Clean({"orphan"}) => \A l, m \in Lanes : l # m /\ Alive(l) /\ Alive(m) =>
    \A i \in JobsOf(lane[l].todo), j \in JobsOf(lane[m].todo) : JobTable[i].pod # JobTable[j].pod

Told == LanesApart /\ (\A l \in Lanes : LaneTold(l)) /\ (\A f \in Jobs \X Days : FileTold(f))

LEMMA StillApart ==
  ASSUME LanesApart, slip \subseteq slip',
         \A l \in Lanes : Alive(l)' => Alive(l) /\ JobsOf(lane'[l].todo) \subseteq JobsOf(lane[l].todo)
  PROVE  LanesApart'
<1>1. Clean({"orphan"})' => Clean({"orphan"})
  BY DEF Clean
<1> QED
  BY <1>1 DEF LanesApart

LEMMA FileStays ==
  ASSUME NEW f \in Jobs \X Days, FileTold(f), files'[f] = files[f], tried \subseteq tried',
         slip \subseteq slip'
  PROVE  FileTold(f)'
<1>1. Clean({"orphan"})' => Clean({"orphan"})
  BY DEF Clean
<1>2. Clean({"deletion"})' => Clean({"deletion"})
  BY DEF Clean
<1> QED
  BY <1>1, <1>2 DEF FileTold

\* A lane that does not move, and whose pod and file others leave alone.
LEMMA Bystander ==
  ASSUME NEW m \in Lanes, LaneTold(m), lane'[m] = lane[m], tried \subseteq tried', slip \subseteq slip',
         Clean({"orphan"})' /\ Alive(m) =>
           /\ FileOf(m)' = FileOf(m) /\ files'[FileOf(m)] = files[FileOf(m)]
           /\ pods'[PodOf(m)] = pods[PodOf(m)] \/ pods'[PodOf(m)] = Absent
  PROVE  LaneTold(m)'
<1> SUFFICES ASSUME Alive(m) PROVE LaneTold(m)'
  BY DEF LaneTold, Alive
<1>1. Clean({"orphan"})' => Clean({"orphan"})
  BY DEF Clean
<1>2. Job(m)' = Job(m) /\ PodOf(m)' = PodOf(m)
  BY DEF Job, PodOf
<1>3. Clean({"deletion"})' => Clean({"deletion"})
  BY <1>2 DEF Clean
<1>4. Clean({"deletion"})' => Clean({"deletion"})
  BY DEF Clean
<1>5. Tried(m)'
  BY <1>2 DEF LaneTold, Tried
<1>6. ASSUME Clean({"orphan"})' PROVE Cleared(m)' /\ Remembered(m)'
  <2>1. Cleared(m) /\ Remembered(m)
    BY <1>1, <1>6 DEF LaneTold
  <2>2. Exists(PodOf(m))' => Exists(PodOf(m)) /\ pods'[PodOf(m)] = pods[PodOf(m)]
    BY <1>2, <1>6 DEF Exists
  <2>3. Cleared(m)'
    BY <1>2, <1>3, <1>4, <1>6, <2>1, <2>2 DEF Cleared
  <2>4. Remembered(m)'
    BY <1>2, <1>3, <1>6, <2>1 DEF Remembered
  <2> QED
    BY <2>3, <2>4
<1> QED
  BY <1>5, <1>6 DEF LaneTold

\* The step of a lane under a script that goes on.
LEMMA Moved ==
  ASSUME Inv, Told, NEW l \in Lanes, Alive(l), UNCHANGED <<run, script>>,
         tried \subseteq tried', slip \subseteq slip',
         \A m \in Lanes \ {l} : lane'[m] = lane[m],
         JobsOf(lane'[l].todo) \subseteq JobsOf(lane[l].todo),
         \A q \in (Production \cup BenchPods) \ {PodOf(l)} : pods'[q] = pods[q],
         \A f \in Jobs \X Days : files'[f] = files[f] \/ (f = FileOf(l) /\ FileTold(f)'),
         LaneTold(l)'
  PROVE  Told'
<1>1. Types
  BY DEF Inv
<1>2. LanesApart'
  BY StillApart DEF Told, Alive
<1>3. ASSUME NEW m \in Lanes \ {l} PROVE LaneTold(m)'
  <2>1. lane'[m] = lane[m] /\ LaneTold(m)
    BY DEF Told
  <2>2. ASSUME Clean({"orphan"})', Alive(m)
        PROVE  /\ FileOf(m)' = FileOf(m) /\ files'[FileOf(m)] = files[FileOf(m)]
               /\ pods'[PodOf(m)] = pods[PodOf(m)] \/ pods'[PodOf(m)] = Absent
    <3>1. Job(l) \in JobsOf(lane[l].todo) /\ Job(m) \in JobsOf(lane[m].todo)
      BY <1>1, <2>2, JobListed
    <3>2. Clean({"orphan"})
      BY <2>2 DEF Clean
    <3>3. JobTable[Job(l)].pod # JobTable[Job(m)].pod
      BY <2>2, <3>1, <3>2 DEF Told, LanesApart
    <3>4. PodOf(m) \in BenchPods \ {PodOf(l)}
      BY <1>1, <2>2, <3>3, LaneFacts DEF PodOf
    <3>5. FileOf(m) \in (Jobs \X Days) \ {FileOf(l)}
      <4>1. FileOf(m)[1] # FileOf(l)[1]
        BY <1>1, <2>2, <3>3, LaneFacts
      <4> QED
        BY <1>1, <2>2, <4>1, LaneFacts
    <3>6. FileOf(m)' = FileOf(m)
      BY <2>1 DEF FileOf, Job
    <3> QED
      BY <3>4, <3>5, <3>6
  <2> QED
    BY <2>1, <2>2, Bystander
<1>4. ASSUME NEW f \in Jobs \X Days PROVE FileTold(f)'
  <2>1. CASE FileTold(f)'
    BY <2>1
  <2>2. CASE files'[f] = files[f]
    BY <2>2, FileStays DEF Told
  <2> QED
    BY <2>1, <2>2
<1> QED
  BY <1>2, <1>3, <1>4 DEF Told

\* The step of a lane that ends its script.
LEMMA DyingTold ==
  ASSUME Inv, Told, NEW l \in Lanes, Alive(l), Strict(l), NEW kinds, Dies(l, kinds),
         UNCHANGED <<run, files, tried>>, Inv'
  PROVE  Told'
<1>1. Types /\ Current /\ script.pc # "idle"
  BY DEF Inv, Safe, Strict, Foreground
<1>2. /\ lane'[l] = Idle /\ \A m \in Lanes \ {l} : lane'[m] = lane[m]
      /\ script' = [script EXCEPT !.pc = "idle"] /\ slip \subseteq slip'
  BY <1>1, Died DEF Dies, Note
<1>3. script'.pc = "idle" /\ Idle.step = "ended"
  BY <1>1, <1>2 DEF Types, ScriptOK, Idle
<1>4. Clean({"orphan"})' => \A m \in Lanes : ~Alive(m)'
  BY <1>3 DEF Inv, Safe, Current
<1>5. \A m \in Lanes : Alive(m)' => lane'[m] = lane[m]
  BY <1>2, <1>3 DEF Alive
<1>6. LanesApart'
  BY <1>4 DEF LanesApart
<1>7. ASSUME NEW m \in Lanes PROVE LaneTold(m)'
  <2>1. Alive(m)' => Tried(m) /\ lane'[m] = lane[m]
    BY <1>5 DEF Told, LaneTold, Alive
  <2>2. Alive(m)' => Tried(m)'
    BY <2>1 DEF Tried, Job
  <2> QED
    BY <1>4, <2>2 DEF LaneTold
<1>8. \A f \in Jobs \X Days : FileTold(f)'
  BY <1>2, FileStays DEF Told
<1> QED
  BY <1>6, <1>7, <1>8 DEF Told

\* What is known of a lane that acts.
LEMMA LaneKnows ==
  ASSUME Told, NEW l \in Lanes, Alive(l)
  PROVE  /\ Tried(l) /\ (Clean({"orphan"}) => Cleared(l) /\ Remembered(l))
         /\ \A f \in Jobs \X Days : FileTold(f)
BY DEF Told, LaneTold

\* A lane that has torn down its pod, or leaves it.
LEMMA LeavesTold ==
  ASSUME Inv, Told, NEW l \in Lanes, Alive(l), UNCHANGED <<run, script, files, tried>>,
         slip \subseteq slip', \A m \in Lanes \ {l} : lane'[m] = lane[m],
         JobsOf(lane'[l].todo) \subseteq JobsOf(lane[l].todo),
         \A q \in (Production \cup BenchPods) \ {PodOf(l)} : pods'[q] = pods[q],
         lane'[l].step \in {"ended", "next", "apply", "drop"},
         lane'[l].step = "apply" => lane'[l].todo = lane[l].todo /\
           (pods'[PodOf(l)] = Absent \/ "deletion" \in slip')
  PROVE  Told'
<1>1. Clean({"orphan"})' => Clean({"orphan"})
  BY DEF Clean
<1>3. Tried(l)'
  BY DEF Tried
<1>4. Remembered(l)'
  BY DEF Remembered
<1>5. ASSUME Clean({"orphan"})' PROVE Cleared(l)'
  <2>2. lane'[l].step = "apply" => PodOf(l)' = PodOf(l)
    BY DEF PodOf, Job
  <2>3. lane'[l].step = "apply" /\ Clean({"deletion"})' => ~Exists(PodOf(l))'
    BY <2>2 DEF Exists, Clean
  <2> QED
    BY <2>3 DEF Cleared
<1>6. LaneTold(l)'
  BY <1>3, <1>4, <1>5 DEF LaneTold
<1> QED
  BY <1>6, Moved

\* A lane that is at the pod it has applied, before bench.py reads its file.
LEMMA HoldsTold ==
  ASSUME Inv, Told, NEW l \in Lanes, Alive(l), UNCHANGED <<run, script, files, tried>>,
         slip \subseteq slip', \A m \in Lanes \ {l} : lane'[m] = lane[m],
         lane'[l].todo = lane[l].todo, lane'[l].step \in {"ready", "load"},
         \A q \in (Production \cup BenchPods) \ {PodOf(l)} : pods'[q] = pods[q],
         Clean({"orphan"})' /\ Clean({"deletion"})' /\ pods'[PodOf(l)] # Absent =>
           pods'[PodOf(l)].maker = Job(l)
  PROVE  Told'
<1>1. Clean({"orphan"})' => Clean({"orphan"})
  BY DEF Clean
<1>2. Job(l)' = Job(l) /\ PodOf(l)' = PodOf(l)
  BY DEF Job, PodOf
<1>3. Tried(l)' /\ Remembered(l)'
  BY DEF Tried, Remembered
<1>4. ASSUME Clean({"orphan"})' PROVE Cleared(l)'
  BY <1>2, <1>4 DEF Cleared, Exists
<1>5. LaneTold(l)'
  BY <1>3, <1>4 DEF LaneTold
<1> QED
  BY <1>5, Moved

LEMMA SkipTold ==
  ASSUME Inv, Told, NEW l \in Lanes, Skip(l)
  PROVE  Told'
<1>1. /\ Types /\ Alive(l) /\ NextJob(l) /\ UNCHANGED <<run, script, pods, files, tried, slip>>
  BY DEF Inv, Skip, Alive
<1> QED
  BY <1>1, Took, JobListed, LeavesTold

LEMMA ClearTold ==
  ASSUME Inv, Told, NEW l \in Lanes, Clear(l)
  PROVE  Told'
<1>1. /\ Types /\ Alive(l) /\ lane[l].step = "next" /\ Goto(l, "apply")
      /\ UNCHANGED <<run, script, files, tried>>
  BY DEF Inv, Clear, Alive
<1>2. PICK after \in Teardowns(PodOf(l)) : pods' = after /\ Note(Late(PodOf(l), after))
  BY DEF Clear
<1>3. /\ \A q \in (Production \cup BenchPods) \ {PodOf(l)} : pods'[q] = pods[q]
      /\ pods'[PodOf(l)] = Absent \/ "deletion" \in slip'
      /\ slip \subseteq slip'
  BY <1>1, <1>2, LaneFacts, TeardownFacts DEF Types, Note
<1> QED
  BY <1>1, <1>3, Gone, LeavesTold DEF Steps

LEMMA DropTold ==
  ASSUME Inv, Told, NEW l \in Lanes, Drop(l)
  PROVE  Told'
<1>1. /\ Types /\ Alive(l) /\ NextJob(l) /\ UNCHANGED <<run, script, files, tried>>
  BY DEF Inv, Drop, Alive
<1>2. PICK after \in Teardowns(PodOf(l)) : pods' = after /\ Note(Late(PodOf(l), after))
  BY DEF Drop
<1>3. /\ \A q \in (Production \cup BenchPods) \ {PodOf(l)} : pods'[q] = pods[q]
      /\ slip \subseteq slip'
  BY <1>1, <1>2, LaneFacts, TeardownFacts DEF Types, Note
<1> QED
  BY <1>1, <1>3, Took, JobListed, LeavesTold

LEMMA ApplyTold ==
  ASSUME Inv, Told, NEW l \in Lanes, Apply(l), Inv'
  PROVE  Told'
<1>1. /\ Types /\ Alive(l) /\ lane[l].step = "apply" /\ UNCHANGED <<run, files, tried>>
  BY DEF Inv, Apply, Alive
<1>2. /\ Job(l) \in Jobs /\ PodOf(l) \in BenchPods /\ pods \in [Production \cup BenchPods -> PodRecs]
      /\ Job(l) \in JobsOf(lane[l].todo)
  BY <1>1, LaneFacts, JobListed DEF Types, PodsOK
<1>3. Clean({"orphan"}) /\ Clean({"deletion"}) => pods[PodOf(l)] = Absent
  BY <1>1, LaneKnows DEF Cleared, Exists
<1>4. ASSUME Goto(l, "ready"), UNCHANGED script, slip \subseteq slip',
             \A q \in (Production \cup BenchPods) \ {PodOf(l)} : pods'[q] = pods[q],
             Clean({"orphan"}) /\ Clean({"deletion"}) /\ pods'[PodOf(l)] # Absent =>
               pods'[PodOf(l)].maker = Job(l)
      PROVE  Told'
  <2>1. /\ \A m \in Lanes \ {l} : lane'[m] = lane[m]
        /\ lane'[l].todo = lane[l].todo /\ lane'[l].step = "ready"
    BY <1>1, <1>4, Gone DEF Steps
  <2>2. (Clean({"orphan"})' => Clean({"orphan"})) /\ (Clean({"deletion"})' => Clean({"deletion"}))
    BY <1>4 DEF Clean
  <2> QED
    BY <1>1, <1>4, <2>1, <2>2, HoldsTold
<1>5. CASE pods' = [pods EXCEPT ![PodOf(l)] = Fresh(Job(l))] /\ Goto(l, "ready") /\ UNCHANGED <<script, slip>>
  BY <1>2, <1>4, <1>5 DEF Fresh
<1>6. CASE Goto(l, "ready") /\ UNCHANGED <<script, slip, pods>>
  BY <1>3, <1>4, <1>6
<1>7. CASE Strict(l) /\ Dies(l, {"apply"})
  BY <1>1, <1>7, DyingTold
<1>8. CASE ~Strict(l) /\ Goto(l, "ready") /\ Note({"apply"}) /\ UNCHANGED <<script, pods>>
  BY <1>3, <1>4, <1>8 DEF Note
<1> QED
  BY <1>5, <1>6, <1>7, <1>8 DEF Apply

LEMMA ReadyTold ==
  ASSUME Inv, Told, NEW l \in Lanes, PodReady(l)
  PROVE  Told'
<1>1. /\ Types /\ Alive(l) /\ lane[l].step = "ready" /\ Goto(l, "load")
      /\ UNCHANGED <<run, script, pods, files, tried, slip>>
  BY DEF Inv, PodReady, Alive
<1>2. /\ \A m \in Lanes \ {l} : lane'[m] = lane[m]
      /\ lane'[l].todo = lane[l].todo /\ lane'[l].step = "load"
  BY <1>1, Gone DEF Steps
<1>3. Clean({"orphan"})' => Clean({"orphan"}) /\ Cleared(l)
  BY <1>1, LaneKnows DEF Clean
<1>4. Clean({"deletion"})' => Clean({"deletion"})
  BY <1>1, <1>2 DEF Clean, Job
<1> QED
  BY <1>1, <1>2, <1>3, <1>4, HoldsTold DEF Cleared, Exists

LEMMA NotReadyTold ==
  ASSUME Inv, Told, NEW l \in Lanes, PodNotReady(l), Inv'
  PROVE  Told'
<1>1. /\ Types /\ Alive(l) /\ UNCHANGED <<run, files, tried>>
  BY DEF Inv, PodNotReady, Alive
<1>2. PICK after \in Teardowns(PodOf(l)) :
        /\ pods' = after
        /\ IF ContinuesUnready(l)
           THEN NextJob(l) /\ Note(Late(PodOf(l), after) \cup {"unready"}) /\ UNCHANGED script
           ELSE Dies(l, Late(PodOf(l), after) \cup {"unready"})
  BY DEF PodNotReady
<1>3. CASE ~ContinuesUnready(l)
  BY <1>1, <1>2, <1>3, DyingTold DEF ContinuesUnready
<1>4. CASE ContinuesUnready(l)
  <2>1. /\ \A q \in (Production \cup BenchPods) \ {PodOf(l)} : pods'[q] = pods[q]
        /\ NextJob(l) /\ UNCHANGED script /\ slip \subseteq slip'
    BY <1>1, <1>2, <1>4, LaneFacts, TeardownFacts DEF Types, Note
  <2> QED
    BY <1>1, <2>1, Took, JobListed, LeavesTold
<1> QED
  BY <1>3, <1>4

LEMMA LoadTold ==
  ASSUME Inv, Told, NEW l \in Lanes, BenchLoad(l), Inv'
  PROVE  Told'
<1> DEFINE saved == files[FileOf(l)].saved
<1>1. /\ Types /\ Alive(l) /\ lane[l].step = "load"
      /\ UNCHANGED <<today, run, script, pods, files, tried, slip>>
  BY DEF Inv, BenchLoad, Alive
<1>2. /\ lane[l] \in LaneRecs /\ Job(l) \in Jobs /\ FileOf(l) \in Jobs \X Days
      /\ FileOf(l)[1] = Job(l)
  BY <1>1, LaneFacts
<1>3. /\ lane'[l].step = "level" /\ lane'[l].mem = saved /\ lane'[l].todo = lane[l].todo
      /\ lane'[l].left = Cells(Job(l)) \ LevelsIn(saved)
      /\ \A m \in Lanes \ {l} : lane'[m] = lane[m]
  <2>1. lane \in [Lanes -> LaneRecs]
    BY <1>1 DEF Types, LanesOK
  <2> QED
    BY <1>2, <2>1 DEF BenchLoad, LevelsIn, LaneRecs
<1>4. Job(l)' = Job(l) /\ FileOf(l)' = FileOf(l) /\ PodOf(l)' = PodOf(l)
  BY <1>1, <1>3 DEF Job, FileOf, PodOf
<1>5. FileTold(FileOf(l)) /\ (Clean({"orphan"}) => Cleared(l))
  BY <1>1, <1>2, LaneKnows
<1>6. Tried(l)'
  BY <1>1, <1>2, <1>3, <1>4, <1>5 DEF Tried, FileTold, LevelsIn
<1>7. ASSUME Clean({"orphan"}) PROVE Cleared(l)' /\ Remembered(l)'
  <2>1. Clean({"deletion"})' <=> Clean({"deletion"})
    BY <1>1, <1>4 DEF Clean
  <2>2. Cleared(l)'
    BY <1>1, <1>3, <1>4, <1>5, <1>7, <2>1 DEF Cleared, Exists
  <2>3. Remembered(l)'
    BY <1>1, <1>2, <1>3, <1>4, <1>5, <1>7, <2>1 DEF Remembered, FileTold
  <2> QED
    BY <2>2, <2>3
<1>8. LaneTold(l)'
  BY <1>1, <1>6, <1>7 DEF LaneTold, Clean
<1> HIDE DEF saved
<1> QED
  BY <1>1, <1>3, <1>8, Moved

LEMMA LevelTold ==
  ASSUME Inv, Told, NEW l \in Lanes, BenchLevel(l), Inv'
  PROVE  Told'
<1> DEFINE c == Min(lane[l].left)
           done == lane[l].done + 1
<1>0. Types /\ Alive(l)
  BY DEF Inv, BenchLevel, Alive
<1>j. PICK j \in Jobs : j = Job(l)
  BY <1>0, LaneFacts
<1>1. /\ Types /\ Alive(l) /\ lane[l].step = "level" /\ lane[l].left # {}
      /\ UNCHANGED <<today, run, script, pods>> /\ tried' = tried \cup {<<j, c>>}
  BY <1>j DEF Inv, BenchLevel, Alive
<1>2. PICK e \in {{}} \cup (IF LevelRuns(l) THEN {{<<c, pods[PodOf(l)].maker>>}} ELSE {}) :
        /\ lane' = [lane EXCEPT ![l] = [@ EXCEPT !.mem = lane[l].mem \cup e, !.done = done,
                                                 !.left = lane[l].left \ {c}]]
        /\ files' = [files EXCEPT ![FileOf(l)] = File("saved", done, lane[l].mem \cup e)]
        /\ Note(IF e = {} THEN {"level"} ELSE {})
  BY DEF BenchLevel
<1>3. /\ lane[l] \in LaneRecs /\ LaneOK(lane[l])
      /\ FileOf(l) \in Jobs \X Days /\ FileOf(l)[1] = j
  BY <1>1, <1>j, LaneFacts
<1>4. /\ lane[l].mem \in SavedOf(j) /\ lane[l].left \subseteq Cells(j) \ LevelsIn(lane[l].mem)
  BY <1>1, <1>3, <1>j DEF LaneOK, Job
<1> DEFINE mem == lane[l].mem \cup e
           left == lane[l].left \ {c}
<1>5. /\ lane'[l].step = "level" /\ lane'[l].mem = mem /\ lane'[l].todo = lane[l].todo
      /\ lane'[l].left = left /\ lane'[l].done = done
      /\ \A m \in Lanes \ {l} : lane'[m] = lane[m]
  <2>1. lane \in [Lanes -> LaneRecs]
    BY <1>1 DEF Types, LanesOK
  <2> QED
    BY <1>1, <1>2, <1>3, <2>1 DEF LaneRecs
<1>6. /\ Job(l)' = j /\ FileOf(l)' = FileOf(l) /\ PodOf(l)' = PodOf(l)
  BY <1>1, <1>5, <1>j DEF Job, FileOf, PodOf
<1>7. Tried(l) /\ (Clean({"orphan"}) => Cleared(l) /\ Remembered(l)) /\ slip \subseteq slip'
  BY <1>1, <1>2, LaneKnows DEF Note
<1>8. \A d \in Cells(j) \ left : <<j, d>> \in tried'
  BY <1>1, <1>7, <1>j DEF Tried
<1>9. \A s \in mem : s[1] \in Cells(j) \ left
  <2>1. c \in lane[l].left
    <3>1. lane[l].left \in SUBSET Nat
      BY <1>3, <1>4, LevelFacts
    <3> QED
      BY <1>1, <3>1, MinIsLeft
  <2>2. \A s \in lane[l].mem : s[1] \in Cells(j) /\ s[1] \notin lane[l].left
    BY <1>4 DEF LevelsIn, SavedOf
  <2>3. \A s \in e : s[1] = c
    BY <1>2
  <2> HIDE DEF c
  <2> QED
    BY <1>4, <2>1, <2>2, <2>3
<1>10. Clean({"orphan"})' => Clean({"orphan"})
  BY <1>7 DEF Clean
<1>11. Clean({"deletion"})' => Clean({"deletion"})
  BY <1>7 DEF Clean
<1>12. ASSUME Clean({"orphan"}), Clean({"deletion"}), NEW s \in mem PROVE s[2] = j
  <2>1. CASE s \in lane[l].mem
    BY <1>1, <1>7, <1>12, <1>j, <2>1 DEF Remembered
  <2>2. CASE LevelRuns(l) /\ s = <<c, pods[PodOf(l)].maker>>
    BY <1>1, <1>7, <1>12, <1>j, <2>2 DEF Cleared, LevelRuns
  <2> QED
    BY <1>2, <1>12, <2>1, <2>2
<1>13. /\ files'[FileOf(l)].kind = "saved" /\ files'[FileOf(l)].done = done
       /\ files'[FileOf(l)].saved = mem
       /\ \A f \in Jobs \X Days : f # FileOf(l) => files'[f] = files[f]
  BY <1>1, <1>2, <1>3 DEF Types, FilesOK, File
<1>14. done = Cardinality(Cells(j)) => left = {}
  <2>1. LaneOK(lane'[l]) /\ lane'[l].todo = lane[l].todo
    BY <1>5 DEF Inv, Types, LanesOK, LaneOK
  <2>2. done + Cardinality(left) = Cardinality(Cells(j)) /\ left \subseteq Cells(j)
    BY <1>5, <1>j, <2>1 DEF LaneOK, Job
  <2>3. IsFiniteSet(left) /\ Cardinality(left) \in Nat /\ done \in Nat
    BY <1>3, <2>2, LevelFacts, FS_Subset, FS_CardinalityType DEF LaneRecs
  <2> HIDE DEF left, done
  <2> QED
    BY <2>2, <2>3, FS_EmptySet
<1> HIDE DEF c, done, mem, left
<1>15. FileTold(FileOf(l))'
  <2>1. \A s \in mem : <<j, s[1]>> \in tried'
    BY <1>8, <1>9
  <2>2. done = Cardinality(Cells(j)) => {j} \X Cells(j) \subseteq tried'
    BY <1>8, <1>14
  <2> QED
    BY <1>3, <1>6, <1>10, <1>11, <1>12, <1>13, <2>1, <2>2 DEF FileTold
<1>16. Tried(l)'
  BY <1>5, <1>6, <1>8 DEF Tried
<1>17. ASSUME Clean({"orphan"})' PROVE Cleared(l)' /\ Remembered(l)'
  <2>1. Cleared(l)'
    BY <1>1, <1>5, <1>6, <1>7, <1>10, <1>11, <1>17, <1>j DEF Cleared, Exists
  <2>2. Remembered(l)'
    BY <1>5, <1>6, <1>10, <1>11, <1>12, <1>13, <1>17, <1>j DEF Remembered
  <2> QED
    BY <2>1, <2>2
<1>18. LaneTold(l)'
  BY <1>16, <1>17 DEF LaneTold
<1>19. \A f \in Jobs \X Days : files'[f] = files[f] \/ (f = FileOf(l) /\ FileTold(f)')
  BY <1>6, <1>13, <1>15 DEF FileTold
<1>20. tried \subseteq tried'
  BY <1>1
<1> QED
  BY <1>1, <1>5, <1>7, <1>18, <1>19, <1>20, Moved

LEMMA RaisesTold ==
  ASSUME Inv, Told, NEW l \in Lanes, BenchRaises(l), Inv'
  PROVE  Told'
<1>1. /\ Types /\ LaneOK(lane[l]) /\ lane \in [Lanes -> LaneRecs]
      /\ UNCHANGED <<today, run, pods, files, tried>>
  BY DEF Inv, BenchRaises, Types, LanesOK
<1>2. Alive(l)
  BY <1>1 DEF BenchRaises, LaneOK, Alive
<1>3. CASE Strict(l)
  BY <1>1, <1>2, <1>3, DyingTold DEF BenchRaises
<1>4. CASE ~Strict(l)
  <2>1. /\ lane' = [lane EXCEPT ![l] = [@ EXCEPT !.step = "drop", !.left = {}]]
        /\ slip \subseteq slip' /\ UNCHANGED script
    BY <1>4 DEF BenchRaises, Note
  <2>2. /\ lane'[l].step = "drop" /\ lane'[l].todo = lane[l].todo
        /\ \A m \in Lanes \ {l} : lane'[m] = lane[m]
    BY <1>1, <2>1 DEF LaneRecs
  <2> QED
    BY <1>1, <1>2, <2>1, <2>2, LeavesTold
<1> QED
  BY <1>3, <1>4


LEMMA StillTried ==
  ASSUME NEW l \in Lanes, lane'[l] = lane[l], tried \subseteq tried', Tried(l)
  PROVE  Tried(l)'
BY DEF Tried, Job

\* A step of the script after which it has no lanes.
LEMMA EndsTold ==
  ASSUME Told, Inv', script'.pc \notin {"lanes", "sweep"}, slip \subseteq slip', UNCHANGED tried,
         \A m \in Lanes : Alive(m)' => lane'[m] = lane[m],
         \A f \in Jobs \X Days : files'[f] = files[f] \/ FileTold(f)'
  PROVE  Told'
<1>1. Clean({"orphan"})' => \A m \in Lanes : ~Alive(m)'
  BY DEF Inv, Safe, Current
<1>2. LanesApart'
  BY <1>1 DEF LanesApart
<1>3. ASSUME NEW m \in Lanes PROVE LaneTold(m)'
  <2>1. Alive(m)' => Tried(m) /\ lane'[m] = lane[m]
    BY DEF Told, LaneTold, Alive
  <2>2. Alive(m)' => Tried(m)'
    BY <2>1 DEF Tried, Job
  <2> QED
    BY <1>1, <2>2 DEF LaneTold
<1>4. ASSUME NEW f \in Jobs \X Days PROVE FileTold(f)'
  <2>1. CASE FileTold(f)'
    BY <2>1
  <2>2. CASE files'[f] = files[f]
    BY <2>2, FileStays DEF Told
  <2> QED
    BY <2>1, <2>2
<1> QED
  BY <1>2, <1>3, <1>4 DEF Told

\* A step of the script that opens the lanes of its start, when no other runs.
LEMMA OpensTold ==
  ASSUME Types, Told, slip \subseteq slip', UNCHANGED <<files, tried>>,
         NEW r \in Runs, r = run', NEW a \in Seq(Jobs), NEW b \in Seq(Jobs),
         lane' = [lane EXCEPT ![<<r, "a">>] = Load(a), ![<<r, "b">>] = Load(b)],
         Clean({"orphan"})' => \A l \in Lanes : ~Alive(l),
         \A i \in JobsOf(a), j \in JobsOf(b) : JobTable[i].pod # JobTable[j].pod
  PROVE  Told'
<1>1. /\ \A l \in Lanes : l[1] # r => lane'[l] = lane[l]
      /\ lane'[<<r, "a">>].todo = a /\ lane'[<<r, "b">>].todo = b
      /\ lane'[<<r, "a">>].step \in {"ended", "next"} /\ lane'[<<r, "b">>].step \in {"ended", "next"}
  <2>1. LanesOK /\ lane \in [Lanes -> LaneRecs]
    BY DEF Types, LanesOK
  <2>2. <<r, "a">> \in Lanes /\ <<r, "b">> \in Lanes /\ <<r, "a">> # <<r, "b">>
    BY DEF Lanes
  <2>3. Load(a).step \in {"ended", "next"} /\ Load(b).step \in {"ended", "next"}
    BY LoadOK
  <2>4. lane'[<<r, "a">>] = Load(a) /\ lane'[<<r, "b">>] = Load(b)
    BY <2>1, <2>2
  <2> QED
    <3>1. /\ \A l \in Lanes : l[1] # r => lane'[l] = lane[l]
          /\ lane'[<<r, "a">>].todo = a /\ lane'[<<r, "b">>].todo = b
      <4>1. LanesOK
        BY DEF Types
      <4>2. lane' = [lane EXCEPT ![<<r, "a">>] = Load(a), ![<<r, "b">>] = Load(b)]
        OBVIOUS
      <4> QED
        BY ONLY <4>1, <4>2, Opened
    <3>2. lane'[<<r, "a">>].step = Load(a).step /\ lane'[<<r, "b">>].step = Load(b).step
      BY <2>4
    <3> QED
      BY <2>3, <3>1, <3>2
<1>2. ASSUME NEW l \in Lanes, l # <<r, "a">>, l # <<r, "b">> PROVE lane'[l] = lane[l]
  <2>1. l = <<l[1], l[2]>> /\ l[2] \in {"a", "b"}
    BY DEF Lanes
  <2>2. l[1] # r
    BY <1>2, <2>1
  <2> QED
    BY <1>1, <2>2
<1>3. Clean({"orphan"})' =>
        \A l \in Lanes : Alive(l)' => l = <<r, "a">> \/ l = <<r, "b">>
  <2> SUFFICES ASSUME Clean({"orphan"})', NEW l \in Lanes, Alive(l)', l # <<r, "a">>, l # <<r, "b">>
               PROVE  FALSE
    OBVIOUS
  <2> QED
    BY <1>2 DEF Alive
<1>4. LanesApart'
  BY <1>1, <1>3 DEF LanesApart
<1>5. ASSUME NEW l \in Lanes PROVE LaneTold(l)'
  <2>1. CASE l = <<r, "a">>
    BY <1>1, <2>1 DEF LaneTold, Tried, Cleared, Remembered
  <2>2. CASE l = <<r, "b">>
    BY <1>1, <2>2 DEF LaneTold, Tried, Cleared, Remembered
  <2>3. CASE l # <<r, "a">> /\ l # <<r, "b">>
    <3>1. lane'[l] = lane[l] /\ (Alive(l)' => ~Clean({"orphan"})')
      BY <1>2, <1>3, <2>3
    <3>2. Alive(l)' => Tried(l)
      BY <3>1 DEF Told, LaneTold, Alive
    <3>3. Alive(l)' => Tried(l)'
      BY <3>1, <3>2, StillTried
    <3> QED
      BY <3>1, <3>3 DEF LaneTold
  <2> QED
    BY <2>1, <2>2, <2>3
<1>6. \A f \in Jobs \X Days : FileTold(f)'
  BY FileStays DEF Told
<1> QED
  BY <1>4, <1>5, <1>6 DEF Told

LEMMA StartTold ==
  ASSUME Inv, Told, NEW phase \in Phases, NEW n \in Nodes, Start(phase, n), Inv'
  PROVE  Told'
<1>1. /\ Types /\ Current /\ Held /\ script.pc = "idle" /\ run < MaxRuns /\ run' = run + 1
      /\ UNCHANGED <<today, pods, files, tried>> /\ slip \subseteq slip'
      /\ script'.pc = (IF phase = "A" THEN "stop" ELSE "sweep") /\ script'.phase = phase
  BY DEF Inv, Safe, Start, Note
<1>2. Clean({"orphan"})' => \A l \in Lanes : ~Alive(l)
  <2>1. Clean({"orphan"})' => Clean({"orphan"})
    BY <1>1 DEF Clean
  <2> QED
    BY <1>1, <2>1, Quiet
<1>3. PICK r \in Runs : r = run'
  BY <1>1, BoundsAssumption DEF Types, ScriptOK, Runs
<1>4. CASE phase = "A"
  BY <1>1, <1>4, EndsTold DEF Start
<1>5. CASE phase \in {"B", "D"}
  <2>1. lane' = [lane EXCEPT ![<<r, "a">>] = Load(Sweeps(phase, n)), ![<<r, "b">>] = Load(<<>>)]
    BY <1>3, <1>5 DEF Start, StartLanes
  <2>2. Sweeps(phase, n) \in Seq(Jobs) /\ <<>> \in Seq(Jobs) /\ JobsOf(<<>>) = {}
    BY LanesAssumption, EmptySeq DEF Sweeps, JobsOf
  <2> QED
    BY <1>1, <1>2, <1>3, <1>5, <2>1, <2>2, OpensTold
<1>6. CASE phase = "R"
  <2>1. lane' = [lane EXCEPT ![<<r, "a">>] = Load(<<Remaining[1]>>),
                             ![<<r, "b">>] = Load(<<Remaining[2]>>)]
    BY <1>3, <1>6 DEF Start, StartLanes, RemainingLanes
  <2>2. \A j \in Jobs : <<j>> \in Seq(Jobs) /\ JobsOf(<<j>>) = {j}
    BY DEF JobsOf
  <2>3. /\ <<Remaining[1]>> \in Seq(Jobs) /\ <<Remaining[2]>> \in Seq(Jobs)
        /\ JobsOf(<<Remaining[1]>>) = {Remaining[1]} /\ JobsOf(<<Remaining[2]>>) = {Remaining[2]}
        /\ JobTable[Remaining[1]].pod # JobTable[Remaining[2]].pod
    BY <2>2, LanesAssumption
  <2> QED
    <3>1. \A i \in JobsOf(<<Remaining[1]>>), j \in JobsOf(<<Remaining[2]>>) :
             JobTable[i].pod # JobTable[j].pod
      BY <2>3
    <3> HIDE DEF JobsOf
    <3> QED
      BY <1>1, <1>2, <1>3, <2>1, <2>3, <3>1, OpensTold
<1> QED
  BY <1>4, <1>5, <1>6 DEF Phases

LEMMA PhaseATold ==
  ASSUME Inv, Told, StartPhaseA
  PROVE  Told'
<1>1. /\ Types /\ Current /\ Held /\ script.pc = "stopping" /\ UNCHANGED <<run, files, tried>>
      /\ script' = [script EXCEPT !.pc = "lanes"] /\ slip \subseteq slip'
      /\ lane' = [lane EXCEPT ![<<run, "a">>] = Load(FirstLane), ![<<run, "b">>] = Load(SecondLane)]
  BY DEF Inv, Safe, StartPhaseA, Note
<1>2. run \in Runs /\ script'.pc = "lanes" /\ script'.phase = script.phase
  BY <1>1 DEF Types, ScriptOK
<1>3. Clean({"orphan"})' => \A l \in Lanes : ~Alive(l)
  <2>1. Clean({"orphan"})' => Clean({"orphan"})
    BY <1>1 DEF Clean
  <2> QED
    BY <1>1, <2>1, Quiet
<1>4. FirstLane \in Seq(Jobs) /\ SecondLane \in Seq(Jobs)
      /\ JobsOf(FirstLane) \subseteq Jobs /\ JobsOf(SecondLane) \subseteq Jobs
  BY LanesAssumption DEF JobsOf
<1>5. \A i \in JobsOf(FirstLane), j \in JobsOf(SecondLane) : JobTable[i].pod # JobTable[j].pod
  BY <1>4, LanesAssumption, PodsAssumption
<1> QED
  BY <1>1, <1>2, <1>3, <1>4, <1>5, OpensTold

LEMMA InterruptTold ==
  ASSUME Inv, Told, Interrupt, Inv'
  PROVE  Told'
<1> DEFINE a == <<run, "a">>
<1>1. /\ Types /\ script' = [script EXCEPT !.pc = "idle"] /\ slip \subseteq slip'
      /\ lane' = (IF Foreground(a) THEN [lane EXCEPT ![a] = Idle] ELSE lane)
      /\ UNCHANGED tried /\ script.pc # "idle"
  BY DEF Inv, Interrupt, Note
<1>2. script'.pc = "idle" /\ a \in Lanes /\ lane \in [Lanes -> LaneRecs]
  BY <1>1 DEF Types, ScriptOK, LanesOK, Lanes
<1>3. \A m \in Lanes : Alive(m)' => lane'[m] = lane[m]
  BY <1>1, <1>2 DEF Alive, Idle
<1>4. \A f \in Jobs \X Days : files'[f] = files[f] \/ FileTold(f)'
  <2>1. CASE UNCHANGED files
    BY <2>1
  <2>2. CASE files' = [files EXCEPT ![FileOf(a)] = Torn]
    <3> SUFFICES ASSUME NEW f \in Jobs \X Days, files'[f] # files[f] PROVE FileTold(f)'
      OBVIOUS
    <3>1. files'[f] = Torn /\ Torn.saved = {} /\ Torn.kind = "torn"
      BY <1>1, <2>2 DEF Types, FilesOK, Torn, File
    <3> QED
      BY <3>1 DEF FileTold
  <2> QED
    BY <2>1, <2>2 DEF Interrupt
<1> QED
  BY <1>1, <1>2, <1>3, <1>4, EndsTold

LEMMA ScriptTold ==
  ASSUME Inv, Told, StopProduction \/ Restore \/ SweepsEnd \/ NextDay, Inv'
  PROVE  Told'
<1>1. /\ script \in [pc : {"idle", "stop", "stopping", "lanes", "sweep"}, phase : Phases,
                     day : [Runs -> Days]]
      /\ UNCHANGED <<lane, files, tried>> /\ slip \subseteq slip'
  BY DEF Inv, Types, ScriptOK, StopProduction, Restore, SweepsEnd, NextDay, Note
<1>2. CASE StopProduction
  <2>1. script'.pc = "stopping" /\ script'.phase = script.phase /\ script.pc = "stop"
    BY <1>1, <1>2 DEF StopProduction
  <2> QED
    BY <1>1, <2>1, EndsTold
<1>3. CASE Restore \/ SweepsEnd \/ NextDay
  <2>1. script'.pc = "idle"
    BY <1>1, <1>3 DEF Restore, SweepsEnd, NextDay
  <2> QED
    BY <1>1, <2>1, EndsTold
<1> QED
  BY <1>2, <1>3

\* The cluster alone acts, or nobody does.
LEMMA GoesTold ==
  ASSUME Told, UNCHANGED <<run, script, lane, files, tried, slip>>,
         \A p \in Production \cup BenchPods : pods'[p] = pods[p] \/ pods'[p] = Absent, Inv
  PROVE  Told'
<1>1. LanesApart'
  BY StillApart DEF Told, Alive
<1>2. ASSUME NEW m \in Lanes PROVE LaneTold(m)'
  <2>1. LaneTold(m)
    BY DEF Told
  <2>2. FileOf(m)' = FileOf(m)
    BY DEF FileOf, Job
  <2>3. Alive(m) => PodOf(m) \in Production \cup BenchPods
    BY LaneFacts DEF Inv
  <2> QED
    BY <2>1, <2>2, <2>3, Bystander
<1>3. \A f \in Jobs \X Days : FileTold(f)'
  BY FileStays DEF Told
<1> QED
  BY <1>1, <1>2, <1>3 DEF Told

LEMMA InitTold ==
  ASSUME Init
  PROVE  Told
<1>1. \A l \in Lanes : ~Alive(l)
  BY DEF Init, Alive, Idle
<1>2. ASSUME NEW f \in Jobs \X Days PROVE FileTold(f)
  BY DEF Init, FileTold, None, File
<1> QED
  BY <1>1, <1>2 DEF Told, LanesApart, LaneTold, Init

LEMMA NextTold ==
  ASSUME Inv, Told, [Next]_vars
  PROVE  Told'
<1>0. Inv'
  BY NextInv
<1>1. ASSUME NEW l \in Lanes, LaneStep(l) PROVE Told'
  BY <1>0, <1>1, SkipTold, ClearTold, DropTold, ApplyTold, ReadyTold, NotReadyTold, LoadTold,
     LevelTold, RaisesTold DEF LaneStep
<1>2. ASSUME NEW phase \in Phases, NEW n \in Nodes, Start(phase, n) PROVE Told'
  BY <1>0, <1>2, StartTold
<1>3. CASE StartPhaseA \/ Interrupt
  BY <1>0, <1>3, PhaseATold, InterruptTold
<1>4. CASE StopProduction \/ Restore \/ SweepsEnd \/ NextDay
  BY <1>0, <1>4, ScriptTold
<1>5. ASSUME NEW p \in Production \cup BenchPods, PodGoes(p) PROVE Told'
  <2>1. \A q \in Production \cup BenchPods : pods'[q] = pods[q] \/ pods'[q] = Absent
    BY <1>5 DEF PodGoes, Inv, Types, PodsOK
  <2> QED
    BY <1>5, <2>1, GoesTold DEF PodGoes
<1>6. CASE UNCHANGED vars
  BY <1>6, GoesTold DEF vars
<1> QED
  BY <1>1, <1>2, <1>3, <1>4, <1>5, <1>6 DEF Next

\* Only bench.py and an interrupt write a file, and bench.py has in memory what it had.
LEMMA FilesStay ==
  ASSUME Inv, Told, [Next]_vars, "orphan" \notin slip, NEW f \in Jobs \X Days
  PROVE  files'[f] = Torn \/ files[f].saved \subseteq files'[f].saved
<1>1. DOMAIN files = Jobs \X Days
  BY DEF Inv, Types, FilesOK
<1>2. CASE UNCHANGED files
  BY <1>2
<1>3. ASSUME NEW l \in Lanes, BenchLevel(l)
      PROVE  files'[f] = Torn \/ files[f].saved \subseteq files'[f].saved
  <2>1. PICK done, e : files' = [files EXCEPT ![FileOf(l)] = File("saved", done, lane[l].mem \cup e)]
    BY <1>3 DEF BenchLevel
  <2>2. Alive(l) /\ lane[l].step = "level"
    BY <1>3 DEF BenchLevel, Alive
  <2>3. files[FileOf(l)].saved \subseteq lane[l].mem
    BY <2>2, LaneKnows DEF Remembered, Clean
  <2>4. f # FileOf(l) => files'[f] = files[f]
    BY <1>1, <2>1
  <2>5. f = FileOf(l) => files'[f].saved = lane[l].mem \cup e
    BY <1>1, <2>1 DEF File
  <2> QED
    BY <2>3, <2>4, <2>5
<1>4. CASE Interrupt
  <2>1. UNCHANGED files \/ files' = [files EXCEPT ![FileOf(<<run, "a">>)] = Torn]
    BY <1>4 DEF Interrupt
  <2> QED
    BY <1>1, <2>1
<1>5. \/ UNCHANGED files \/ Interrupt \/ \E l \in Lanes : BenchLevel(l)
  <2>1. ASSUME NEW l \in Lanes, LaneStep(l) PROVE UNCHANGED files \/ BenchLevel(l)
    BY <2>1 DEF LaneStep, Skip, Clear, Drop, Apply, PodReady, PodNotReady, BenchLoad, BenchRaises
  <2>2. ASSUME NEW phase \in Phases, NEW n \in Nodes, Start(phase, n) PROVE UNCHANGED files
    BY <2>2 DEF Start
  <2>3. CASE StopProduction \/ StartPhaseA \/ Restore \/ SweepsEnd \/ NextDay
    BY <2>3 DEF StopProduction, StartPhaseA, Restore, SweepsEnd, NextDay
  <2>4. ASSUME NEW p \in Production \cup BenchPods, PodGoes(p) PROVE UNCHANGED files
    BY <2>4 DEF PodGoes
  <2>5. CASE UNCHANGED vars
    BY <2>5 DEF vars
  <2> QED
    BY <2>1, <2>2, <2>3, <2>4, <2>5 DEF Next
<1> QED
  BY <1>2, <1>3, <1>4, <1>5

LEMMA Measured ==
  ASSUME Told
  PROVE  OwnPod
BY DEF Told, FileTold, OwnPod, Clean

LEMMA Skipped ==
  ASSUME Inv, Told
  PROVE  SkipsOnlyTried
<1> SUFFICES ASSUME NEW j \in Jobs, Complete(j) PROVE {j} \X Cells(j) \subseteq tried
  BY DEF SkipsOnlyTried
<1> DEFINE ds == {d \in Days : files[j, d] # None}
<1>1. ds # {}
  BY DEF Complete, Oldest, None, File
<1>2. PICK d \in Days : d = Min(ds)
  <2>1. ds \in SUBSET Nat
    <3>1. Days \in SUBSET Nat
      BY BoundsAssumption DEF Days
    <3>2. ds \in SUBSET Days
      BY Zenon
    <3> HIDE DEF ds
    <3> QED
      BY <3>1, <3>2
  <2> HIDE DEF ds
  <2>2. Min(ds) \in ds
    BY <1>1, <2>1, MinIsLeft
  <2> QED
    BY <2>2 DEF ds
<1>3. files[<<j, d>>].kind = "saved" /\ files[<<j, d>>].done = Cardinality(Cells(j))
  BY <1>1, <1>2 DEF Complete, Oldest
<1>4. FileTold(<<j, d>>)
  BY DEF Told
<1> QED
  BY <1>3, <1>4 DEF FileTold

(* Whatever fails, dies or is interrupted: a saved level was measured on      *)
(* the pod of the job it is filed under and stays saved, and a job is skipped *)
(* only after each of its levels was tried (orchestrate.sh and bench.py).    *)
THEOREM Files == Spec => FilesTell
<1>1. Init => Inv /\ Told
  BY InitInv, InitTold
<1>2. Inv /\ Told /\ [Next]_vars => Inv' /\ Told'
  BY NextInv, NextTold
<1>3. Inv /\ Told => OwnPod /\ SkipsOnlyTried
  BY Measured, Skipped
<1>4. Inv /\ Told /\ [Next]_vars =>
        [\A f \in Jobs \X Days : files[f] # Torn =>
           \/ files'[f] = Torn \/ "orphan" \in slip
           \/ files[f].saved \subseteq files'[f].saved]_vars
  BY FilesStay
<1> QED
  BY <1>1, <1>2, <1>3, <1>4, PTL DEF Spec, FilesTell, SavedStays

=============================================================================
