----------------------- MODULE MeasurementMatrixProofs -----------------------
(***************************************************************************)
(* What is found in a directory is what its settings say, and nothing is   *)
(* measured twice, for any points, settings, families and starts.  Two     *)
(* processes write to the directory without a lock; the argument is that   *)
(* those that measure have different backends, so a point that one of them *)
(* measures stays without an export until that one writes it (Launched),   *)
(* and what a process has left behind it stays as it found it (Behind).    *)
(* Starts that overlap while they record have one configuration, or are    *)
(* raced (Recorded, Together).  What the aggregators report follows from   *)
(* this, from exports that are whole until something goes wrong (Whole),   *)
(* and from finite sets having a top.                                      *)
(***************************************************************************)
EXTENDS MeasurementMatrix, FiniteSetTheorems, WellFoundedInduction, TLAPS

Arms == {SettingTable[s].arm : s \in Settings} \cup {"", "gateway"}
Records == [arm : Arms, asked : Nat, completed : Nat, defect : Defects, figure : Figures]
Written == {e \in Records : e.arm # "" /\ e.completed <= e.asked}
Procs == [pc : {"idle", "recording", "next", "starting", "running", "complete"}, set : Settings \cup {""},
          given : SUBSET UNION {SettingTable[s].backends : s \in Settings}, dry : BOOLEAN,
          todo : SUBSET Points, checked : SUBSET Points, mem : SUBSET (Points \X Written)]

Types ==
  /\ family \in Families
  /\ disk \in [Points -> Written \cup {NoExport}]
  /\ command \in [Points -> Settings \cup {""}]
  /\ manifest \in Settings \cup {""}
  /\ proc \in [Lanes -> Procs] /\ \A l \in Lanes : proc[l].set \in family \cup {""}
  /\ torn \in BOOLEAN /\ raced \in BOOLEAN /\ crossed \in SUBSET Points
  /\ starts \in 0..MaxStarts /\ bad \in 0..MaxBad

\* A process has a point to go to until it is complete, of those it was given.
Under(l) ==
  proc[l].pc # "idle" =>
    /\ proc[l].set \in family /\ proc[l].todo \subseteq Selected(proc[l].set, proc[l].given)
    /\ (proc[l].todo = {}) <=> (proc[l].pc = "complete")
    /\ proc[l].pc = "recording" => Trait_(l).record # "none"
    /\ proc[l].pc = "starting" => proc[l].dry

\* A point being measured has no export yet, and the command of this measurement,
\* or that of the dry run that crossed it.
Launched(l) ==
  proc[l].pc = "running" =>
    /\ ~proc[l].dry
    /\ Trait_(l).found # "again" => ~Exists(Here(l))
    /\ Trait_(l).found \in {"exact", "least"} =>
         Here(l) \in crossed \/ command[Here(l)] = proc[l].set

Past(l) == Selected(proc[l].set, proc[l].given) \ proc[l].todo

\* The points behind a process are measured, on disk or in memory.
Behind(l) ==
  proc[l].pc # "idle" /\ ~proc[l].dry =>
    /\ Trait_(l).found \in {"exact", "least"} =>
         \A p \in Past(l) : Exists(p) /\ Valid(Trait_(l).found, disk[p], proc[l].set, p)
    /\ Trait_(l).store = "end" =>
         \A p \in Past(l) : IF proc[l].pc = "complete" THEN Exists(p)
                                                       ELSE \E x \in proc[l].mem : x[1] = p

\* It runs under the configuration that is recorded, once it has recorded it.
Recorded(l) ==
  ~raced /\ Running(l) /\ Trait_(l).record = "pinned" =>
    manifest = proc[l].set \/ (proc[l].pc = "recording" /\ manifest = "")

\* Starts that overlap while they record have one configuration.
Together ==
  ~raced => \A l, m \in Lanes : proc[l].pc = "recording" /\ proc[m].pc = "recording" =>
              proc[l].set = proc[m].set

LaneInv(l) == Under(l) /\ Launched(l) /\ Behind(l) /\ Recorded(l)

Apart ==
  \A l, m \in Lanes : l # m /\ Running(l) /\ Running(m) /\ ~proc[l].dry /\ ~proc[m].dry =>
    proc[l].given \cap proc[m].given = {}

Inv ==
  /\ Types /\ Apart /\ Together /\ (\A l \in Lanes : LaneInv(l))
  /\ OneConfiguration /\ CommandDescribesExport

-----------------------------------------------------------------------------
(* The constants                                                           *)

LEMMA TraitFacts ==
  ASSUME NEW s \in Settings
  PROVE  /\ Trait(s).found \in {"exact", "least"} =>
              /\ Trait(s).failed = "stop" /\ Trait(s).unready \in {"stop", "go"}
              /\ Trait(s).store = "each" /\ SettingTable[s].script # "pod"
         /\ Trait(s).store = "end" =>
              Trait(s).found = "again" /\ Trait(s).failed = "go" /\ Trait(s).unready = "go"
         /\ Trait(s).record = "pinned" => Trait(s).found = "exact"
         /\ Trait(s).split \in {"any", "one", "all"}
<1>1. SettingTable[s].script \in DOMAIN Traits
  BY SettingsAssumption
<1> QED
  BY <1>1 DEF Trait, Traits, Script, AiperfMatrix, Qwen3Matrix, PublicMatrix, FrameworkSweep,
       IslOslMatrix, ParetoV1, ParetoV2, BaselineMatrix, DynamoExact, HeteroMatrix, PodSweep,
       LlmdSweep, NemotronBench, Variant

LEMMA OneTrait ==
  ASSUME Types, NEW s \in family, NEW t \in family
  PROVE  s \in Settings /\ Trait(s) = Trait(t)
BY FamiliesAssumption DEF Types

\* The first of the points that are left is one of them.
LEMMA FirstIsLeft ==
  ASSUME NEW T \in SUBSET Points, T # {}
  PROVE  (CHOOSE p \in T : \A q \in T : Rank(p) <= Rank(q)) \in T
<1> DEFINE R == {Rank(p) : p \in T}
<1>1. R \subseteq Nat /\ R # {}
  BY PointsAssumption
<1>2. PICK n \in R : \A k \in R : ~(<<k, n>> \in OpToRel(<, Nat))
  BY <1>1, NatLessThanWellFounded, WFMin
<1>3. \A k \in R : n <= k
  <2> SUFFICES ASSUME NEW k \in R, ~(n <= k) PROVE FALSE
    OBVIOUS
  <2>1. k \in Nat /\ n \in Nat /\ k < n
    BY <1>1
  <2> QED
    BY <2>1, <1>2 DEF OpToRel
<1> QED
  BY <1>3

LEMMA HereIsLeft ==
  ASSUME Types, NEW l \in Lanes, Under(l), Running(l)
  PROVE  /\ Here(l) \in proc[l].todo /\ Here(l) \in Points
         /\ Here(l) \in Selected(proc[l].set, proc[l].given)
         /\ Backend(Here(l)) \in proc[l].given /\ proc[l].set \in Settings
<1>1. proc[l].todo \in SUBSET Points /\ proc[l].todo # {}
  BY DEF Types, Procs, Under, Running
<1>2. Here(l) \in proc[l].todo
  BY <1>1, FirstIsLeft DEF Here
<1> QED
  BY <1>1, <1>2, OneTrait DEF Under, Running, Selected

LEMMA ExportsWritten ==
  ASSUME NEW s \in Settings, NEW p \in Points, NEW e \in Exports(s, p)
  PROVE  e \in Written /\ (SettingTable[s].script # "pod" => e.arm = SettingTable[s].arm)
<1>1. RequestCount(s, Level(p)) \in Nat \ {0} /\ SettingTable[s].arm \notin {"", "gateway"}
  BY SettingsAssumption
<1> DEFINE n == RequestCount(s, Level(p))
<1>2. PICK a \in {SettingTable[s].arm} \cup (IF SettingTable[s].script = "pod" THEN {"gateway"} ELSE {}),
            c \in {n - 1, n}, d \in Defects, f \in Figures :
        e = [arm |-> a, asked |-> n, completed |-> c, defect |-> d, figure |-> f]
  BY DEF Exports
<1>3. a \in Arms /\ a # "" /\ (SettingTable[s].script # "pod" => a = SettingTable[s].arm)
  BY <1>1, <1>2 DEF Arms
<1>4. n \in Nat /\ c \in Nat /\ c <= n
  <2>1. n \in Nat \ {0}
    BY <1>1
  <2>2. c \in {n - 1, n}
    BY <1>2
  <2> HIDE DEF n
  <2>3. n \in Int /\ n > 0
    BY <2>1
  <2>4. CASE c = n
    BY <2>4, <2>3
  <2>5. CASE c = n - 1
    BY <2>5, <2>3
  <2> QED
    BY <2>2, <2>4, <2>5
<1>5. e \in Records /\ e.arm = a /\ e.completed = c /\ e.asked = n
  BY <1>2, <1>3, <1>4 DEF Records
<1> QED
  BY <1>3, <1>4, <1>5 DEF Written

LEMMA WrittenExists ==
  ASSUME NEW e \in Written
  PROVE  e # NoExport
<1>1. NoExport.arm = ""
  BY DEF NoExport
<1> QED
  BY <1>1 DEF Written

-----------------------------------------------------------------------------
(* A step of one process leaves the other alone: it writes only points of  *)
(* its own backends that have no export, unless its script measures anew.  *)
(* A dry run writes no export, and crosses what the other one measures.    *)

Crossing(l, p) ==
  \A m \in Lanes \ {l} : proc[m].pc = "running" /\ Here(m) = p =>
     command'[p] = proc[m].set \/ p \in crossed'
Confined(l) ==
  /\ family' = family /\ manifest' = manifest /\ raced' = raced
  /\ \A m \in Lanes \ {l} : proc'[m] = proc[m]
  /\ \A p \in Points :
       /\ \/ disk'[p] = disk[p]
          \/ /\ disk'[p] \in Written /\ ~proc[l].dry
             /\ Trait_(l).found = "again" \/ (~Exists(p) /\ Backend(p) \in proc[l].given)
       /\ \/ command'[p] = command[p]
          \/ Backend(p) \in proc[l].given /\ (proc[l].dry => Crossing(l, p))
       /\ p \in crossed => p \in crossed' \/ (~proc[l].dry /\ Backend(p) \in proc[l].given)

LEMMA OtherLane ==
  ASSUME Inv, NEW l \in Lanes, NEW m \in Lanes \ {l}, Running(l), Confined(l)
  PROVE  LaneInv(m)'
<1>1. proc'[m] = proc[m] /\ family' = family /\ manifest' = manifest /\ raced' = raced
  BY DEF Confined
<1>2. Running(m)' = Running(m) /\ Trait_(m)' = Trait_(m) /\ Here(m)' = Here(m) /\ Past(m)' = Past(m)
  BY <1>1 DEF Running, Trait_, Here, Past
<1>3. LaneInv(m) /\ LaneInv(l) /\ Types
  BY DEF Inv
<1>4. Under(m)' /\ Recorded(m)'
  BY <1>1, <1>2, <1>3 DEF LaneInv, Under, Recorded
<1>5. ASSUME proc[m].pc # "idle" PROVE Trait_(m) = Trait_(l) /\ proc[m].set \in Settings
  BY <1>3, <1>5, OneTrait DEF LaneInv, Under, Running, Trait_
<1>6. \A p \in Points : Exists(p) => Exists(p)'
  BY WrittenExists DEF Confined, Exists
<1>7. Launched(m)'
  <2> SUFFICES ASSUME proc[m].pc = "running" PROVE Launched(m)'
    BY <1>1 DEF Launched
  <2>1. Running(m) /\ ~proc[m].dry
    BY <1>3 DEF Running, LaneInv, Launched
  <2>2. /\ Here(m) \in Points
        /\ ~proc[l].dry => Backend(Here(m)) \notin proc[l].given
    BY <2>1, <1>3, HereIsLeft DEF Inv, Apart, LaneInv
  <2>3. \/ /\ command'[Here(m)] = command[Here(m)]
           /\ Here(m) \in crossed => Here(m) \in crossed'
        \/ command'[Here(m)] = proc[m].set \/ Here(m) \in crossed'
    BY <2>2 DEF Confined, Crossing
  <2>4. Trait_(m).found # "again" => disk'[Here(m)] = disk[Here(m)]
    BY <2>2, <1>5, <2>1 DEF Confined, Running
  <2> QED
    BY <2>3, <2>4, <1>1, <1>2, <1>3 DEF Launched, LaneInv, Exists
<1>8. Behind(m)'
  <2> SUFFICES ASSUME proc[m].pc # "idle", ~proc[m].dry PROVE Behind(m)'
    BY <1>1 DEF Behind
  <2>1. Past(m) \subseteq Points
    BY DEF Past, Selected
  <2>2. Trait_(m).found \in {"exact", "least"} =>
          \A p \in Past(m) : Exists(p) /\ disk'[p] = disk[p]
    BY <2>1, <1>3, <1>5 DEF Confined, LaneInv, Behind
  <2>3. Trait_(m).found \in {"exact", "least"} =>
          \A p \in Past(m) : Exists(p)' /\ Valid(Trait_(m).found, disk'[p], proc[m].set, p)
    BY <2>1, <2>2, <1>6, <1>3 DEF LaneInv, Behind
  <2>4. Trait_(m).store = "end" =>
         \A p \in Past(m) : IF proc[m].pc = "complete" THEN Exists(p)'
                                                       ELSE \E x \in proc[m].mem : x[1] = p
    BY <2>1, <1>6, <1>3 DEF LaneInv, Behind
  <2> QED
    BY <2>3, <2>4, <1>1, <1>2 DEF Behind
<1> QED
  BY <1>4, <1>7, <1>8 DEF LaneInv

\* What it writes where a script checks what it finds carries its name.
Labelled(l) ==
  Trait_(l).found \in {"exact", "least"} =>
    \A p \in Points :
      \/ /\ disk'[p] = disk[p]
         /\ \/ command'[p] = command[p] /\ (p \in crossed => p \in crossed')
            \/ ~Exists(p) \/ p \in crossed'
      \/ /\ disk'[p].arm = SettingTable[proc[l].set].arm
         /\ command'[p] = proc[l].set \/ p \in crossed'

\* A step that writes an export is not one of a process that has yet to record.
Measuring(l) == disk' = disk \/ proc[l].pc = "running"

LEMMA StepInv ==
  ASSUME Inv, NEW l \in Lanes, Running(l), Confined(l), Labelled(l), Measuring(l), Types', LaneInv(l)',
         proc'[l].given = proc[l].given, proc'[l].dry = proc[l].dry, proc'[l].set = proc[l].set,
         proc'[l].pc = "recording" => proc[l].pc = "recording"
  PROVE  Inv'
<1>1. Types /\ LaneInv(l) /\ family' = family /\ manifest' = manifest /\ raced' = raced
  BY DEF Inv, Confined
<1>2. proc[l].set \in family /\ proc[l].set \in Settings /\ "" \notin Settings
  BY <1>1, OneTrait, SettingsAssumption DEF LaneInv, Under, Running
<1>3. \A m \in Lanes : LaneInv(m)'
  BY OtherLane
<1>4. Apart' /\ Together'
  <2>1. \A m \in Lanes : /\ Running(m)' => Running(m)
                         /\ proc'[m].given = proc[m].given /\ proc'[m].dry = proc[m].dry
                         /\ proc'[m].pc = "recording" => proc[m].pc = "recording"
                         /\ proc'[m].set = proc[m].set
    BY DEF Confined, Running
  <2>2. Apart'
    BY <2>1 DEF Inv, Apart
  <2>3. Together'
    BY <1>1, <2>1 DEF Inv, Together
  <2> QED
    BY <2>2, <2>3
<1>5. OneConfiguration'
  <2> SUFFICES ASSUME ~raced, NEW s \in family, Trait(s).record = "pinned", NEW p \in Points, Exists(p)'
               PROVE  manifest # "" /\ disk'[p].arm = SettingTable[manifest].arm
    BY <1>1 DEF OneConfiguration
  <2>1. Trait_(l).record = "pinned" /\ Trait_(l).found = "exact"
    BY <1>1, <1>2, OneTrait, TraitFacts DEF Trait_
  <2>2. proc[l].pc = "running" => manifest = proc[l].set
    BY <1>1, <2>1 DEF LaneInv, Recorded
  <2>3. CASE disk'[p] = disk[p]
    BY <2>3 DEF Inv, OneConfiguration, Exists
  <2>4. CASE disk'[p].arm = SettingTable[proc[l].set].arm /\ proc[l].pc = "running"
    BY <2>2, <2>4, <1>2
  <2> QED
    BY <2>1, <2>3, <2>4 DEF Labelled, Measuring
<1>6. CommandDescribesExport'
  <2> SUFFICES ASSUME NEW s \in family, Trait(s).found \in {"exact", "least"},
                      NEW p \in Points, p \notin crossed', Exists(p)'
               PROVE  command'[p] # "" /\ SettingTable[command'[p]].arm = disk'[p].arm
    BY <1>1 DEF CommandDescribesExport, Checks
  <2>1. Trait_(l).found \in {"exact", "least"}
    BY <1>1, <1>2, OneTrait DEF Trait_
  <2>2. CASE /\ disk'[p] = disk[p]
             /\ \/ command'[p] = command[p] /\ (p \in crossed => p \in crossed')
                \/ ~Exists(p) \/ p \in crossed'
    <3>1. Exists(p) /\ p \notin crossed
      BY <2>2 DEF Exists
    <3> QED
      BY <2>2, <3>1 DEF Inv, CommandDescribesExport, Checks
  <2>3. CASE /\ disk'[p].arm = SettingTable[proc[l].set].arm
             /\ command'[p] = proc[l].set \/ p \in crossed'
    BY <2>3, <1>2
  <2> QED
    BY <2>1, <2>2, <2>3 DEF Labelled
<1> QED
  BY <1>3, <1>4, <1>5, <1>6 DEF Inv

-----------------------------------------------------------------------------
(* Where a step takes its process                                          *)

LEMMA Stopped ==
  ASSUME Types, NEW l \in Lanes, Goto(l, "idle")
  PROVE  /\ proc' \in [Lanes -> Procs] /\ \A m \in Lanes : proc'[m].set = proc[m].set
         /\ LaneInv(l)' /\ proc'[l].given = proc[l].given /\ proc'[l].dry = proc[l].dry
         /\ proc'[l].pc # "recording"
         /\ \A m \in Lanes \ {l} : proc'[m] = proc[m]
<1>1. proc[l] \in Procs /\ proc' = [proc EXCEPT ![l] = [@ EXCEPT !.pc = "idle"]]
  BY DEF Types, Goto
<1>2. [proc[l] EXCEPT !.pc = "idle"] \in Procs
  BY <1>1 DEF Procs
<1>3. proc'[l] = [proc[l] EXCEPT !.pc = "idle"] /\ proc'[l].pc = "idle"
  BY <1>1 DEF Types, Procs
<1> QED
  BY <1>1, <1>2, <1>3 DEF Types, Procs, LaneInv, Under, Launched, Behind, Recorded, Running

\* It goes on to the points in todo, having measured or found the others.
LEMMA Advanced ==
  ASSUME Inv, NEW l \in Lanes, Running(l), Confined(l),
         NEW todo \in SUBSET proc[l].todo, NEW mem \in SUBSET (Points \X Written),
         NextPoint(l, todo, mem), proc[l].pc # "recording",
         ~proc[l].dry /\ Trait_(l).found \in {"exact", "least"} =>
           \A p \in proc[l].todo \ todo :
              Exists(p)' /\ Valid(Trait_(l).found, disk'[p], proc[l].set, p),
         ~proc[l].dry /\ Trait_(l).store = "end" =>
           IF todo = {} THEN \A p \in Selected(proc[l].set, proc[l].given) : Exists(p)'
           ELSE \A p \in Selected(proc[l].set, proc[l].given) \ todo : \E x \in mem : x[1] = p
  PROVE  /\ proc' \in [Lanes -> Procs] /\ \A m \in Lanes : proc'[m].set = proc[m].set
         /\ LaneInv(l)' /\ proc'[l].given = proc[l].given /\ proc'[l].dry = proc[l].dry
         /\ proc'[l].pc # "recording"
<1> DEFINE pc == IF todo = {} THEN "complete" ELSE "next"
           new == [proc[l] EXCEPT !.todo = todo, !.mem = mem, !.pc = pc]
<1>1. proc[l] \in Procs /\ Under(l) /\ Behind(l) /\ Recorded(l) /\ Types
      /\ family' = family /\ manifest' = manifest /\ raced' = raced
      /\ proc[l].pc # "recording"
  BY DEF Inv, Types, LaneInv, Confined
<1>2. proc' = [proc EXCEPT ![l] = new]
  BY DEF NextPoint
<1>3. new \in Procs
  BY <1>1 DEF Procs
<1>4. /\ new.set = proc[l].set /\ new.given = proc[l].given /\ new.dry = proc[l].dry
      /\ new.todo = todo /\ new.mem = mem /\ new.pc = pc
  BY <1>1 DEF Procs
<1>5. proc' \in [Lanes -> Procs] /\ proc'[l] = new
  BY <1>1, <1>2, <1>3 DEF Types
<1>6. proc[l].pc # "idle" /\ pc # "idle" /\ pc # "running" /\ pc # "recording" /\ pc # "starting"
      /\ (pc = "complete" <=> todo = {})
  BY DEF Running
<1>7. Trait_(l)' = Trait_(l) /\ Past(l)' = Selected(proc[l].set, proc[l].given) \ todo
  BY <1>4, <1>5 DEF Trait_, Past
<1> HIDE DEF new, pc
<1>8. Under(l)' /\ Launched(l)'
  BY <1>1, <1>4, <1>5, <1>6 DEF Under, Launched
<1>9. Recorded(l)'
  BY <1>1, <1>4, <1>5, <1>7 DEF Recorded, Running
<1>10. Behind(l)'
  <2> SUFFICES ASSUME ~proc[l].dry PROVE Behind(l)'
    BY <1>4, <1>5 DEF Behind
  <2>1. ASSUME Trait_(l).found \in {"exact", "least"}, NEW p \in Past(l)'
        PROVE  Exists(p)' /\ Valid(Trait_(l).found, disk'[p], proc[l].set, p)
    <3>1. CASE p \in proc[l].todo
      BY <3>1, <2>1, <1>7
    <3>2. CASE p \notin proc[l].todo
      <4>1. p \in Points /\ Exists(p) /\ Valid(Trait_(l).found, disk[p], proc[l].set, p)
        BY <3>2, <2>1, <1>1, <1>6, <1>7 DEF Behind, Past, Selected
      <4>2. disk'[p] = disk[p]
        BY <4>1, <2>1 DEF Confined
      <4> QED
        BY <4>1, <4>2 DEF Exists
    <3> QED
      BY <3>1, <3>2
  <2>2. ASSUME Trait_(l).store = "end", NEW p \in Past(l)'
        PROVE  IF pc = "complete" THEN Exists(p)' ELSE \E x \in mem : x[1] = p
    BY <2>2, <1>6, <1>7
  <2> QED
    BY <2>1, <2>2, <1>4, <1>5, <1>7 DEF Behind
<1>11. \A m \in Lanes : proc'[m].set = proc[m].set
  BY <1>1, <1>2, <1>4 DEF Types
<1> QED
  BY <1>5, <1>4, <1>6, <1>8, <1>9, <1>10, <1>11 DEF LaneInv

-----------------------------------------------------------------------------
(* The steps                                                               *)

\* A step that writes nothing but the state of its process.
LEMMA Quiet ==
  ASSUME Inv, NEW l \in Lanes, Running(l), UNCHANGED <<family, disk, command, manifest, raced, crossed>>,
         \A m \in Lanes \ {l} : proc'[m] = proc[m]
  PROVE  Confined(l) /\ Labelled(l) /\ Measuring(l)
BY DEF Confined, Labelled, Measuring

LEMMA SplitFacts ==
  ASSUME NEW s \in Settings, NEW bs \in Splits(s)
  PROVE  bs \subseteq SettingTable[s].backends /\ Selected(s, bs) # {}
<1>1. bs \subseteq SettingTable[s].backends /\ bs # {}
  <2>1. Trait(s).split \in {"any", "one", "all"} /\ SettingTable[s].backends # {}
    BY TraitFacts, SettingsAssumption
  <2>2. CASE Trait(s).split = "any"
    <3>1. bs \in (SUBSET SettingTable[s].backends) \ {{}}
      BY <2>2 DEF Splits
    <3> QED
      BY <3>1
  <2>3. CASE Trait(s).split = "one"
    BY <2>3 DEF Splits
  <2>4. CASE Trait(s).split = "all"
    BY <2>4, <2>1 DEF Splits
  <2> QED
    BY <2>1, <2>2, <2>3, <2>4
<1>2. PICK b \in bs : b \in SettingTable[s].backends
  BY <1>1
<1>3. Selected(s, {b}) # {}
  BY <1>2, SettingsAssumption
<1> QED
  BY <1>1, <1>2, <1>3 DEF Selected

LEMMA StartInv ==
  ASSUME Inv, NEW l \in Lanes, NEW s \in family, NEW bs \in Splits(s), NEW dry \in BOOLEAN,
         Start(l, s, bs, dry)
  PROVE  Inv'
<1> DEFINE new == [pc |-> IF Trait(s).record = "none" THEN "next" ELSE "recording",
                   set |-> s, given |-> bs, dry |-> dry,
                   checked |-> {}, mem |-> {}, todo |-> Selected(s, bs)]
<1>1. /\ Types /\ proc' = [proc EXCEPT ![l] = new] /\ ~Running(l)
      /\ UNCHANGED <<family, disk, command, manifest, torn, crossed, bad>> /\ PinnedTo(s)
      /\ raced' = (raced \/ \E m \in Lanes \ {l} : proc[m].pc = "recording" /\ proc[m].set # s)
      /\ \A m \in Lanes \ {l} : Running(m) /\ ~dry /\ ~proc[m].dry => proc[m].given \cap bs = {}
  BY DEF Inv, Start
<1>2. s \in Settings /\ s # "" /\ bs \subseteq SettingTable[s].backends /\ Selected(s, bs) # {}
  BY <1>1, OneTrait, SplitFacts, SettingsAssumption
<1>3. new \in Procs
  BY <1>2 DEF Procs, Selected
<1>4. proc' \in [Lanes -> Procs] /\ proc'[l] = new /\ \A m \in Lanes \ {l} : proc'[m] = proc[m]
  BY <1>1, <1>3 DEF Types
<1>5. Types'
  <2>1. starts' \in 0..MaxStarts
    <3>1. starts \in 0..MaxStarts /\ starts < MaxStarts /\ starts' = starts + 1
      BY <1>1 DEF Start, Types
    <3> QED
      BY <3>1, BoundsAssumption
  <2> QED
    BY <1>1, <1>2, <1>4, <2>1 DEF Types
<1>6. /\ Trait(s).record = "pinned" => manifest \in {"", s}
      /\ ~raced' => ~raced /\ \A m \in Lanes \ {l} : proc[m].pc = "recording" => proc[m].set = s
  BY <1>1 DEF PinnedTo
<1>7. LaneInv(l)'
  <2>1. Under(l)' /\ Launched(l)'
    BY <1>1, <1>2, <1>4 DEF Under, Launched, Trait_
  <2>2. Past(l)' = {} /\ Trait_(l)' = Trait(s)
    BY <1>4 DEF Past, Trait_
  <2>3. Behind(l)'
    BY <2>2 DEF Behind
  <2>4. Recorded(l)'
    <3>1. proc'[l].set = s /\ (Trait(s).record = "pinned" => proc'[l].pc = "recording")
      BY <1>4
    <3> QED
      BY <3>1, <1>1, <1>6, <2>2 DEF Recorded
  <2> QED
    BY <2>1, <2>3, <2>4 DEF LaneInv
<1>8. ASSUME NEW m \in Lanes \ {l} PROVE LaneInv(m)'
  <2>1. LaneInv(m) /\ proc'[m] = proc[m] /\ UNCHANGED <<family, disk, command, crossed>>
    BY <1>1, <1>4 DEF Inv
  <2>2. /\ Running(m)' = Running(m) /\ Trait_(m)' = Trait_(m) /\ Here(m)' = Here(m)
        /\ Past(m)' = Past(m)
    BY <2>1 DEF Running, Trait_, Here, Past
  <2>3. Under(m)' /\ Launched(m)' /\ Behind(m)'
    BY <2>1, <2>2 DEF LaneInv, Under, Launched, Behind, Exists
  <2>4. Recorded(m)'
    BY <1>1, <1>6, <2>1, <2>2 DEF LaneInv, Recorded
  <2> QED
    BY <2>3, <2>4 DEF LaneInv
<1>9. Apart' /\ Together'
  <2>1. \A m \in Lanes \ {l} : Running(m)' = Running(m) /\ proc'[m] = proc[m]
    BY <1>4 DEF Running
  <2>2. proc'[l].given = bs /\ proc'[l].dry = dry /\ proc'[l].set = s
    BY <1>4
  <2>3. Apart'
    BY <1>1, <2>1, <2>2 DEF Inv, Apart
  <2>4. Together'
    <3> SUFFICES ASSUME ~raced', NEW m \in Lanes, proc'[m].pc = "recording" PROVE proc'[m].set = s
      BY DEF Together
    <3> QED
      BY <1>6, <2>1, <2>2
  <2> QED
    BY <2>3, <2>4
<1>10. OneConfiguration'
  BY <1>1, <1>6 DEF Inv, OneConfiguration, Exists
<1>11. CommandDescribesExport'
  BY <1>1 DEF Inv, CommandDescribesExport, Checks, Exists
<1> QED
  BY <1>5, <1>7, <1>8, <1>9, <1>10, <1>11 DEF Inv

\* The record is written: whoever else records or has recorded says the same.
LEMMA RecordInv ==
  ASSUME Inv, NEW l \in Lanes, Record(l)
  PROVE  Inv'
<1> DEFINE new == [proc[l] EXCEPT !.pc = "next"]
<1>1. /\ Types /\ LaneInv(l) /\ Running(l) /\ proc[l].pc = "recording" /\ manifest' = proc[l].set
      /\ proc' = [proc EXCEPT ![l] = new] /\ proc[l] \in Procs
      /\ UNCHANGED <<family, disk, command, torn, raced, crossed, starts, bad>>
  BY DEF Inv, Record, Running, Goto, Types, history
<1>2. proc[l].set \in family /\ proc[l].set \in Settings /\ proc[l].set # ""
  BY <1>1, OneTrait, SettingsAssumption DEF LaneInv, Under
<1>3. /\ new \in Procs /\ new.pc = "next" /\ new.set = proc[l].set /\ new.given = proc[l].given
      /\ new.dry = proc[l].dry /\ new.todo = proc[l].todo /\ new.mem = proc[l].mem
  BY <1>1 DEF Procs
<1> HIDE DEF new
<1>4. proc' \in [Lanes -> Procs] /\ proc'[l] = new /\ \A m \in Lanes \ {l} : proc'[m] = proc[m]
  BY <1>1, <1>3 DEF Types
<1>5. Types'
  BY <1>1, <1>2, <1>3, <1>4 DEF Types
<1>6. LaneInv(l)'
  <2>1. Trait_(l)' = Trait_(l) /\ Past(l)' = Past(l) /\ Running(l)'
    BY <1>3, <1>4 DEF Trait_, Past, Running
  <2>2. Under(l)' /\ Launched(l)' /\ Recorded(l)'
    BY <1>1, <1>3, <1>4, <2>1 DEF LaneInv, Under, Launched, Recorded
  <2>3. Behind(l)'
    BY <1>1, <1>3, <1>4, <2>1 DEF LaneInv, Behind, Exists
  <2> QED
    BY <2>2, <2>3 DEF LaneInv
<1>7. ASSUME NEW m \in Lanes \ {l} PROVE LaneInv(m)'
  <2>1. LaneInv(m) /\ proc'[m] = proc[m]
    BY <1>4 DEF Inv
  <2>2. /\ Running(m)' = Running(m) /\ Trait_(m)' = Trait_(m) /\ Here(m)' = Here(m)
        /\ Past(m)' = Past(m)
    BY <2>1 DEF Running, Trait_, Here, Past
  <2>3. Under(m)' /\ Launched(m)' /\ Behind(m)'
    BY <1>1, <2>1, <2>2 DEF LaneInv, Under, Launched, Behind, Exists
  <2>4. Recorded(m)'
    <3> SUFFICES ASSUME ~raced, Running(m), Trait_(m).record = "pinned" PROVE proc[l].set = proc[m].set
      BY <1>1, <2>1, <2>2 DEF Recorded
    <3>1. proc[m].set \in family /\ proc[m].set \in Settings /\ proc[m].set # ""
      BY <1>1, <2>1, OneTrait, SettingsAssumption DEF LaneInv, Under, Running
    <3>2. Trait_(l).record = "pinned"
      BY <1>1, <1>2, <3>1, OneTrait DEF Trait_
    <3>3. manifest \in {"", proc[l].set}
      BY <1>1, <3>2 DEF LaneInv, Recorded
    <3>4. CASE manifest = proc[m].set
      BY <3>1, <3>3, <3>4
    <3>5. CASE proc[m].pc = "recording"
      BY <1>1, <3>5 DEF Inv, Together
    <3> QED
      BY <2>1, <3>4, <3>5 DEF LaneInv, Recorded
  <2> QED
    BY <2>3, <2>4 DEF LaneInv
<1>8. Apart' /\ Together'
  <2>1. \A m \in Lanes : /\ Running(m)' = Running(m) /\ proc'[m].set = proc[m].set
                         /\ proc'[m].given = proc[m].given /\ proc'[m].dry = proc[m].dry
                         /\ proc'[m].pc = "recording" => proc[m].pc = "recording"
    BY <1>1, <1>3, <1>4 DEF Running
  <2>2. Apart'
    BY <2>1 DEF Inv, Apart
  <2>3. Together'
    BY <1>1, <2>1 DEF Inv, Together
  <2> QED
    BY <2>2, <2>3
<1>9. OneConfiguration'
  <2> SUFFICES ASSUME ~raced, NEW t \in family, Trait(t).record = "pinned", NEW p \in Points, Exists(p)
               PROVE  disk[p].arm = SettingTable[proc[l].set].arm
    BY <1>1, <1>2 DEF OneConfiguration, Exists
  <2>1. Trait_(l).record = "pinned"
    BY <1>1, <1>2, OneTrait DEF Trait_
  <2>2. manifest # "" /\ disk[p].arm = SettingTable[manifest].arm
    BY DEF Inv, OneConfiguration
  <2>3. manifest \in {"", proc[l].set}
    BY <1>1, <2>1 DEF LaneInv, Recorded
  <2> QED
    BY <2>2, <2>3
<1>10. CommandDescribesExport'
  BY <1>1 DEF Inv, CommandDescribesExport, Checks, Exists
<1> QED
  BY <1>5, <1>6, <1>7, <1>8, <1>9, <1>10 DEF Inv

LEMMA ReadyInv ==
  ASSUME Inv, NEW l \in Lanes, Ready(l)
  PROVE  Inv'
<1> DEFINE new == [proc[l] EXCEPT !.checked = proc[l].checked \cup Cell(l)]
<1>1. /\ Types /\ Running(l) /\ proc[l].pc = "next" /\ proc' = [proc EXCEPT ![l] = new]
      /\ UNCHANGED <<family, disk, command, manifest, torn, raced, crossed, starts, bad>>
  BY DEF Inv, Ready, Running, history
<1>2. new \in Procs
  <2>1. proc[l] \in Procs /\ proc[l].checked \cup Cell(l) \in SUBSET Points
    BY <1>1 DEF Types, Procs, Cell
  <2> HIDE DEF Cell
  <2> QED
    BY <2>1 DEF Procs
<1>3. /\ new.pc = "next" /\ new.set = proc[l].set /\ new.given = proc[l].given
      /\ new.dry = proc[l].dry /\ new.todo = proc[l].todo /\ new.mem = proc[l].mem
  BY <1>1 DEF Types, Procs
<1>4. proc' \in [Lanes -> Procs] /\ proc'[l] = new /\ \A m \in Lanes \ {l} : proc'[m] = proc[m]
  BY <1>1, <1>2 DEF Types
<1>5. Types'
  BY <1>1, <1>3, <1>4 DEF Types
<1>6. Confined(l) /\ Labelled(l) /\ Measuring(l)
  BY <1>1, <1>4, Quiet
<1>7. LaneInv(l)'
  <2>1. Trait_(l)' = Trait_(l) /\ Past(l)' = Past(l) /\ Running(l)'
    BY <1>1, <1>3, <1>4 DEF Trait_, Past, Running
  <2> HIDE DEF new
  <2>2. LaneInv(l)
    BY DEF Inv
  <2>3. Under(l)' /\ Launched(l)' /\ Recorded(l)'
    BY <1>1, <1>3, <1>4, <2>1, <2>2 DEF LaneInv, Under, Launched, Recorded
  <2>4. Behind(l)'
    BY <1>1, <1>3, <1>4, <2>1, <2>2 DEF LaneInv, Behind, Exists
  <2> QED
    BY <2>3, <2>4 DEF LaneInv
<1> QED
  BY <1>1, <1>3, <1>4, <1>5, <1>6, <1>7, StepInv

\* A step that ends the process and writes nothing.
LEMMA StopInv ==
  ASSUME Inv, NEW l \in Lanes, Running(l), Goto(l, "idle"),
         UNCHANGED <<family, disk, command, manifest, raced, crossed, starts>>,
         torn' \in BOOLEAN, bad' \in 0..MaxBad
  PROVE  Inv'
<1>1. Types
  BY DEF Inv
<1>2. /\ proc' \in [Lanes -> Procs] /\ \A m \in Lanes : proc'[m].set = proc[m].set
      /\ LaneInv(l)' /\ proc'[l].given = proc[l].given /\ proc'[l].dry = proc[l].dry
      /\ proc'[l].pc # "recording"
      /\ \A m \in Lanes \ {l} : proc'[m] = proc[m]
  BY <1>1, Stopped
<1>3. Types'
  BY <1>1, <1>2 DEF Types
<1>4. Confined(l) /\ Labelled(l) /\ Measuring(l)
  BY <1>2, Quiet
<1> QED
  BY <1>2, <1>3, <1>4, StepInv

LEMMA UnreadyInv ==
  ASSUME Inv, NEW l \in Lanes, Unready(l)
  PROVE  Inv'
<1>1. /\ Types /\ Under(l) /\ Running(l) /\ proc[l] \in Procs /\ proc[l].pc # "recording"
      /\ UNCHANGED <<family, disk, command, manifest, torn, raced, crossed, starts>>
  BY DEF Inv, LaneInv, Types, Unready, Running, history
<1>2. bad' \in 0..MaxBad /\ torn' \in BOOLEAN
  <2>1. bad \in 0..MaxBad /\ bad < MaxBad /\ bad' = bad + 1 /\ torn' \in BOOLEAN
    BY <1>1 DEF Unready, Types
  <2>2. bad' \in 0..MaxBad
    BY <2>1, BoundsAssumption
  <2> QED
    BY <2>1, <2>2
<1>3. CASE Trait_(l).unready = "stop"
  BY <1>1, <1>2, <1>3, StopInv DEF Unready
<1>4. CASE Trait_(l).unready # "stop"
  <2> DEFINE todo == proc[l].todo \ Cell(l)
  <2>1. NextPoint(l, todo, proc[l].mem)
    BY <1>4 DEF Unready, Drop
  <2>2. proc[l].set \in Settings /\ Trait_(l) = Trait(proc[l].set)
    BY <1>1, OneTrait DEF Under, Running, Trait_
  <2>3. \A m \in Lanes \ {l} : proc'[m] = proc[m]
    BY <1>1, <2>1 DEF NextPoint, Types
  <2>4. Confined(l) /\ Labelled(l) /\ Measuring(l)
    BY <1>1, <2>3, Quiet
  <2>5. ~proc[l].dry => Trait_(l).found \notin {"exact", "least"} /\ Trait_(l).store # "end"
    <3> SUFFICES ASSUME ~proc[l].dry, Trait_(l).unready = "go" PROVE FALSE
      BY <1>4, <2>2, TraitFacts
    <3> QED
      BY DEF Unready, Checked
  <2>6. todo \in SUBSET proc[l].todo /\ proc[l].mem \in SUBSET (Points \X Written)
    BY <1>1 DEF Procs
  <2> HIDE DEF todo
  <2>7. /\ proc' \in [Lanes -> Procs] /\ \A m \in Lanes : proc'[m].set = proc[m].set
        /\ LaneInv(l)' /\ proc'[l].given = proc[l].given /\ proc'[l].dry = proc[l].dry
        /\ proc'[l].pc # "recording"
    BY <1>1, <2>1, <2>4, <2>5, <2>6, Advanced
  <2>8. Types'
    BY <1>1, <1>2, <2>7 DEF Types
  <2> QED
    BY <1>1, <2>4, <2>7, <2>8, StepInv
<1> QED
  BY <1>3, <1>4

\* The step from a point to the next, when nothing is written.
LEMMA PassInv ==
  ASSUME Inv, NEW l \in Lanes, Running(l), proc[l].pc # "recording", Drop(l, Rest(l)),
         UNCHANGED <<family, disk, manifest, torn, raced, starts, bad>>,
         command' \in [Points -> Settings \cup {""}],
         crossed' \in SUBSET Points, crossed \subseteq crossed',
         \A p \in Points : \/ command'[p] = command[p]
                           \/ /\ p = Here(l) /\ Crossing(l, p)
                              /\ ~Exists(p) \/ p \in crossed',
         proc[l].dry \/ (/\ Trait_(l).found # "again" /\ Exists(Here(l))
                         /\ Valid(Trait_(l).found, disk[Here(l)], proc[l].set, Here(l)))
  PROVE  Inv'
<1>1. Types /\ Under(l) /\ proc[l] \in Procs
  BY DEF Inv, LaneInv, Types
<1>2. /\ Here(l) \in proc[l].todo /\ Backend(Here(l)) \in proc[l].given
      /\ proc[l].set \in Settings /\ Trait_(l) = Trait(proc[l].set)
  BY <1>1, HereIsLeft DEF Trait_
<1>3. NextPoint(l, Rest(l), proc[l].mem)
  BY DEF Drop
<1>4. \A m \in Lanes \ {l} : proc'[m] = proc[m]
  BY <1>1, <1>3 DEF NextPoint, Types
<1>5. Confined(l) /\ Labelled(l) /\ Measuring(l)
  BY <1>2, <1>4 DEF Confined, Labelled, Measuring
<1>6. Rest(l) \in SUBSET proc[l].todo /\ proc[l].mem \in SUBSET (Points \X Written)
  BY <1>1 DEF Procs, Rest
<1>7. \A p \in proc[l].todo \ Rest(l) : p = Here(l)
  BY DEF Rest
<1>8. ~proc[l].dry => Trait_(l).store # "end"
  BY <1>2, TraitFacts
<1>9. ~proc[l].dry /\ Trait_(l).found \in {"exact", "least"} =>
        \A p \in proc[l].todo \ Rest(l) :
           Exists(p)' /\ Valid(Trait_(l).found, disk'[p], proc[l].set, p)
  BY <1>7 DEF Exists
<1>10. /\ proc' \in [Lanes -> Procs] /\ \A m \in Lanes : proc'[m].set = proc[m].set
       /\ LaneInv(l)' /\ proc'[l].given = proc[l].given /\ proc'[l].dry = proc[l].dry
       /\ proc'[l].pc # "recording"
  BY <1>3, <1>5, <1>6, <1>8, <1>9, Advanced
<1>11. Types'
  BY <1>1, <1>10 DEF Types
<1> QED
  BY <1>5, <1>10, <1>11, StepInv

LEMMA ResumeInv ==
  ASSUME Inv, NEW l \in Lanes, Resume(l)
  PROVE  Inv'
<1>1. /\ Types /\ Running(l) /\ proc[l].set \in Settings /\ proc[l].pc # "recording"
      /\ UNCHANGED <<family, disk, command, manifest, torn, raced, crossed, starts, bad>>
  BY HereIsLeft DEF Inv, LaneInv, Resume, Running, history
<1>2. CASE Accepts(l) /\ Drop(l, Rest(l))
  BY <1>1, <1>2, PassInv DEF Accepts, Types
<1>3. CASE Rejects(l) /\ Goto(l, "idle")
  BY <1>1, <1>3, StopInv DEF Types
<1> QED
  BY <1>2, <1>3 DEF Resume

LEMMA CommandWritten ==
  ASSUME Inv, NEW l \in Lanes, Running(l), command' \in {command, Command(l)}
  PROVE  /\ command' \in [Points -> Settings \cup {""}]
         /\ \A p \in Points : command'[p] = command[p] \/ (p = Here(l) /\ command'[p] = proc[l].set)
         /\ Trait_(l).found \in {"exact", "least"} /\ command' = Command(l) =>
              command'[Here(l)] = proc[l].set
<1>1. Here(l) \in Points /\ proc[l].set \in Settings /\ command \in [Points -> Settings \cup {""}]
  BY HereIsLeft DEF Inv, LaneInv, Types
<1> QED
  BY <1>1 DEF Command

LEMMA LaunchInv ==
  ASSUME Inv, NEW l \in Lanes, Launch(l)
  PROVE  Inv'
<1> DEFINE pc == IF proc[l].dry THEN "starting" ELSE "running"
           new == [proc[l] EXCEPT !.pc = pc]
<1>1. /\ Types /\ LaneInv(l) /\ Running(l) /\ proc[l].pc = "next" /\ Measures(l)
      /\ UNCHANGED <<family, disk, manifest, torn, raced, starts, bad>>
      /\ proc' = [proc EXCEPT ![l] = new] /\ proc[l] \in Procs
  BY DEF Inv, Types, Launch, Running, Goto
<1>2. /\ Here(l) \in Points /\ Backend(Here(l)) \in proc[l].given /\ proc[l].set \in Settings
  BY <1>1, HereIsLeft DEF LaneInv
<1>3. IF proc[l].dry THEN command' = command /\ crossed' = crossed
                     ELSE command' = Command(l) /\ crossed' = crossed \ {Here(l)}
  BY DEF Launch
<1>4. /\ command' \in [Points -> Settings \cup {""}]
      /\ \A p \in Points : command'[p] = command[p] \/ (p = Here(l) /\ command'[p] = proc[l].set)
      /\ Trait_(l).found \in {"exact", "least"} /\ ~proc[l].dry => command'[Here(l)] = proc[l].set
  BY <1>1, <1>3, CommandWritten
<1>5. /\ new \in Procs /\ new.set = proc[l].set /\ new.given = proc[l].given /\ new.pc = pc
      /\ new.dry = proc[l].dry /\ new.todo = proc[l].todo /\ new.mem = proc[l].mem
  BY <1>1 DEF Procs
<1> HIDE DEF new
<1>6. proc' \in [Lanes -> Procs] /\ proc'[l] = new /\ \A m \in Lanes \ {l} : proc'[m] = proc[m]
  BY <1>1, <1>5 DEF Types
<1>7. Types'
  BY <1>1, <1>3, <1>4, <1>5, <1>6 DEF Types
<1>8. Trait_(l).found \in {"exact", "least"} => ~Exists(Here(l))
  BY <1>1 DEF Measures
<1>9. Confined(l) /\ Labelled(l) /\ Measuring(l)
  BY <1>1, <1>2, <1>3, <1>4, <1>6, <1>8 DEF Confined, Labelled, Measuring
<1>10. Trait_(l)' = Trait_(l) /\ Past(l)' = Past(l) /\ Here(l)' = Here(l) /\ Running(l)'
  BY <1>5, <1>6 DEF Trait_, Past, Here, Running
<1>11. Under(l)' /\ Recorded(l)'
  BY <1>1, <1>5, <1>6, <1>10 DEF LaneInv, Under, Recorded
<1>12. Launched(l)'
  BY <1>1, <1>4, <1>5, <1>6, <1>10 DEF Launched, Measures, Exists
<1>13. Behind(l)'
  BY <1>1, <1>5, <1>6, <1>10 DEF LaneInv, Behind, Exists
<1>14. LaneInv(l)'
  BY <1>11, <1>12, <1>13 DEF LaneInv
<1> QED
  BY <1>1, <1>5, <1>6, <1>7, <1>9, <1>14, StepInv

\* A dry run writes a command, and the point is crossed if it was another one.
LEMMA DryRunInv ==
  ASSUME Inv, NEW l \in Lanes, DryRun(l)
  PROVE  Inv'
<1>1. /\ Types /\ LaneInv(l) /\ Running(l) /\ proc[l].pc = "starting" /\ proc[l].dry
      /\ UNCHANGED <<family, disk, manifest, torn, raced, starts, bad>>
      /\ Drop(l, Rest(l)) /\ crossed' = crossed \cup Crosses(l) /\ command' = Command(l)
  BY DEF Inv, LaneInv, Under, DryRun, Running
<1>2. Here(l) \in Points
  BY <1>1, HereIsLeft DEF LaneInv
<1>3. crossed' \in SUBSET Points /\ crossed \subseteq crossed'
  BY <1>1, <1>2 DEF Crosses, Types
<1>4. /\ command' \in [Points -> Settings \cup {""}]
      /\ \A p \in Points : command'[p] = command[p] \/ (p = Here(l) /\ command'[p] = proc[l].set)
  BY <1>1, CommandWritten
<1>5. ASSUME command'[Here(l)] = proc[l].set, command'[Here(l)] # command[Here(l)]
      PROVE  Crossing(l, Here(l)) /\ (~Exists(Here(l)) \/ Here(l) \in crossed')
  BY <1>1, <1>5 DEF Crossing, Crosses
<1>6. \A p \in Points : \/ command'[p] = command[p]
                        \/ /\ p = Here(l) /\ Crossing(l, p)
                           /\ ~Exists(p) \/ p \in crossed'
  BY <1>4, <1>5
<1> QED
  BY <1>1, <1>3, <1>4, <1>6, PassInv

LEMMA InterruptInv ==
  ASSUME Inv, NEW l \in Lanes, Interrupt(l)
  PROVE  Inv'
<1>1. /\ Types /\ Running(l) /\ Goto(l, "idle")
      /\ UNCHANGED <<family, disk, command, manifest, raced, crossed, starts>>
  BY DEF Inv, Interrupt, history
<1>2. bad' \in 0..MaxBad
  <2>1. bad \in 0..MaxBad /\ bad < MaxBad /\ bad' = bad + 1
    BY <1>1 DEF Interrupt, Types
  <2> QED
    BY <2>1, BoundsAssumption
<1>3. torn' \in BOOLEAN
  BY <1>1 DEF Interrupt, Types
<1> QED
  BY <1>1, <1>2, <1>3, StopInv

\* What Saved may do to a directory: the point itself, or all that is in memory.
LEMMA SavedWritten ==
  ASSUME Inv, NEW l \in Lanes, proc[l].pc = "running",
         NEW e \in Exports(proc[l].set, Here(l))
  PROVE  /\ e \in Written /\ Kept(l, e) \in SUBSET (Points \X Written)
         /\ Saved(l, e) \in [Points -> Written \cup {NoExport}]
         /\ Trait_(l).store # "end" =>
              \A p \in Points : Saved(l, e)[p] = IF p = Here(l) THEN e ELSE disk[p]
         /\ \A p \in Points : Saved(l, e)[p] = disk[p] \/ Saved(l, e)[p] \in Written
         /\ Trait_(l).store = "end" /\ Rest(l) = {} =>
              \A x \in proc[l].mem \cup {<<Here(l), e>>} : Saved(l, e)[x[1]] \in Written
<1>1. Types /\ Under(l) /\ Running(l) /\ proc[l].mem \in SUBSET (Points \X Written)
      /\ disk \in [Points -> Written \cup {NoExport}]
  BY DEF Inv, LaneInv, Running, Types, Procs
<1>2. Here(l) \in Points /\ proc[l].set \in Settings
  BY <1>1, HereIsLeft
<1>3. e \in Written
  BY <1>2, ExportsWritten
<1> DEFINE mem == proc[l].mem \cup {<<Here(l), e>>}
           Of(p) == CHOOSE x \in mem : x[1] = p
<1>4. mem \in SUBSET (Points \X Written)
  BY <1>1, <1>2, <1>3
<1>5. Kept(l, e) \in SUBSET (Points \X Written)
  BY <1>4 DEF Kept
<1>6. ASSUME NEW p, \E x \in mem : x[1] = p PROVE Of(p)[2] \in Written
  <2>1. Of(p) \in mem
    BY <1>6
  <2> HIDE DEF Of, mem
  <2> QED
    BY <2>1, <1>4
<1>7. CASE Trait_(l).store # "end"
  <2>1. Saved(l, e) = [disk EXCEPT ![Here(l)] = e]
    BY <1>7 DEF Saved
  <2> QED
    BY <1>1, <1>2, <1>3, <1>5, <1>7, <2>1
<1>8. CASE Trait_(l).store = "end" /\ Rest(l) = {}
  <2>1. Saved(l, e) = [p \in Points |-> IF \E x \in mem : x[1] = p THEN Of(p)[2] ELSE disk[p]]
    BY <1>8 DEF Saved
  <2> HIDE DEF mem, Of
  <2>2. \A p \in Points : Saved(l, e)[p] = IF \E x \in mem : x[1] = p THEN Of(p)[2] ELSE disk[p]
    BY <2>1
  <2>3. \A p \in Points : Saved(l, e)[p] = disk[p] \/ Saved(l, e)[p] \in Written
    BY <2>2, <1>6
  <2>4. Saved(l, e) \in [Points -> Written \cup {NoExport}]
    BY <2>1, <2>3, <1>1
  <2>5. \A x \in mem : x[1] \in Points /\ Saved(l, e)[x[1]] \in Written
    BY <2>2, <1>4, <1>6
  <2> QED
    BY <1>3, <1>5, <1>8, <2>3, <2>4, <2>5 DEF mem
<1>9. CASE Trait_(l).store = "end" /\ Rest(l) # {}
  <2>1. Saved(l, e) = disk
    BY <1>9 DEF Saved
  <2> QED
    BY <1>1, <1>3, <1>5, <1>9, <2>1
<1> QED
  BY <1>7, <1>8, <1>9

LEMMA BadBounded ==
  ASSUME Types, bad' \in {bad, bad + 1}, bad' <= MaxBad
  PROVE  bad' \in 0..MaxBad
<1>1. bad \in 0..MaxBad
  BY DEF Types
<1> QED
  BY <1>1, BoundsAssumption

LEMMA MeasuredInv ==
  ASSUME Inv, NEW l \in Lanes, Measured(l)
  PROVE  Inv' /\ Running(l) /\ Confined(l)
<1>1. /\ Types /\ LaneInv(l) /\ proc[l].pc = "running" /\ Running(l)
      /\ UNCHANGED <<family, command, manifest, torn, raced, crossed, starts>>
  BY DEF Inv, Measured, Running, history
<1>2. PICK e \in Exports(proc[l].set, Here(l)) :
        /\ bad' = (IF Good(e) THEN bad ELSE bad + 1) /\ bad' <= MaxBad
        /\ disk' = Saved(l, e)
        /\ IF Valid(Trait_(l).found, e, proc[l].set, Here(l))
           THEN NextPoint(l, Rest(l), Kept(l, e)) ELSE Goto(l, "idle")
  BY DEF Measured
<1>3. /\ Here(l) \in Points /\ Backend(Here(l)) \in proc[l].given /\ proc[l].set \in Settings
      /\ Here(l) \in proc[l].todo /\ Trait_(l) = Trait(proc[l].set)
      /\ Here(l) \in Selected(proc[l].set, proc[l].given)
  BY <1>1, HereIsLeft DEF LaneInv, Trait_
<1>4. bad' \in 0..MaxBad
  BY <1>1, <1>2, BadBounded
<1>5. /\ e \in Written /\ Kept(l, e) \in SUBSET (Points \X Written)
      /\ disk' \in [Points -> Written \cup {NoExport}]
      /\ Trait_(l).store # "end" => \A p \in Points : disk'[p] = IF p = Here(l) THEN e ELSE disk[p]
      /\ \A p \in Points : disk'[p] = disk[p] \/ disk'[p] \in Written
      /\ Trait_(l).store = "end" /\ Rest(l) = {} =>
           \A x \in proc[l].mem \cup {<<Here(l), e>>} : disk'[x[1]] \in Written
  BY <1>1, <1>2, SavedWritten
<1>6. SettingTable[proc[l].set].script # "pod" => e.arm = SettingTable[proc[l].set].arm
  BY <1>3, ExportsWritten
<1>7. /\ ~proc[l].dry
      /\ Trait_(l).found # "again" => ~Exists(Here(l))
      /\ Trait_(l).found \in {"exact", "least"} =>
           Here(l) \in crossed \/ command[Here(l)] = proc[l].set
  BY <1>1 DEF LaneInv, Launched
<1>8. \A m \in Lanes \ {l} : proc'[m] = proc[m]
  BY <1>1, <1>2 DEF NextPoint, Goto, Types
<1>9. Confined(l)
  <2>1. Trait_(l).store = "end" => Trait_(l).found = "again"
    BY <1>3, TraitFacts
  <2>2. ASSUME NEW p \in Points
        PROVE  \/ disk'[p] = disk[p]
               \/ /\ disk'[p] \in Written
                  /\ Trait_(l).found = "again" \/ (~Exists(p) /\ Backend(p) \in proc[l].given)
    BY <1>1, <1>3, <1>5, <2>1 DEF LaneInv, Launched
  <2> QED
    BY <1>1, <1>7, <1>8, <2>2 DEF Confined
<1>10. Labelled(l) /\ Measuring(l)
  <2>1. Trait_(l).found \in {"exact", "least"} =>
          Trait_(l).store # "end" /\ SettingTable[proc[l].set].script # "pod"
    BY <1>3, TraitFacts
  <2> QED
    BY <1>1, <1>3, <1>5, <1>6, <1>7, <2>1 DEF Labelled, Measuring
<1>11. /\ proc' \in [Lanes -> Procs] /\ \A m \in Lanes : proc'[m].set = proc[m].set
       /\ LaneInv(l)' /\ proc'[l].given = proc[l].given /\ proc'[l].dry = proc[l].dry
       /\ proc'[l].pc # "recording"
  <2>1. CASE ~Valid(Trait_(l).found, e, proc[l].set, Here(l))
    BY <1>1, <1>2, <2>1, Stopped
  <2>2. CASE Valid(Trait_(l).found, e, proc[l].set, Here(l))
    <3>1. NextPoint(l, Rest(l), Kept(l, e)) /\ Rest(l) \in SUBSET proc[l].todo
      BY <1>2, <2>2 DEF Rest
    <3>2. \A p \in proc[l].todo : p \in Rest(l) \/ p = Here(l)
      BY DEF Rest
    <3>3. Trait_(l).found \in {"exact", "least"} =>
            \A p \in proc[l].todo \ Rest(l) :
              Exists(p)' /\ Valid(Trait_(l).found, disk'[p], proc[l].set, p)
      <4>1. Trait_(l).found \in {"exact", "least"} => Trait_(l).store # "end"
        BY <1>3, TraitFacts
      <4>2. Trait_(l).store # "end" => disk'[Here(l)] = e
        BY <1>3, <1>5
      <4> QED
        BY <4>1, <4>2, <3>2, <2>2, <1>5, WrittenExists DEF Exists
    <3>4. Trait_(l).store = "end" =>
            IF Rest(l) = {} THEN \A p \in Selected(proc[l].set, proc[l].given) : Exists(p)'
            ELSE \A p \in Selected(proc[l].set, proc[l].given) \ Rest(l) :
                   \E x \in Kept(l, e) : x[1] = p
      <4> SUFFICES ASSUME Trait_(l).store = "end"
                   PROVE  IF Rest(l) = {} THEN \A p \in Selected(proc[l].set, proc[l].given) : Exists(p)'
                          ELSE \A p \in Selected(proc[l].set, proc[l].given) \ Rest(l) :
                                 \E x \in Kept(l, e) : x[1] = p
        OBVIOUS
      <4>1. Kept(l, e) = proc[l].mem \cup {<<Here(l), e>>}
        BY DEF Kept
      <4>2. ASSUME NEW p \in Selected(proc[l].set, proc[l].given) \ Rest(l)
            PROVE  \E x \in Kept(l, e) : x[1] = p
        <5>1. CASE p = Here(l)
          <6>1. <<Here(l), e>> \in Kept(l, e) /\ <<Here(l), e>>[1] = p
            BY <5>1, <4>1
          <6> QED
            BY <6>1
        <5>2. CASE p # Here(l)
          <6>1. p \in Past(l)
            BY <5>2, <3>2 DEF Past
          <6>2. \E x \in proc[l].mem : x[1] = p
            <7>1. Behind(l) /\ proc[l].pc # "idle" /\ proc[l].pc # "complete" /\ ~proc[l].dry
              BY <1>1 DEF LaneInv, Launched
            <7> QED
              BY <6>1, <7>1 DEF Behind
          <6> QED
            BY <6>2, <4>1
        <5> QED
          BY <5>1, <5>2
      <4>3. ASSUME Rest(l) = {}, NEW p \in Selected(proc[l].set, proc[l].given)
            PROVE  Exists(p)'
        <5>1. PICK x \in Kept(l, e) : x[1] = p
          BY <4>2, <4>3
        <5>2. disk'[p] \in Written
          BY <5>1, <4>1, <4>3, <1>5
        <5> QED
          BY <5>2, WrittenExists DEF Exists
      <4> QED
        BY <4>2, <4>3
    <3> QED
      BY <1>1, <1>5, <1>9, <3>1, <3>3, <3>4, Advanced
  <2> QED
    BY <2>1, <2>2
<1>12. Types'
  BY <1>1, <1>4, <1>5, <1>11 DEF Types
<1> QED
  BY <1>1, <1>9, <1>10, <1>11, <1>12, StepInv

LEMMA FailedInv ==
  ASSUME Inv, NEW l \in Lanes, Failed(l)
  PROVE  Inv' /\ Running(l) /\ Confined(l)
<1>1. /\ Types /\ LaneInv(l) /\ proc[l].pc = "running" /\ Running(l)
      /\ UNCHANGED <<family, command, manifest, torn, raced, crossed, starts>>
      /\ bad < MaxBad /\ bad' = bad + 1 /\ disk \in [Points -> Written \cup {NoExport}]
  BY DEF Inv, Failed, Running, Types, history
<1>2. /\ Here(l) \in Points /\ Backend(Here(l)) \in proc[l].given /\ proc[l].set \in Settings
      /\ Trait_(l) = Trait(proc[l].set)
  BY <1>1, HereIsLeft DEF LaneInv, Trait_
<1>3. bad' \in 0..MaxBad
  <2>1. bad \in 0..MaxBad
    BY <1>1 DEF Types
  <2> QED
    BY <1>1, <2>1, BoundsAssumption
<1>4. /\ ~proc[l].dry
      /\ Trait_(l).found # "again" => ~Exists(Here(l))
      /\ Trait_(l).found \in {"exact", "least"} =>
           Here(l) \in crossed \/ command[Here(l)] = proc[l].set
  BY <1>1 DEF LaneInv, Launched
<1>5. \A m \in Lanes \ {l} : proc'[m] = proc[m]
  BY <1>1 DEF Failed, Drop, NextPoint, Goto, Types
<1>6. /\ disk' \in [Points -> Written \cup {NoExport}]
      /\ \/ disk' = disk
         \/ /\ disk'[Here(l)] \in Written
            /\ SettingTable[proc[l].set].script # "pod" =>
                 disk'[Here(l)].arm = SettingTable[proc[l].set].arm
            /\ \A p \in Points \ {Here(l)} : disk'[p] = disk[p]
  <2>1. CASE disk' = disk
    BY <1>1, <2>1
  <2>2. CASE disk' # disk
    <3>1. PICK e \in Exports(proc[l].set, Here(l)) : disk' = [disk EXCEPT ![Here(l)] = e]
      BY <2>2 DEF Failed
    <3>2. e \in Written /\ (SettingTable[proc[l].set].script # "pod" =>
                              e.arm = SettingTable[proc[l].set].arm)
      BY <1>2, ExportsWritten
    <3> QED
      BY <1>1, <1>2, <3>1, <3>2
  <2> QED
    BY <2>1, <2>2
<1>7. Confined(l)
  BY <1>1, <1>2, <1>4, <1>5, <1>6 DEF Confined
<1>8. Labelled(l) /\ Measuring(l)
  <2>1. Trait_(l).found \in {"exact", "least"} => SettingTable[proc[l].set].script # "pod"
    BY <1>2, TraitFacts
  <2> QED
    BY <1>1, <1>4, <1>6, <2>1 DEF Labelled, Measuring
<1>9. /\ proc' \in [Lanes -> Procs] /\ \A m \in Lanes : proc'[m].set = proc[m].set
      /\ LaneInv(l)' /\ proc'[l].given = proc[l].given /\ proc'[l].dry = proc[l].dry
      /\ proc'[l].pc # "recording"
  <2>1. CASE Goto(l, "idle")
    BY <1>1, <2>1, Stopped
  <2>2. CASE /\ Trait_(l).failed \in {"go", "either"} /\ Trait_(l).store # "end"
             /\ Drop(l, Rest(l))
    <3>1. NextPoint(l, Rest(l), proc[l].mem) /\ Rest(l) \in SUBSET proc[l].todo
      BY <2>2 DEF Drop, Rest
    <3>2. Trait_(l).found \notin {"exact", "least"}
      BY <2>2, <1>2, TraitFacts
    <3>3. proc[l].mem \in SUBSET (Points \X Written)
      BY <1>1 DEF Types, Procs
    <3> QED
      BY <1>1, <1>7, <2>2, <3>1, <3>2, <3>3, Advanced
  <2> QED
    BY <2>1, <2>2 DEF Failed
<1>10. Types'
  BY <1>1, <1>3, <1>6, <1>9 DEF Types
<1> QED
  BY <1>1, <1>7, <1>8, <1>9, <1>10, StepInv

LEMMA InitInv == Init => Inv
<1> SUFFICES ASSUME Init PROVE Inv
  OBVIOUS
<1>1. IdleProc \in Procs /\ IdleProc.pc = "idle" /\ IdleProc.set = ""
  BY DEF IdleProc, Procs
<1>2. Types
  <2>1. /\ family \in Families /\ manifest = "" /\ torn = FALSE /\ starts = 0 /\ bad = 0
        /\ raced = FALSE /\ crossed = {}
    BY DEF Init
  <2>2. disk = [p \in Points |-> NoExport] /\ command = [p \in Points |-> ""]
    BY DEF Init
  <2>3. proc = [l \in Lanes |-> IdleProc]
    BY DEF Init
  <2>4. disk \in [Points -> Written \cup {NoExport}] /\ command \in [Points -> Settings \cup {""}]
    BY <2>2
  <2>5. proc \in [Lanes -> Procs] /\ \A l \in Lanes : proc[l].set \in family \cup {""}
    BY <2>3, <1>1
  <2>6. starts \in 0..MaxStarts /\ bad \in 0..MaxBad
    <3>1. starts = 0 /\ bad = 0
      BY <2>1
    <3> QED
      BY <3>1, BoundsAssumption
  <2> QED
    BY <2>1, <2>4, <2>5, <2>6 DEF Types
<1>3. \A l \in Lanes : proc[l].pc = "idle"
  BY <1>1 DEF Init
<1>4. \A l \in Lanes : LaneInv(l)
  BY <1>3 DEF LaneInv, Under, Launched, Behind, Recorded, Running
<1>5. Apart /\ Together
  BY <1>3 DEF Apart, Together, Running
<1>6. OneConfiguration /\ CommandDescribesExport
  BY DEF Init, OneConfiguration, CommandDescribesExport, Exists
<1> QED
  BY <1>2, <1>4, <1>5, <1>6 DEF Inv

LEMMA UnchangedInv ==
  ASSUME Inv, UNCHANGED vars
  PROVE  Inv'
<1>1. UNCHANGED <<family, disk, command, manifest, proc, torn, raced, crossed, starts, bad>>
  BY DEF vars, history
<1>2. Types'
  BY <1>1 DEF Inv, Types
<1>3. Apart' /\ Together' /\ OneConfiguration' /\ CommandDescribesExport'
  BY <1>1 DEF Inv, Apart, Together, Running, Exists, OneConfiguration, CommandDescribesExport, Checks
<1>4. \A l \in Lanes : LaneInv(l)'
  <2> SUFFICES ASSUME NEW l \in Lanes PROVE LaneInv(l)'
    OBVIOUS
  <2>1. /\ Running(l)' = Running(l) /\ Trait_(l)' = Trait_(l) /\ Here(l)' = Here(l)
        /\ Past(l)' = Past(l) /\ LaneInv(l)
    BY <1>1 DEF Inv, Running, Trait_, Here, Past
  <2>2. Under(l)' /\ Launched(l)'
    BY <1>1, <2>1 DEF LaneInv, Under, Launched, Exists
  <2>3. Behind(l)' /\ Recorded(l)'
    BY <1>1, <2>1 DEF LaneInv, Behind, Recorded, Exists
  <2> QED
    BY <2>2, <2>3 DEF LaneInv
<1> QED
  BY <1>2, <1>3, <1>4 DEF Inv

LEMMA RefusedInv ==
  ASSUME Inv, NEW s \in family, Refused(s)
  PROVE  Inv'
<1>1. UNCHANGED <<family, disk, command, manifest, proc, torn, raced, crossed, bad>>
  BY DEF Refused, history
<1>2. starts' \in 0..MaxStarts
  <2>1. starts \in 0..MaxStarts /\ starts < MaxStarts /\ starts' = starts + 1
    BY DEF Refused, Inv, Types
  <2> QED
    BY <2>1, BoundsAssumption
<1>3. Types'
  BY <1>1, <1>2 DEF Inv, Types
<1>4. Apart' /\ Together' /\ OneConfiguration' /\ CommandDescribesExport'
  BY <1>1 DEF Inv, Apart, Together, Running, Exists, OneConfiguration, CommandDescribesExport, Checks
<1>5. \A l \in Lanes : LaneInv(l)'
  <2> SUFFICES ASSUME NEW l \in Lanes PROVE LaneInv(l)'
    OBVIOUS
  <2>1. /\ Running(l)' = Running(l) /\ Trait_(l)' = Trait_(l) /\ Here(l)' = Here(l)
        /\ Past(l)' = Past(l) /\ LaneInv(l)
    BY <1>1 DEF Inv, Running, Trait_, Here, Past
  <2>2. Under(l)' /\ Launched(l)'
    BY <1>1, <2>1 DEF LaneInv, Under, Launched, Exists
  <2>3. Behind(l)' /\ Recorded(l)'
    BY <1>1, <2>1 DEF LaneInv, Behind, Recorded, Exists
  <2> QED
    BY <2>2, <2>3 DEF LaneInv
<1> QED
  BY <1>3, <1>4, <1>5 DEF Inv

\* A step writes nothing, or is a measurement of a running process.
LEMMA NextInv ==
  ASSUME Inv, [Next]_vars
  PROVE  Inv' /\ (family' = family)
         /\ (disk' = disk \/ \E l \in Lanes : Running(l) /\ Confined(l))
<1>1. CASE \E l \in Lanes, s \in family : \E bs \in Splits(s), dry \in DryRuns(s) : Start(l, s, bs, dry)
  <2>1. PICK l \in Lanes, s \in family : \E bs \in Splits(s), dry \in DryRuns(s) : Start(l, s, bs, dry)
    BY <1>1
  <2>2. PICK bs \in Splits(s), dry \in DryRuns(s) : Start(l, s, bs, dry)
    BY <2>1
  <2>3. dry \in BOOLEAN
    BY DEF DryRuns
  <2> QED
    BY <2>2, <2>3, StartInv DEF Start
<1>2. CASE \E s \in family : Refused(s)
  BY <1>2, RefusedInv DEF Refused
<1>3. ASSUME NEW l \in Lanes, Step(l) \/ Interrupt(l)
      PROVE  Inv' /\ (family' = family) /\ (disk' = disk \/ \E m \in Lanes : Running(m) /\ Confined(m))
  <2>0. CASE Record(l)
    BY <2>0, RecordInv DEF Record
  <2>1. CASE Ready(l)
    BY <2>1, ReadyInv DEF Ready
  <2>2. CASE Unready(l)
    BY <2>2, UnreadyInv DEF Unready
  <2>3. CASE Resume(l)
    BY <2>3, ResumeInv DEF Resume
  <2>4. CASE Launch(l)
    BY <2>4, LaunchInv DEF Launch
  <2>8. CASE DryRun(l)
    BY <2>8, DryRunInv DEF DryRun
  <2>5. CASE Measured(l)
    BY <2>5, MeasuredInv DEF Measured
  <2>6. CASE Failed(l)
    BY <2>6, FailedInv DEF Failed
  <2>7. CASE Interrupt(l)
    BY <2>7, InterruptInv DEF Interrupt
  <2> QED
    BY <1>3, <2>0, <2>1, <2>2, <2>3, <2>4, <2>5, <2>6, <2>7, <2>8 DEF Step
<1>4. CASE UNCHANGED vars
  BY <1>4, UnchangedInv DEF vars
<1> QED
  BY <1>1, <1>2, <1>3, <1>4 DEF Next, Ends

-----------------------------------------------------------------------------
(* One configuration for a pinned directory, commands that describe their   *)
(* exports, and a valid export for every point of a script that finished;   *)
(* but for starts that raced to record, and points a dry run crossed.       *)
THEOREM Directory == Spec => []DirectoryTells
<1>1. Inv => DirectoryTells
  <2> SUFFICES ASSUME Inv PROVE DirectoryTells
    OBVIOUS
  <2>1. Types /\ \A l \in Lanes : LaneInv(l) /\ proc[l] \in Procs
    BY DEF Inv, Types
  <2>2. TypeOK
    <3>1. ASSUME NEW p \in Points
          PROVE  /\ disk[p].defect \in Defects /\ disk[p].figure \in Figures
                 /\ disk[p].completed \in 0..disk[p].asked
                 /\ command[p] \in Settings \cup {""}
      <4>1. CASE disk[p] \in Written
        <5>1. /\ disk[p].defect \in Defects /\ disk[p].figure \in Figures
              /\ disk[p].completed \in Nat /\ disk[p].asked \in Nat
              /\ disk[p].completed <= disk[p].asked
          BY <4>1 DEF Written, Records
        <5>2. command[p] \in Settings \cup {""}
          BY <2>1 DEF Types
        <5>3. disk[p].completed \in 0..disk[p].asked
          BY <5>1
        <5> QED
          BY <5>1, <5>2, <5>3
      <4>2. CASE disk[p] = NoExport
        <5>1. /\ NoExport.defect = "none" /\ NoExport.completed = 0 /\ NoExport.asked = 0
              /\ NoExport.figure = CHOOSE f \in Figures : TRUE
          BY DEF NoExport
        <5>2. NoExport.figure \in Figures
          BY <5>1, SettingsAssumption
        <5>3. command[p] \in Settings \cup {""}
          BY <2>1 DEF Types
        <5>4. disk[p].completed \in 0..disk[p].asked
          BY <4>2, <5>1
        <5> QED
          BY <4>2, <5>1, <5>2, <5>3, <5>4 DEF Defects
      <4> QED
        BY <4>1, <4>2, <2>1 DEF Types
    <3>2. ASSUME NEW l \in Lanes
          PROVE  /\ proc[l].pc \in {"idle", "recording", "next", "starting", "running", "complete"}
                 /\ proc[l].set \in family \cup {""}
                 /\ Running(l) => proc[l].todo # {} /\ proc[l].set # ""
                 /\ proc[l].todo \cup proc[l].checked \subseteq Points
      <4>1. Running(l) => proc[l].set \in Settings /\ "" \notin Settings
        BY <2>1, OneTrait, SettingsAssumption DEF LaneInv, Under, Running
      <4> QED
        BY <2>1, <4>1 DEF Types, Procs, LaneInv, Under, Running
    <3> QED
      BY <2>1, <3>1, <3>2 DEF Types, TypeOK
  <2>3. CompleteIsValid
    <3> SUFFICES ASSUME NEW l \in Lanes, Finished(l),
                        Trait_(l).found \in {"exact", "least"} \/ Trait_(l).store = "end",
                        NEW p \in Selected(proc[l].set, proc[l].given)
                 PROVE  Exists(p) /\ Valid(Trait_(l).found, disk[p], proc[l].set, p)
      BY DEF CompleteIsValid, Trait_
    <3>1. /\ Behind(l) /\ Past(l) = Selected(proc[l].set, proc[l].given)
          /\ proc[l].set \in Settings /\ proc[l].pc = "complete" /\ ~proc[l].dry
      BY <2>1, OneTrait DEF LaneInv, Under, Past, Finished
    <3>2. CASE Trait_(l).found \in {"exact", "least"}
      BY <3>1, <3>2 DEF Behind
    <3>3. CASE Trait_(l).store = "end"
      <4>1. Exists(p)
        BY <3>1, <3>3 DEF Behind
      <4>2. Trait_(l).found = "again"
        BY <3>1, <3>3, TraitFacts DEF Trait_
      <4> QED
        BY <4>1, <4>2 DEF Valid
    <3> QED
      BY <3>2, <3>3
  <2> QED
    BY <2>2, <2>3 DEF Inv, DirectoryTells
<1>2. Inv /\ [Next]_vars => Inv'
  BY NextInv
<1> QED
  BY <1>1, <1>2, InitInv, PTL DEF Spec

(* A point that has an export is never measured again, however often the    *)
(* scripts that resume are started and interrupted, by two processes too.   *)
THEOREM MeasuredOnce == Spec => NothingTwice
<1>1. Inv /\ [Next]_vars => Inv'
  BY NextInv
<1>2. ASSUME Inv, [Next]_vars, NEW p \in Points, Exists(p), ~Checks("again")
      PROVE  disk'[p] = disk[p]
  <2>1. CASE disk' = disk
    BY <2>1
  <2>2. ASSUME NEW l \in Lanes, Running(l), Confined(l) PROVE disk'[p] = disk[p]
    <3>1. Trait_(l).found # "again"
      BY <1>2, <2>2 DEF Inv, LaneInv, Under, Running, Checks, Trait_
    <3> QED
      BY <1>2, <2>2, <3>1 DEF Confined
  <2> QED
    BY <1>2, <2>1, <2>2, NextInv
<1>3. Inv /\ [Next]_vars => [\A p \in Points : Exists(p) /\ ~Checks("again") => disk'[p] = disk[p]]_vars
  BY <1>2
<1> QED
  BY <1>1, <1>3, InitInv, PTL DEF Spec, NothingTwice

-----------------------------------------------------------------------------
(* What the aggregators make of the directory.                             *)

\* A finite set has an element that no other is above, for any strict order.
LEMMA Topmost ==
  ASSUME NEW S, IsFiniteSet(S), S # {}, NEW R,
         \A x \in S : <<x, x>> \notin R,
         \A x, y, z \in S : <<x, y>> \in R /\ <<y, z>> \in R => <<x, z>> \in R
  PROVE  \E x \in S : \A y \in S : <<y, x>> \notin R
<1> DEFINE Above(x) == {y \in S : <<y, x>> \in R}
           N == {Cardinality(Above(x)) : x \in S}
<1>1. \A x \in S : IsFiniteSet(Above(x)) /\ Cardinality(Above(x)) \in Nat
  BY FS_Subset, FS_CardinalityType
<1>2. N \subseteq Nat /\ N # {}
  <2> HIDE DEF Above
  <2> QED
    BY <1>1
<1>3. PICK n \in N : \A k \in N : ~(<<k, n>> \in OpToRel(<, Nat))
  BY <1>2, NatLessThanWellFounded, WFMin
<1>4. PICK x \in S : n = Cardinality(Above(x))
  BY <1>3
<1>5. ASSUME NEW y \in S, <<y, x>> \in R PROVE FALSE
  <2>1. Above(y) \subseteq Above(x) /\ Above(y) # Above(x)
    <3>1. y \in Above(x) /\ y \notin Above(y)
      BY <1>5
    <3>2. ASSUME NEW z \in Above(y) PROVE z \in Above(x)
      BY <1>5, <3>2
    <3> QED
      BY <3>1, <3>2
  <2>2. Cardinality(Above(y)) < Cardinality(Above(x))
    <3> HIDE DEF Above
    <3> QED
      BY <1>1, <2>1, FS_Subset
  <2>3. Cardinality(Above(y)) \in N /\ Cardinality(Above(y)) \in Nat /\ n \in Nat
    <3> HIDE DEF Above
    <3> QED
      BY <1>1, <1>2, <1>3
  <2> QED
    BY <1>3, <1>4, <2>2, <2>3 DEF OpToRel
<1> QED
  BY <1>5

LEMMA GreatestLevel ==
  ASSUME NEW L, L \subseteq Nat, IsFiniteSet(L), L # {}
  PROVE  Max(L) \in L
<1> DEFINE R == {e \in L \X L : e[1] > e[2]}
<1>1. PICK x \in L : \A y \in L : <<y, x>> \notin R
  <2>1. \A x \in L : <<x, x>> \notin R
    OBVIOUS
  <2>2. \A x, y, z \in L : <<x, y>> \in R /\ <<y, z>> \in R => <<x, z>> \in R
    OBVIOUS
  <2> HIDE DEF R
  <2> QED
    BY <2>1, <2>2, Topmost
<1>2. ASSUME NEW y \in L PROVE x >= y
  <2>1. <<y, x>> \in L \X L /\ <<y, x>>[1] = y /\ <<y, x>>[2] = x
    OBVIOUS
  <2>2. ~(y > x)
    BY <1>1, <2>1
  <2> QED
    BY <2>2
<1> QED
  BY <1>2 DEF Max

LEMMA RecordFacts ==
  ASSUME NEW s \in Settings
  PROVE  /\ Trait(s).record \in {"none", "pinned", "latest"}
         /\ Trait(s).record = "pinned" => Trait(s).found = "exact"
         /\ Trait(s).record = "latest" => Trait(s).found = "least"
<1>1. SettingTable[s].script \in DOMAIN Traits
  BY SettingsAssumption
<1> QED
  BY <1>1 DEF Trait, Traits, Script, AiperfMatrix, Qwen3Matrix, PublicMatrix, FrameworkSweep,
       IslOslMatrix, ParetoV1, ParetoV2, BaselineMatrix, DynamoExact, HeteroMatrix, PodSweep,
       LlmdSweep, NemotronBench, Variant

\* The record names settings of the directory.  While nothing has gone wrong,
\* every export is whole, those still in memory included.
Perfect(e) == e.defect = "none" /\ e.completed = e.asked
Named == manifest # "" => manifest \in family /\ Trait(manifest).record # "none"
Whole ==
  bad = 0 => /\ \A p \in Points : Perfect(disk[p])
             /\ \A l \in Lanes : \A x \in proc[l].mem : Perfect(x[2])

LEMMA InitReports == Init => Named /\ Whole
<1> SUFFICES ASSUME Init PROVE Named /\ Whole
  OBVIOUS
<1>1. \A p \in Points : Perfect(disk[p])
  BY DEF Init, Perfect, NoExport
<1>2. \A l \in Lanes : proc[l].mem = {}
  BY DEF Init, IdleProc
<1> QED
  BY <1>1, <1>2 DEF Init, Named, Whole

LEMMA BadCounts ==
  ASSUME Inv
  PROVE  bad \in Nat
<1>1. bad \in 0..MaxBad
  BY DEF Inv, Types
<1> QED
  BY <1>1, BoundsAssumption

\* Steps that write no export and take nothing into memory.
LEMMA WritesNothing ==
  ASSUME Inv, Whole, disk' = disk, bad' \in {bad, bad + 1},
         \A l \in Lanes : proc'[l].mem = proc[l].mem \/ proc'[l].mem = {}
  PROVE  Whole'
<1>1. bad \in Nat
  BY BadCounts
<1>2. bad' = 0 => bad = 0
  BY <1>1
<1> QED
  BY <1>2 DEF Whole

\* Steps that go wrong.
LEMMA GoesWrong ==
  ASSUME Inv, bad' = bad + 1
  PROVE  Whole'
<1>1. bad \in Nat
  BY BadCounts
<1> QED
  BY <1>1 DEF Whole

LEMMA MeasuredWhole ==
  ASSUME Inv, Whole, NEW l \in Lanes, Measured(l)
  PROVE  Whole'
<1>1. PICK e \in Exports(proc[l].set, Here(l)) :
        /\ bad' = (IF Good(e) THEN bad ELSE bad + 1)
        /\ disk' = Saved(l, e)
        /\ IF Valid(Trait_(l).found, e, proc[l].set, Here(l))
           THEN NextPoint(l, Rest(l), Kept(l, e))
           ELSE Goto(l, "idle")
  BY DEF Measured
<1>2. CASE ~Good(e)
  BY <1>1, <1>2, GoesWrong
<1>3. CASE Good(e)
  <2> SUFFICES ASSUME bad = 0 PROVE Whole'
    BY <1>1, <1>3 DEF Whole
  <2>1. Perfect(e) /\ (\A p \in Points : Perfect(disk[p])) /\ \A m \in Lanes : \A x \in proc[m].mem : Perfect(x[2])
    BY <1>3 DEF Whole, Good, Perfect
  <2> DEFINE mem == proc[l].mem \cup {<<Here(l), e>>}
  <2>2. \A x \in mem : Perfect(x[2])
    BY <2>1
  <2>3. ASSUME NEW p \in Points PROVE Perfect(disk'[p])
    <3>1. disk'[p] = Saved(l, e)[p] /\ disk \in [Points -> Written \cup {NoExport}]
      BY <1>1 DEF Inv, Types
    <3>2. CASE Trait_(l).store # "end"
      BY <2>1, <3>1, <3>2 DEF Saved
    <3>3. CASE Trait_(l).store = "end" /\ Rest(l) # {}
      BY <2>1, <3>1, <3>3 DEF Saved
    <3>4. CASE Trait_(l).store = "end" /\ Rest(l) = {}
      <4>1. Saved(l, e) = [q \in Points |-> IF \E x \in mem : x[1] = q
                               THEN (CHOOSE x \in mem : x[1] = q)[2] ELSE disk[q]]
        BY <3>4 DEF Saved
      <4>2. CASE \E x \in mem : x[1] = p
        <5>1. (CHOOSE x \in mem : x[1] = p) \in mem
          BY <4>2
        <5> HIDE DEF mem
        <5> QED
          BY <2>2, <3>1, <4>1, <4>2, <5>1
      <4>3. CASE ~\E x \in mem : x[1] = p
        BY <2>1, <3>1, <4>1, <4>3
      <4> QED
        BY <4>2, <4>3
    <3> QED
      BY <3>2, <3>3, <3>4
  <2>4. ASSUME NEW m \in Lanes, NEW x \in proc'[m].mem PROVE Perfect(x[2])
    <3>1. proc \in [Lanes -> Procs] /\ proc[m] \in Procs /\ proc[l] \in Procs
      BY DEF Inv, Types
    <3>2. Kept(l, e) \in {mem, {}}
      BY DEF Kept
    <3> HIDE DEF mem
    <3>3. proc'[m].mem \in {proc[m].mem, Kept(l, e)}
      <4>1. CASE m = l
        <5>1. CASE NextPoint(l, Rest(l), Kept(l, e))
          <6> DEFINE left == [proc[l] EXCEPT !.todo = Rest(l)]
          <6>1. proc'[l] = [[left EXCEPT !.mem = Kept(l, e)]
                              EXCEPT !.pc = IF Rest(l) = {} THEN "complete" ELSE "next"]
            BY <3>1, <5>1 DEF NextPoint
          <6>2. DOMAIN left = DOMAIN proc[l]
            OBVIOUS
          <6> HIDE DEF left
          <6> QED
            BY <3>1, <4>1, <6>1, <6>2 DEF Procs
        <5>2. CASE Goto(l, "idle")
          BY <3>1, <4>1, <5>2 DEF Goto, Procs
        <5> QED
          BY <1>1, <5>1, <5>2
      <4>2. CASE m # l
        BY <1>1, <3>1, <4>2 DEF NextPoint, Goto
      <4> QED
        BY <4>1, <4>2
    <3> QED
      BY <2>1, <2>2, <2>4, <3>2, <3>3
  <2> QED
    BY <2>3, <2>4 DEF Whole, Perfect
<1> QED
  BY <1>2, <1>3

LEMMA NextReports ==
  ASSUME Inv, Named, Whole, [Next]_vars
  PROVE  Named' /\ Whole'
<1>1. proc \in [Lanes -> Procs] /\ (\A l \in Lanes : proc[l] \in Procs) /\ family \in Families
      /\ family' = family
  BY NextInv DEF Inv, Types
<1>2. ASSUME NEW l \in Lanes, NEW s \in family, NEW bs, NEW dry, Start(l, s, bs, dry)
      PROVE  Named' /\ Whole'
  <2>1. Named'
    BY <1>2, <1>1 DEF Named, Start
  <2>2. \A m \in Lanes : proc'[m].mem = proc[m].mem \/ proc'[m].mem = {}
    BY <1>1, <1>2 DEF Start
  <2> QED
    BY <1>2, <2>1, <2>2, WritesNothing DEF Start
<1>3. CASE \E s \in family : Refused(s)
  BY <1>3, WritesNothing DEF Refused, Named
<1>8. ASSUME NEW l \in Lanes, Record(l) PROVE Named' /\ Whole'
  <2>1. proc[l].set \in family /\ Trait_(l).record # "none"
    BY <1>8 DEF Inv, LaneInv, Under, Record
  <2>2. \A m \in Lanes : proc'[m].mem = proc[m].mem
    BY <1>1, <1>8 DEF Record, Goto, Procs
  <2> QED
    BY <1>1, <1>8, <2>1, <2>2, WritesNothing DEF Named, Record, Trait_
<1>4. ASSUME NEW l \in Lanes, Ready(l) \/ Resume(l) \/ Launch(l) \/ DryRun(l)
      PROVE  Named' /\ Whole'
  <2>1. UNCHANGED <<family, disk, manifest, bad>>
    BY <1>4 DEF Ready, Resume, Launch, DryRun
  <2>2. \A m \in Lanes : proc'[m].mem = proc[m].mem
    <3>1. CASE Ready(l)
      BY <1>1, <3>1 DEF Ready, Procs
    <3>2. ASSUME NEW pc, Goto(l, pc) PROVE \A m \in Lanes : proc'[m].mem = proc[m].mem
      BY <1>1, <3>2 DEF Goto, Procs
    <3>3. ASSUME NEW todo, Drop(l, todo) PROVE \A m \in Lanes : proc'[m].mem = proc[m].mem
      BY <1>1, <3>3 DEF Drop, NextPoint, Procs
    <3>4. CASE Resume(l) \/ Launch(l) \/ DryRun(l)
      BY <3>2, <3>3, <3>4 DEF Resume, Launch, DryRun
    <3> QED
      BY <1>4, <3>1, <3>4
  <2> QED
    BY <2>1, <2>2, WritesNothing DEF Named
<1>5. ASSUME NEW l \in Lanes, Unready(l) \/ Failed(l) \/ Interrupt(l)
      PROVE  Named' /\ Whole'
  BY <1>5, GoesWrong DEF Unready, Failed, Interrupt, Named
<1>6. ASSUME NEW l \in Lanes, Measured(l) PROVE Named' /\ Whole'
  BY <1>6, MeasuredWhole DEF Measured, Named
<1>7. CASE UNCHANGED vars
  BY <1>7 DEF vars, Named, Whole
<1> QED
  BY <1>2, <1>3, <1>4, <1>5, <1>6, <1>7, <1>8 DEF Next, Step, Ends

LEMMA CompleteReported ==
  ASSUME Inv, Named, Whole
  PROVE  CompleteAggregates
<1> SUFFICES ASSUME NEW l \in Lanes, NEW s, s = proc[l].set, Finished(l), manifest = s,
                    proc[l].given = SettingTable[s].backends
             PROVE  /\ Complete(s)
                    /\ Trait(s).record = "latest" => ~RaisesLeast
                    /\ RaisesExact(s) /\ Trait(s).record = "pinned" =>
                         \E p \in Present(s) : disk[p].defect = "metrics"
                    /\ RaisesNormalize => bad > 0
  BY DEF CompleteAggregates
<1>1. /\ s \in family /\ s \in Settings /\ s # "" /\ Behind(l) /\ Trait_(l) = Trait(s)
      /\ Past(l) = Selected(s, proc[l].given) /\ proc[l].pc = "complete" /\ ~proc[l].dry
  BY OneTrait, SettingsAssumption DEF Inv, LaneInv, Under, Finished, Past, Trait_
<1>2. Trait(s).record \in {"pinned", "latest"} /\ Trait(s).found \in {"exact", "least"}
  BY <1>1, RecordFacts DEF Named
<1>3. \A p \in Selected(s, Backends) : Exists(p) /\ Valid(Trait(s).found, disk[p], s, p)
  <2>1. Selected(s, Backends) \subseteq Selected(s, SettingTable[s].backends)
    BY DEF Selected
  <2> QED
    BY <1>1, <1>2, <2>1 DEF Behind
<1>4. Complete(s)
  BY <1>3 DEF Complete, Present
<1>5. Trait(s).record = "latest" => ~RaisesLeast
  BY <1>1, <1>3, RecordFacts DEF RaisesLeast, Present
<1>6. RaisesExact(s) /\ Trait(s).record = "pinned" => \E p \in Present(s) : disk[p].defect = "metrics"
  BY <1>1, <1>3, RecordFacts DEF RaisesExact, Present
<1>7. RaisesNormalize => bad > 0
  <2>1. bad \in Nat
    BY BadCounts
  <2>2. RaisesNormalize => bad # 0
    BY DEF RaisesNormalize, Whole, Perfect
  <2> QED
    BY <2>1, <2>2
<1> QED
  BY <1>4, <1>5, <1>6, <1>7

LEMMA WinnerReported ==
  ASSUME Inv, Named
  PROVE  WinnerMeasured
<1> SUFFICES ASSUME manifest # "", Trait(manifest).record = "latest", NEW b \in Backends, Winner(b),
                    NEW w \in Primary
             PROVE  \E p \in Points :
                      /\ Backend(p) = b /\ Work(p) = w /\ Level(p) = Admissible(b)
                      /\ disk[p].completed >= SettingTable[manifest].minimum
                      /\ disk[p].defect = "none" /\ ~disk[p].figure.late
  BY DEF WinnerMeasured
<1>1. manifest \in Settings
  BY OneTrait DEF Named, Inv
<1> DEFINE cs == {c \in SettingTable[manifest].levels : Eligible(b, c)}
<1>2. cs # {} /\ Admissible(b) = Max(cs)
  BY DEF Winner, Admissible
<1>3. Max(cs) \in cs
  <2>1. cs \subseteq SettingTable[manifest].levels
    OBVIOUS
  <2>2. cs \subseteq Nat /\ IsFiniteSet(cs)
    BY <1>1, <2>1, SettingsAssumption, FS_Subset
  <2> HIDE DEF cs
  <2> QED
    BY <1>2, <2>2, GreatestLevel
<1>4. PICK c : c = Admissible(b) /\ Eligible(b, c)
  BY <1>2, <1>3
<1>5. PICK p \in At(b, c) : Work(p) = w
  BY <1>4 DEF Eligible
<1>6. p \in Present(manifest) /\ p \in Points /\ Backend(p) = b /\ Level(p) = c /\ ~disk[p].figure.late
  BY <1>4, <1>5 DEF At, Present, Selected, Eligible
<1>7. Valid("least", disk[p], manifest, p)
  BY <1>6 DEF Winner, RaisesLeast
<1> QED
  BY <1>4, <1>5, <1>6, <1>7 DEF Valid

LEMMA ParetoReported ==
  ASSUME Inv
  PROVE  ParetoCovers
<1> SUFFICES ASSUME NEW s \in family, NEW w, NEW rows, rows = Rows(s, w), NEW r \in rows
             PROVE  /\ \E o \in Pareto(rows) :
                         /\ disk[o].figure.total >= disk[r].figure.total
                         /\ disk[o].figure.user >= disk[r].figure.user
                    /\ Pareto(rows) \subseteq BackendPareto(rows)
  BY DEF ParetoCovers, Pareto, BackendPareto
<1>1. rows \subseteq Points
  BY DEF Rows, Present, Selected
<1>2. \A p \in Points : disk[p].figure \in Figures
  <2>1. NoExport.figure \in Figures
    BY SettingsAssumption DEF NoExport
  <2> QED
    BY <2>1 DEF Inv, Types, Written, Records
<1>3. \A p \in rows : disk[p].figure.total \in Nat /\ disk[p].figure.user \in Nat
  BY <1>1, <1>2, FiguresAssumption
<1> DEFINE S == {o \in rows : /\ disk[o].figure.total >= disk[r].figure.total
                              /\ disk[o].figure.user >= disk[r].figure.user}
           R == {e \in rows \X rows : Dominates(e[1], e[2])}
<1>4. r \in S /\ S \subseteq rows /\ IsFiniteSet(S)
  BY <1>1, <1>3, PointsAssumption, FS_Subset
<1>5. \A x \in S : <<x, x>> \notin R
  BY <1>3 DEF Dominates
<1>6. ASSUME NEW x \in S, NEW y \in S, NEW z \in S, <<x, y>> \in R, <<y, z>> \in R
      PROVE  <<x, z>> \in R
  <2>1. Dominates(x, y) /\ Dominates(y, z)
    BY <1>6
  <2>2. Dominates(x, z)
    BY <1>3, <2>1 DEF Dominates
  <2> QED
    BY <2>2
<1>7. PICK o \in S : \A q \in S : <<q, o>> \notin R
  <2> HIDE DEF S, R
  <2> QED
    BY <1>4, <1>5, <1>6, Topmost
<1>8. o \in Pareto(rows)
  <2> SUFFICES ASSUME NEW q \in rows, Dominates(q, o) PROVE FALSE
    BY DEF Pareto
  <2>1. q \in S
    BY <1>3 DEF Dominates
  <2> QED
    BY <1>7, <2>1
<1>9. Pareto(rows) \subseteq BackendPareto(rows)
  BY DEF Pareto, BackendPareto
<1> QED
  BY <1>8, <1>9

(* What a finished script leaves is accepted by its aggregator, unless a     *)
(* measurement went wrong in a way the script does not look at; a winner was *)
(* measured at every primary profile; and the Pareto frontier covers every   *)
(* row, for any figures.                                                     *)
THEOREM Reports == Spec => []ReportsMeasured
<1>1. Init => Inv /\ Named /\ Whole
  BY InitInv, InitReports
<1>2. Inv /\ Named /\ Whole /\ [Next]_vars => (Inv /\ Named /\ Whole)'
  BY NextInv, NextReports
<1>3. Inv /\ Named /\ Whole => ReportsMeasured
  BY CompleteReported, WinnerReported, ParetoReported DEF ReportsMeasured
<1> QED
  BY <1>1, <1>2, <1>3, PTL DEF Spec

=============================================================================
