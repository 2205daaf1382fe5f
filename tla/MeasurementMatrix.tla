-------------------------- MODULE MeasurementMatrix --------------------------
(***************************************************************************)
(* The scripts that measure a matrix of points (backend, workload and      *)
(* concurrency) into one output directory, a file per point:               *)
(*                                                                         *)
(*   benchmarks/run_aiperf_matrix.py        qwen3-30b/run_matrix.py        *)
(*   openrouter/run_public_matrix.py        common/run_aiperf_*.sh         *)
(*   runpod/run_qwen38_pareto*.sh           heterogeneous-pd/run_*.sh      *)
(*   common/run_framework_sweep.py          common/run_isl_osl_sweep.py    *)
(*   nemotron-120b/bench.py                 qwen38-27b/run_variant.py      *)
(*                                                                         *)
(* They are one loop that differs in what it does with a file that is      *)
(* there, with a backend that is not, and with a measurement that fails;   *)
(* a trait table says which script does what.  The aggregators that read   *)
(* the directory are operators on what is on disk.                         *)
(***************************************************************************)
EXTENDS Integers, FiniteSetsExt

CONSTANTS PointTable,   \* point |-> [backend, work, level, rank], its rank in the nested loops
          Primary,      \* PRIMARY_PROFILES: the workloads a winner must have
          SettingTable, \* setting |-> [script, arm, minimum, waves, backends, work, levels]
          Families,     \* directories: sets of settings that share one
          Figures,      \* what is measured: [total, user, late]
          MaxStarts,    \* bound: starts of a script
          MaxBad        \* bound: measurements that go wrong

Points == DOMAIN PointTable
Backend(p) == PointTable[p].backend
Work(p) == PointTable[p].work
Level(p) == PointTable[p].level
Rank(p) == PointTable[p].rank
Backends == {Backend(p) : p \in Points}
Settings == DOMAIN SettingTable
Lanes == {1, 2}               \* two processes may share the directory

-----------------------------------------------------------------------------
(* What tells the scripts apart *)

\* found: what happens at a point that has a file.  record: what is written about
\* the settings.  unready: what a backend that does not answer ends.  failed: what
\* ends at a measurement that fails.  split: the backends of one process.  store: a
\* file for each point, one that is written whole after each, or at the end.
Script(found, record, unready, failed, split, store) ==
  [found |-> found, record |-> record, unready |-> unready, failed |-> failed,
   split |-> split, store |-> store]
AiperfMatrix   == Script("exact", "pinned", "stop", "stop",   "any", "each")
Qwen3Matrix    == Script("exact", "none",   "stop", "stop",   "one", "each")
PublicMatrix   == Script("least", "latest", "go",   "stop",   "one", "each")
FrameworkSweep == Script("again", "none",   "skip", "go",     "all", "each")
IslOslMatrix   == Script("again", "none",   "cell", "go",     "all", "each")
ParetoV1       == Script("skip",  "none",   "go",   "stop",   "one", "each")
ParetoV2       == ParetoV1
BaselineMatrix == Script("again", "none",   "go",   "stop",   "one", "each")
DynamoExact    == BaselineMatrix    \* also saves the metrics before and after a point
HeteroMatrix   == BaselineMatrix
PodSweep       == Script("skip",  "none",   "stop", "either", "one", "whole")
LlmdSweep      == Script("skip",  "none",   "go",   "either", "one", "whole")
NemotronBench  == Script("again", "none",   "go",   "go",     "one", "end")
Variant        == Script("again", "none",   "stop", "stop",   "one", "each")

Traits == [aiperf |-> AiperfMatrix, qwen3 |-> Qwen3Matrix, public |-> PublicMatrix,
           sweep |-> FrameworkSweep, islosl |-> IslOslMatrix, pareto1 |-> ParetoV1,
           pareto2 |-> ParetoV2, baseline |-> BaselineMatrix, exact |-> DynamoExact,
           hetero |-> HeteroMatrix, pod |-> PodSweep, llmd |-> LlmdSweep,
           nemotron |-> NemotronBench, variant |-> Variant]

Trait(s) == Traits[SettingTable[s].script]
Selected(s, bs) == {p \in Points : /\ Backend(p) \in bs \cap SettingTable[s].backends
                                   /\ Work(p) \in SettingTable[s].work
                                   /\ Level(p) \in SettingTable[s].levels}
RequestCount(s, c) == Max({SettingTable[s].minimum, SettingTable[s].waves * c})

\* arm stands for what no check of an export sees (url, model, tokenizer,
\* temperature); minimum and waves make the request count.  Settings share a
\* directory only when their scripts treat it alike.  A figure stands for its place
\* among those that are measured; "metrics" is an export without one.
ASSUME PointsAssumption ==
  /\ IsFiniteSet(Points)
  /\ \A p, q \in Points : Rank(p) \in Nat /\ (Rank(p) = Rank(q) => p = q)
ASSUME FiguresAssumption == \A f \in Figures : f.total \in Nat /\ f.user \in Nat
ASSUME SettingsAssumption ==
  /\ "" \notin Settings /\ Figures # {}
  /\ \A s \in Settings : SettingTable[s].levels \subseteq Nat /\ IsFiniteSet(SettingTable[s].levels)
  /\ \A s \in Settings :
       /\ SettingTable[s].script \in DOMAIN Traits /\ SettingTable[s].minimum \in Nat
       /\ SettingTable[s].arm \notin {"", "gateway"} /\ SettingTable[s].backends # {}
       /\ \A b \in SettingTable[s].backends : Selected(s, {b}) # {}
       /\ \A p \in Points : RequestCount(s, Level(p)) \in Nat \ {0}
ASSUME FamiliesAssumption ==
  \A f \in Families : f \subseteq Settings /\ \A s, t \in f : Trait(s) = Trait(t)
ASSUME BoundsAssumption == MaxStarts \in Nat /\ MaxBad \in Nat

\* The backends one process may be given.
Splits(s) == LET bs == SettingTable[s].backends
             IN  CASE Trait(s).split = "any" -> (SUBSET bs) \ {{}}
                   [] Trait(s).split = "one" -> {{b} : b \in bs}
                   [] Trait(s).split = "all" -> {bs}
DryRuns(s) == IF SettingTable[s].script \in {"aiperf", "public"} THEN BOOLEAN ELSE {FALSE}
-----------------------------------------------------------------------------
VARIABLES
  family,    \* the settings somebody uses with this directory
  disk,      \* point |-> its export
  command,   \* point |-> the setting of its command.json
  manifest,  \* the setting of benchmark-config.json or suite.json
  proc,      \* lane |-> the process
  torn,      \* does the one file of all points end in the middle?
  raced,     \* history: has a start checked the record while another start, of
             \* another configuration, had checked it and not yet written it?
  crossed,   \* history: points whose command.json a dry run of another setting
             \* has rewritten since their measurement began
  starts, bad

history == <<raced, crossed>>
vars == <<family, disk, command, manifest, proc, torn, history, starts, bad>>

\* defect: "dirty" is an export with request errors, other lengths or a torn file,
\* "metrics" one that lacks a figure or has one that is not a finite number.
NoExport == [arm |-> "", asked |-> 0, completed |-> 0, defect |-> "none",
             figure |-> CHOOSE f \in Figures : TRUE]
Exists(p) == disk[p] # NoExport
IdleProc == [pc |-> "idle", set |-> "", given |-> {}, dry |-> FALSE, todo |-> {}, checked |-> {},
             mem |-> {}]
Defects == {"none", "dirty", "metrics"}

Init ==
  /\ family \in Families
  /\ disk = [p \in Points |-> NoExport]
  /\ command = [p \in Points |-> ""]
  /\ manifest = ""
  /\ proc = [l \in Lanes |-> IdleProc]
  /\ torn = FALSE /\ raced = FALSE /\ crossed = {} /\ starts = 0 /\ bad = 0

Running(l) == proc[l].pc \notin {"idle", "complete"}
Goto(l, pc) == proc' = [proc EXCEPT ![l].pc = pc]
Here(l) == CHOOSE p \in proc[l].todo : \A q \in proc[l].todo : Rank(p) <= Rank(q)
Rest(l) == proc[l].todo \ {Here(l)}
Trait_(l) == Trait(proc[l].set)
NextPoint(l, todo, mem) ==
  proc' = [proc EXCEPT ![l].todo = todo, ![l].mem = mem,
                       ![l].pc = IF todo = {} THEN "complete" ELSE "next"]
Drop(l, todo) == NextPoint(l, todo, proc[l].mem)

\* validate_export: "exact" also accepts an export without its figures.
Valid(check, e, s, p) ==
  CASE check = "exact" -> e.defect # "dirty" /\ e.completed = RequestCount(s, Level(p))
    [] check = "least" -> e.defect = "none" /\ e.completed >= SettingTable[s].minimum
    [] OTHER           -> TRUE

-----------------------------------------------------------------------------
(* The loop *)

\* The configuration of the first start stays; run_public_matrix.py overwrites its
\* record, also with that of a dry run.
PinnedTo_Fault(s) == TRUE
PinnedTo(s) == Trait(s).record = "pinned" => manifest \in {"", s}

\* json.load raises at a file that ends in the middle, at every start.
Unreadable(s) == torn /\ Trait(s).store = "whole"

\* A lane is but a name for a process: a start takes the first free one.  Nothing in
\* the scripts keeps two processes off the same backend; that whoever measures with
\* two gives them different ones is assumed, but a dry run may name any.
Start(l, s, bs, dry) ==
  /\ ~Running(l) /\ (\A m \in Lanes : m < l => Running(m))
  /\ starts < MaxStarts /\ starts' = starts + 1
  /\ \A m \in Lanes \ {l} :
       Running(m) /\ ~dry /\ ~proc[m].dry => proc[m].given \cap bs = {}
  /\ PinnedTo(s) /\ ~Unreadable(s)
  /\ raced' = (raced \/ \E m \in Lanes \ {l} : proc[m].pc = "recording" /\ proc[m].set # s)
  /\ proc' = [proc EXCEPT ![l] =
                [pc |-> IF Trait(s).record = "none" THEN "next" ELSE "recording",
                 set |-> s, given |-> bs, dry |-> dry,
                 checked |-> {}, mem |-> {}, todo |-> Selected(s, bs)]]
  /\ UNCHANGED <<family, disk, command, manifest, torn, crossed, bad>>

\* What was checked may no longer be so: the record is written in any case.
Record(l) ==
  /\ proc[l].pc = "recording"
  /\ manifest' = proc[l].set
  /\ Goto(l, "next")
  /\ UNCHANGED <<family, disk, command, torn, history, starts, bad>>

Refused(s) ==
  /\ starts < MaxStarts /\ starts' = starts + 1
  /\ ~PinnedTo(s) \/ Unreadable(s)
  /\ UNCHANGED <<family, disk, command, manifest, proc, torn, history, bad>>

\* wait_ready, or the curl of the shell sweeps, once for a backend (and workload).
Cell(l) == {p \in Points : /\ Backend(p) = Backend(Here(l))
                           /\ Trait_(l).unready = "cell" => Work(p) = Work(Here(l))}
Checked(l) == \/ Trait_(l).unready = "go" \/ proc[l].dry
              \/ Here(l) \in proc[l].checked
Ready(l) ==
  /\ proc[l].pc = "next" /\ ~Checked(l)
  /\ proc' = [proc EXCEPT ![l].checked = @ \cup Cell(l)]
  /\ UNCHANGED <<family, disk, command, manifest, torn, history, starts, bad>>
Unready(l) ==
  /\ proc[l].pc = "next" /\ ~Checked(l) /\ bad < MaxBad /\ bad' = bad + 1
  /\ IF Trait_(l).unready = "stop"
     THEN Goto(l, "idle")
     ELSE Drop(l, proc[l].todo \ Cell(l))
  /\ UNCHANGED <<family, disk, command, manifest, torn, history, starts>>

\* A point that has a file: RESUME, or an exception at every start until somebody
\* removes the file; the pareto scripts skip a file that is not empty.
Accepts(l) == /\ Exists(Here(l)) /\ Trait_(l).found # "again"
              /\ Valid(Trait_(l).found, disk[Here(l)], proc[l].set, Here(l))
Rejects(l) == /\ Exists(Here(l)) /\ Trait_(l).found \in {"exact", "least"}
              /\ ~Valid(Trait_(l).found, disk[Here(l)], proc[l].set, Here(l))
Resume(l) ==
  /\ proc[l].pc = "next" /\ Checked(l)
  /\ \/ Accepts(l) /\ Drop(l, Rest(l))
     \/ Rejects(l) /\ Goto(l, "idle")
  /\ UNCHANGED <<family, disk, command, manifest, torn, history, starts, bad>>

Measures_Fault(l) == TRUE
Measures(l) == ~Exists(Here(l)) \/ Trait_(l).found = "again"
Command(l) == IF Trait_(l).found \in {"exact", "least"}
              THEN [command EXCEPT ![Here(l)] = proc[l].set] ELSE command
Launch(l) ==
  /\ proc[l].pc = "next" /\ Checked(l) /\ Measures(l)
  /\ IF proc[l].dry
     THEN Goto(l, "starting") /\ UNCHANGED <<command, crossed>>
     ELSE Goto(l, "running") /\ command' = Command(l) /\ crossed' = crossed \ {Here(l)}
  /\ UNCHANGED <<family, disk, manifest, torn, raced, starts, bad>>

\* A dry run has looked for the export and writes command.json, whoever measures the
\* point or has measured it in the meantime; a step of its own only for dry runs,
\* since nobody else writes to a point that a process measures.
Crosses(l) == {p \in {Here(l)} :
                 \/ Exists(p) /\ command[p] # proc[l].set
                 \/ \E m \in Lanes \ {l} :
                      proc[m].pc = "running" /\ Here(m) = p /\ proc[m].set # proc[l].set}
DryRun(l) ==
  /\ proc[l].pc = "starting"
  /\ command' = Command(l) /\ crossed' = crossed \cup Crosses(l)
  /\ Drop(l, Rest(l))
  /\ UNCHANGED <<family, disk, manifest, torn, raced, starts, bad>>

\* What a benchmark client may write for a point.  run_framework_sweep.py measures
\* the gateway when kubectl names no address of the pod.
Exports(s, p) ==
  LET n == RequestCount(s, Level(p))
  IN  {[arm |-> a, asked |-> n, completed |-> c, defect |-> d, figure |-> f] :
         a \in {SettingTable[s].arm} \cup (IF SettingTable[s].script = "pod" THEN {"gateway"} ELSE {}),
         c \in {n - 1, n}, d \in Defects, f \in Figures}
Good(e) == e.defect = "none" /\ e.completed = e.asked /\ e.arm # "gateway"

\* bench.py of Nemotron keeps all points in memory up to its end.
Saved(l, e) ==
  LET mem == proc[l].mem \cup {<<Here(l), e>>}
  IN  CASE Trait_(l).store # "end" -> [disk EXCEPT ![Here(l)] = e]
        [] Trait_(l).store = "end" /\ Rest(l) = {} ->
             [p \in Points |-> IF \E x \in mem : x[1] = p
                               THEN (CHOOSE x \in mem : x[1] = p)[2] ELSE disk[p]]
        [] OTHER -> disk
Kept(l, e) == IF Trait_(l).store = "end" THEN proc[l].mem \cup {<<Here(l), e>>} ELSE {}

\* It exits with 0; run_aiperf_matrix.py and its like look at the export once more.
Measured(l) ==
  /\ proc[l].pc = "running"
  /\ \E e \in Exports(proc[l].set, Here(l)) :
       /\ bad' = (IF Good(e) THEN bad ELSE bad + 1) /\ bad' <= MaxBad
       /\ disk' = Saved(l, e)
       /\ IF Valid(Trait_(l).found, e, proc[l].set, Here(l))
          THEN NextPoint(l, Rest(l), Kept(l, e))
          ELSE Goto(l, "idle")
  /\ UNCHANGED <<family, command, manifest, torn, history, starts>>

\* It fails or runs out of time, with or without a file; the sweeps go on, those in
\* Python only if it failed in time.  Nemotron's counts the errors of a point.
Failed(l) ==
  /\ proc[l].pc = "running" /\ bad < MaxBad /\ bad' = bad + 1
  /\ \/ disk' = disk
     \/ /\ Trait_(l).store = "each"
        /\ \E e \in Exports(proc[l].set, Here(l)) : disk' = [disk EXCEPT ![Here(l)] = e]
  /\ \/ Trait_(l).failed \in {"stop", "either"} /\ Goto(l, "idle")
     \/ Trait_(l).failed \in {"go", "either"} /\ Trait_(l).store # "end" /\ Drop(l, Rest(l))
  /\ UNCHANGED <<family, command, manifest, torn, history, starts>>

\* The process is ended from outside, perhaps while it writes the one file.
Interrupt(l) ==
  /\ Running(l) /\ bad < MaxBad /\ bad' = bad + 1 /\ Goto(l, "idle")
  /\ torn' \in {torn, torn \/ (proc[l].pc = "running" /\ Trait_(l).store = "whole")}
  /\ UNCHANGED <<family, disk, command, manifest, history, starts>>

Step(l) == \/ Record(l) \/ Ready(l) \/ Unready(l) \/ Resume(l) \/ Launch(l) \/ DryRun(l)
           \/ Measured(l) \/ Failed(l)
Ends == /\ starts = MaxStarts /\ \A l \in Lanes : ~Running(l)
        /\ UNCHANGED vars
Next == \/ \E l \in Lanes, s \in family : \E bs \in Splits(s), dry \in DryRuns(s) : Start(l, s, bs, dry)
        \/ \E s \in family : Refused(s)
        \/ \E l \in Lanes : Step(l) \/ Interrupt(l)
        \/ Ends

Spec == Init /\ [][Next]_vars

-----------------------------------------------------------------------------
(* The aggregators *)

Present(s) == {p \in Selected(s, Backends) : Exists(p)}
Complete(s) == Present(s) = Selected(s, Backends)

\* aggregate_aiperf_matrix.py and qwen3-30b/aggregate.py, for a configuration.
RaisesExact(s) == \E p \in Present(s) : ~Valid("exact", disk[p], s, p) \/ disk[p].defect = "metrics"
Rows(s, w) == {p \in Present(s) : Work(p) = w}
Dominates(o, r) == LET fo == disk[o].figure  fr == disk[r].figure
                   IN  /\ fo.total >= fr.total /\ fo.user >= fr.user
                       /\ fo.total > fr.total \/ fo.user > fr.user
Pareto(rows) == {r \in rows : \A o \in rows : ~Dominates(o, r)}
BackendPareto(rows) == {r \in rows : \A o \in rows : Backend(o) = Backend(r) => ~Dominates(o, r)}

\* aggregate_qwen38_results.py refuses the whole directory for one such file.
RaisesNormalize == \E p \in Points : disk[p].defect # "none" \/ disk[p].completed # disk[p].asked

\* aggregate_public_matrix.py, of what suite.json says now.
RaisesLeast == \E p \in Present(manifest) : ~Valid("least", disk[p], manifest, p)
At(b, c) == {p \in Present(manifest) : Backend(p) = b /\ Level(p) = c}
Eligible_Fault(b, c) == \A p \in At(b, c) : Work(p) \in Primary => ~disk[p].figure.late
Eligible(b, c) == /\ Primary \subseteq {Work(p) : p \in At(b, c)}
                  /\ \A p \in At(b, c) : Work(p) \in Primary => ~disk[p].figure.late
Admissible(b) == LET cs == {c \in SettingTable[manifest].levels : Eligible(b, c)}
                 IN  IF cs = {} THEN 0 ELSE Max(cs)
Winner(b) == ~RaisesLeast /\ Admissible(b) # 0 /\ Selected(manifest, {b}) \subseteq Present(manifest)

-----------------------------------------------------------------------------
(* Properties *)

TypeOK ==
  /\ family \in Families
  /\ \A p \in Points : /\ disk[p].defect \in Defects /\ disk[p].figure \in Figures
                       /\ disk[p].completed \in 0..disk[p].asked
                       /\ command[p] \in Settings \cup {""}
  /\ manifest \in Settings \cup {""}
  /\ \A l \in Lanes : /\ proc[l].pc \in {"idle", "recording", "next", "starting", "running", "complete"}
                      /\ proc[l].set \in family \cup {""}
                      /\ Running(l) => proc[l].todo # {} /\ proc[l].set # ""
                      /\ proc[l].todo \cup proc[l].checked \subseteq Points
  /\ torn \in BOOLEAN /\ raced \in BOOLEAN /\ crossed \subseteq Points
  /\ starts \in 0..MaxStarts /\ bad \in 0..MaxBad

Finished(l) == proc[l].pc = "complete" /\ ~proc[l].dry
Checks(check) == \E s \in family : Trait(s).found = check

\* However often and with whatever configuration run_aiperf_matrix.py is started on
\* a directory, in two processes too, all that is measured there is measured under
\* the configuration that benchmark-config.json records; unless two starts of
\* different configurations overlapped between the check of the record and its
\* writing, where the script has no lock.
OneConfiguration ==
  ~raced /\ (\E s \in family : Trait(s).record = "pinned") =>
    \A p \in Points : Exists(p) => manifest # "" /\ disk[p].arm = SettingTable[manifest].arm

\* A script that validates, or that writes at its end, and that reached its end has,
\* for every point it was asked for, an export its own check accepts, whoever
\* measured it.
CompleteIsValid ==
  \A l \in Lanes : LET s == proc[l].set IN
    Finished(l) /\ (Trait(s).found \in {"exact", "least"} \/ Trait(s).store = "end") =>
      \A p \in Selected(s, proc[l].given) : Exists(p) /\ Valid(Trait(s).found, disk[p], s, p)

\* command.json is written at every start of a point, by dry runs too; it still names
\* what the export next to it was measured with, unless a dry run of another setting
\* found the point without an export and came by during or after its measurement.
CommandDescribesExport ==
  (Checks("exact") \/ Checks("least")) =>
    \A p \in Points \ crossed :
      Exists(p) => command[p] # "" /\ SettingTable[command[p]].arm = disk[p].arm

\* A start after an interruption measures no point again that has an export, except
\* with the shell sweeps and the matrices of rented GPUs, which start over.
NothingTwice ==
  [][\A p \in Points : Exists(p) /\ ~Checks("again") => disk'[p] = disk[p]]_vars

\* The suite that run_public_matrix.py finished aggregates as complete while it is
\* the one suite.json names.  Of a matrix of run_aiperf_matrix.py the aggregator
\* refuses only what lacks a figure, which the run itself does not look at.
CompleteAggregates ==
  \A l \in Lanes : LET s == proc[l].set IN
    Finished(l) /\ manifest = s /\ proc[l].given = SettingTable[s].backends =>
      /\ Complete(s)
      /\ Trait(s).record = "latest" => ~RaisesLeast
      /\ RaisesExact(s) /\ Trait(s).record = "pinned" =>
           \E p \in Present(s) : disk[p].defect = "metrics"
      /\ RaisesNormalize => bad > 0

\* Only a suite whose four primary profiles were all measured at the admissible
\* concurrency, with enough requests and in time, can win, whatever part of the
\* matrix the last start named.
WinnerMeasured ==
  (manifest # "" /\ Trait(manifest).record = "latest") =>
    \A b \in Backends : Winner(b) =>
      \A w \in Primary : \E p \in Points :
        /\ Backend(p) = b /\ Work(p) = w /\ Level(p) = Admissible(b)
        /\ disk[p].completed >= SettingTable[manifest].minimum
        /\ disk[p].defect = "none" /\ ~disk[p].figure.late

\* Every measured row is beaten or equalled by a row of the Pareto frontier, also
\* when rows have the same figures, and a row of the frontier of all backends is on
\* that of its own.
ParetoCovers ==
  \A s \in family : \A w \in SettingTable[s].work :
    LET rows == Rows(s, w) IN
      /\ \A r \in rows : \E o \in Pareto(rows) :
           /\ disk[o].figure.total >= disk[r].figure.total
           /\ disk[o].figure.user >= disk[r].figure.user
      /\ Pareto(rows) \subseteq BackendPareto(rows)

\* What is found on disk: one configuration for a pinned directory, commands that
\* describe their exports, and a valid export for every point of a finished script.
DirectoryTells == TypeOK /\ OneConfiguration /\ CommandDescribesExport /\ CompleteIsValid

\* What the aggregators make of it: they accept what was completed, name a winner
\* only when it was measured, and leave no row without one at least as good.
ReportsMeasured == CompleteAggregates /\ WinnerMeasured /\ ParetoCovers

=============================================================================
