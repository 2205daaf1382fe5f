# TLA+ models of token-labs

token-labs runs an LLM inference platform: model servers on a small GPU cluster,
a gateway and a model aggregator in front of them, scripts that deploy,
benchmark and promote models, and an incident responder that watches them. This
directory models the parts that are stateful, concurrent or long-running,
checks them with TLC on small instances, and proves theorems about the central
ones with TLAPS for every size.

1. [Inventory](#1-inventory)
2. [How the models read the code](#2-how-the-models-read-the-code)
3. [The modules](#3-the-modules)
4. [The runs](#4-the-runs)
5. [Fairness](#5-fairness)
6. [The theorems](#6-the-theorems)
7. [Where code and documents disagree](#7-where-code-and-documents-disagree)
8. [What is not modelled](#8-what-is-not-modelled)
9. [Plan](#9-plan)

Paths in this file are relative to the root of the repository.

## 1. Inventory

How the parts meet:

    clients -> gateway (AIGatewayRoute) -> model aggregator -> model servers
                 ^            ^              |  asks /v1/models, lists Services
                 |            |              v
     gen_aigwroute.py    promotions ----> Kubernetes API
     deploy_model.sh                         ^          ^
     batching experiment, test matrix -------+          |
     Alertmanager -> incident harness -> LLM, Slack ----+ (deletes pods)
     load clients, checks, monitor -> relay, aggregator, model servers
     measurement matrices -> result directories -> aggregators, reports

| Component | State | Operations | Meets others through | What is hard |
|---|---|---|---|---|
| Aggregator, chat (`aggregator.py`) | in-flight counters, open upstreams, who owns each slot | `admit`, `release`, `proxy_chat_completions`, the streaming generator | reads the routes of discovery; HTTP to backends | hand-over of a slot to a generator; disconnects, clients that stop reading, cancellation at every await; limits; restart |
| Aggregator, discovery (`aggregator.py`) | catalog, routes, time of last success | `refresh_cache`, `background_refresh`, `list_models` | Kubernetes API, `/v1/models` of every backend | answers gathered over time; failures half way; a backend that hangs; staleness limit |
| Gateway routes (`gen_aigwroute.py`, `deploy_model.sh`) | AIGatewayRoute and three kinds of managed objects in the cluster | deploy, tear down, discover, check, apply, prune | the Kubernetes API, other operators | no lock; partial applies; three discovery lists taken one after the other |
| Promotions (`deploy/upgrades/dynamo-1.5.1`, `scripts/qwen38-27b`, `scripts/openrouter`) | Services, routes, Deployments, recorded evidence | stage, promote, retire, add a route, repair discovery, apply or render a candidate | Kubernetes API, other operators | several objects patched one by one; reads that are old when they are written back; interrupted runs that must be completed |
| Batching experiment (`run_batching_experiment.py`, `resume_batching_confirmation.py`) | the script's flags and cursor, the production worker, a test namespace | stop, configure, sweep, confirm, restore, resume | Kubernetes API, load generator | two pods for one GPU; calls that take effect and fail; signals, kills, reruns |
| Test matrix (`scripts/qwen35-27b/orchestrate.sh`, `bench.py`, `run-spark01-remaining.sh`) | production pods of spark-02, benchmark pods, result files, two lanes | phases A to D, skip, clear, apply, wait, measure, restore | Kubernetes API | two lanes at once, `set -e` and where bash ignores it, a background lane that outlives its script, resumption |
| Measurement matrices (14 scripts under `scripts/`) and their aggregators | result directory: exports, commands, recorded settings; one file for all points | start, resume, measure, fail, interrupt, aggregate | the file system, other processes | directories started again with other settings, or by two processes at once; dry runs; reruns; what an aggregator takes for complete |
| Load clients and checks (`run_agent_benchmark.py`, `check_early_429.py`, conformance suites, soak, cutover, ...) | lanes, retries, rows, verdict | send, retry, hold, judge, clean up | a provider with few slots, the relay | verdicts about a server from answers alone; retries of calls that still run; what is left behind |
| Synthetic monitor (`synthetic-monitor/monitor.py`) | gauges | probe, publish | gateway, scraper | a scrape in the middle of a publication |
| Flint relay (`deploy/models/flint-nvfp4/provider/relay.py`) | one upstream per request | proxy, stream | one model server | the same hand-over as in the aggregator |
| Open-loop load generator (`run_batching_open_loop.py`) | tasks, records, stop event and reasons | launch, request, monitor, cancel, summarise | HTTP to a model server | cancellation of tasks in any stage; verdict from partial records |
| Incident harness (`incident-harness/`) | background tasks in memory, the state of each triage | webhook, enrich, classify, act, notify | Alertmanager, Loki, Prometheus, LLM, Kubernetes, Slack | interleaved triages; stale alerts; an LLM that answers anything; restart |

The properties that make a component correct are stated at the end of its
module; section 4 lists them by run. `PROJECT.json` lists every component, the
ones left out too, and the hazards, each at its line, with the properties aimed
at it.

## 2. How the models read the code

*Steps.* In the asyncio programs (aggregator, load generator, incident
harness, agent benchmark) an action is what runs between two awaits that can
suspend. In the scripts it is one call to the API server, one wait, or one
measurement; every such call may also fail, before or after it took effect. The
environment (pods, backends, clients, the API server, other operators) has
actions of its own, and they interleave with everything.

*Data.* Model names, pods, routes and prompts are members of small sets.
Contents of messages are left out unless a decision depends on them: of a
backend's answer the models read which IDs it has, or that it failed, or hangs;
of an LLM's answer the category, the flag and whether its severity is a string;
of a benchmark export how much of it completed, what is wrong with it and two
figures; of a route which rules it has.

*Families of scripts.* Fourteen scripts measure a matrix of points, fifteen
clients load a server, ten scripts patch the cluster. Each family is one module:
the loop is written once, and a table of traits (`Traits` in
`MeasurementMatrix` and `LoadClients`) or of programs (`Program` in `Rollout`)
says in what a script differs. `map` leads from each entry of a table to the
script it stands for.

*Time.* Only discovery compares times. `ModelDiscovery` counts ticks; the clock
cannot outrun a timer or a timeout that the code sets, and can outrun what the
code leaves open. `LoadClients` has a clock with three values: before the
shortest measurement is over, after it, after the deadline. Elsewhere a timeout
is an outcome a wait may have at any moment.

*Faults beside the code.* `X_Fault` (or `X_` followed by what it does) is a
definition of the code (`X`) with a plausible bug. No action uses it. Put in the
place of `X`, it makes the property it is paired with in `PROJECT.json` fail;
each property of a passing run has one.

*Histories.* Variables that the code does not have are called history in their
module, and no guard of the code's actions reads them (`MaxRuns`, `MaxAttempts`,
`MaxChanges`, `MaxSlips`, `MaxBad`, `MaxFaults` and `MaxActs` bound the
environment and the people, not the code).

## 3. The modules

### Admission and chat: `SlotPool`, `ModelAggregator`

`SlotPool` is what admission promises, without counters: a pool of `Capacity`
slots, of which a limited model takes at most its limit; a client that asks
hears at once whether it has one. `ModelAggregator` is the handler:
`_inflight` and `_model_inflight` as the code keeps them, and for each client
the point at which its handler is suspended (`phase`). Its header draws the life
of a request and says who owns the slot when.

`admit` and `release` take an asyncio lock whose critical sections never await;
the lock is therefore never contended, acquiring it does not suspend, and both
are part of their caller's action. A request that is answered 400, 401, 404 or
503 leaves no trace in this state and is no step. An upstream exchange can end
in every way the code distinguishes: `send` raises or is cancelled
(`SendFailed`), the body is read, fails or is cancelled (`ReadEnded`,
`ReadCancelled`), the stream ends, is cancelled inside the generator, or is
cancelled at a yield so that the generator is only closed later by the event
loop (`StreamCancelled`, `GeneratorFinalized`), or the response is dropped
before the generator's first step, in which case its `finally` never runs
(`StreamDropped`). A client that stays connected may stop reading and read again
(`Stall`, `ReadsAgain`): the generator is then suspended at its `yield`, because
the server's send waits without a timeout, and the stream cannot end although
the backend has.

### Discovery: `ModelDiscovery`

`refresh_cache` suspends twice: in the Services call and in the `gather` of all
backends; `stage` is `listing`, `fetching` or `sleeping`. `Publish` and
`ListFailed` set catalog, routes and `_last_success` together, as the code does
between two awaits. Services are numbered in the order of their URLs, which is
the order in which the code's comprehension lets the last one win. `heard`,
`shown` and `disturbed` are histories for the age of answers.

### Both in one process: `AggregatorSystem`

`ModelDiscovery` extended by an instance of `ModelAggregator`, whose parameter
`ready` is what the two share: a request is looked up in `_model_backends` once
`lifespan` has yielded (`Ready`). `Restart` forgets the memory of both while the
cluster stays. Chat reads the routes and no clock, `GET /v1/models` reads the
clock: `AdmitsOnlyServed` is about the two together.

### The routing table: `GatewayRoutes`

Operators deploy or tear down a workload and then run the generator, each from
a checkout of his own. The three discovery lists are three steps; the checks
for emptiness and ambiguity follow; `kubectl apply` of the file can end with
any part of it applied; `apply_and_prune` lists and deletes kind by kind.
`--discovery live`, `--check` and `--stdout` change nothing in the cluster and
are left out, as is the wait for readiness and the `sleep 5` after a change.

### The promotions: `Rollout`

A script is a sequence of steps: `Read` an object, `Gate` (evidence, readiness,
or something looked up without being kept), `Patch`. `value` and `version` are
what the API server holds, `proc` is what each operator's script has read and
where it is. A patch tests the `resourceVersion`, the value that was read, both,
or nothing, depending on the script (`Unchanged`); what is applied or rendered,
the backends of the two routes among it, is not tested (`Applied`). A script
that compares first sends no patch for what is already as wanted (`Compares`);
every script stops at the first step that fails and undoes nothing. A patch of a
Deployment may take its pods out of service until new ones are up (`Restarted`,
`ComesUp`): the serving aggregator by the repair of discovery, the candidate by
its application.

Any two scripts run at the same time and each may be interrupted anywhere.
Others roll back the gateway, the Service of Qwen3.8 or the API Service of Muse
(`RollBack`), restart the worker, regenerate the route or lose a backend.
`MaxActs` bounds the starts of scripts and these changes together.

What a model needs to be reached is `Hops`: the winner among its rules, the
gateway and the backend of the rule, and for Qwen3.8 the Service behind its
aggregator with the server it selects. `met` is a history of what a running
script has come across: a write by others, an outage, or a rival. Rivals are
the two promotions of Muse to each other, and the promotion of an aggregator to
the repair of discovery (of Qwen3.6) and to the rendering of Flint's gateway:
both act on the gateway that they have looked up, and no test of theirs covers
the Service that says which it is. Without that exception `DoneMeansDesired` is
false.

### The maintenance experiment: `BatchingExperiment`

The script as a list of tasks (pilot, baseline, sweeps, confirmations), the
steps of `configure`, `run`, `sweep` and `restore`, the cluster's controllers,
SIGTERM and SIGKILL, reruns and the continuation script. Measured latencies are
outcomes. Evictions of the test pod by the node, and a continuation that is
pointed at an older directory, are left out.

### The test matrix: `TestMatrix`

A start of `orchestrate.sh` drives up to two lanes through their jobs; a lane's
step is where `run_benchmark` stands (`next`, `apply`, `ready`, `load`, `level`,
`drop`). What makes the scripts hard is where a failure goes. Lane `a` of phases
A to D runs under `set -e`, so a failing `kubectl apply` or an exception of
`bench.py` ends the whole script (`Dies`). Lane `b` of phase A and both lanes of
`run-spark01-remaining.sh` stand left of `|| true`, where bash ignores `set -e`,
and run in the background, where they survive their script. `Strict` and
`ContinuesUnready` say which is which. `bench.py` counts a failed level as done,
saves after every level and resumes from the file of its own date; the skip
looks at the oldest file of any date. `FileFlags` is what the manifests hold; no
action reads it, since `sed` changes them nowhere (section 7). `slip` records which kinds of mishap a
behaviour has had; the properties name those that may excuse them.

### Matrices and what is made of them: `MeasurementMatrix`

One directory, one family of settings that somebody uses with it, two processes.
`found` is what a script does with a file that is there: check it exactly, check
it for the least, skip it, or measure again. `record` is what it writes about
its settings: nothing, once and for all, or anew at every start. The check of a
record (`Start`) and its writing (`Record`) are two steps, as in
`run_aiperf_matrix.py` and without a lock, and a dry run goes through the points
beside a process that measures and writes their `command.json` (`DryRun`). Two
histories say when that did harm: `raced` (a start checked while another one, of
another configuration, had yet to write) and `crossed` (points whose command is
a dry run's of another setting). Two processes that measure are given different
backends, which is how the scripts are used. The other traits are
what a backend that is not ready ends, what a failed measurement ends, and
whether all points share one file. The points a process has left are a set that
it takes in the order of its loops (`Rank`). The aggregators (`RaisesExact`,
`RaisesLeast`, `RaisesNormalize`, `Pareto`, `Winner`) are operators on the disk:
they may be run at any moment, so their properties are invariants.

### Load clients, checks, relay and monitor: `LoadClients`

Lanes send calls to a server with `limit` slots. `shape` is how lanes are
started: sessions behind a semaphore, samples one after the other, a burst
behind a barrier, a level that is refilled, a series until a deadline, batches,
the cases of a suite, a probe for ever. A server under an admission check may
keep its limit, admit one too many, queue, or refuse without Retry-After; the
others keep their limit. A call may be refused, cut, broken, time out or get an
error status, `MaxFaults` times; a call that is given up goes on at the server
until `Reap`, and through the relay its slot may be lost for good
(`DropUnstarted`). The monitor's gauges are set one by one (`Publish`), and
every state in between is one a scrape can read. The refusals of a burst are
judged by their 95th percentile, as in `check_early_429.py`: from twenty on, one
in twenty may be late. An exception that nothing catches leaves no report
(`Escaped`).

### One measurement: `OpenLoopMeasure`

`measure()` of the load generator: the launcher, its request tasks, the monitor,
cancellation and the verdict. A task that is cancelled before its first step
(`dropped`) runs nothing, as in asyncio. The early error for too few prompts and
the statistics of the summary are left out. Its `MeasureInit`, `MeasureNext` and
`MeasureSpec` are named for the function, because the theorems about it are kept
with those of the experiment that runs it (`BatchingExperimentProofs`).

### The incident responder: `IncidentHarness`

Webhooks, their background tasks in order, the states ENRICH, CLASSIFY, ACT and
NOTIFY, and the pods of one Deployment by number (a new pod has a new name).
From the LLM's answer to the call of Slack nothing awaits, so ACT is part of
`Classified`. A restart drops all tasks. Its `HarnessInit`, `HarnessNext` and
`HarnessSpec` are named for it because its theorem is kept with those of
`GatewayRoutes` (`GatewayAndHarnessProofs`).

## 4. The runs

All `pass` runs are exhaustive. CHECK_DEADLOCK is off where the system really
stops (a script or a measurement that has ended, a bound that is used up). A
property that is a conjunction names the parts it consists of; each part has its
own definition and comment in the module.

| Run | Instance | What it shows |
|---|---|---|
| `aggregator` | 3 clients, 2 models, capacity 2, first model limited to 1 | `SlotAccounting`: counters are the slots held, and no key stays at zero. `ExchangeBound`: exchanges open at the backends respect both limits. `PoolSpec`: the handler implements `SlotPool`. `EndedStreamReleases`, `FinishedReleasesOrLost`: a stream that has lost its client or its backend gives its slot back, unless its client is connected and does not read; besides that, a response dropped before its generator ran is the only leak. |
| `discovery` | 2 Services, 1 model ID, sleep 3, listing 1, fetch 2 ticks, 3 changes | `CatalogIsRoutable`: catalog and routes agree, and are empty after a failure. `AvailableUndisturbed`: the limit of two intervals causes no 503 by itself. `FreshUndisturbed`: how old a served ID can be. `RoutesConverge`: once the cluster is quiet the routes become, and stay, what the backends report, unless a hung backend holds the cycle. |
| `aggregator_system` | 1 Service, 2 clients, 2 changes | `AdmitsOnlyServed`: a slot is given only for a model of the catalog that `GET /v1/models` serves with 200 at that moment, over failed listings and restarts; chat outlives a catalog that has become too old in one case only, while a backend holds up the discovery cycle. |
| `gateway_routes` | 2 operators, 4 workloads, 3 runs | `RunRepairs`: one undisturbed run makes the table right, whatever failed and concurrent runs left. `EmptiedByTeardown`: only a teardown takes the last model off. |
| `rollout` | 2 operators, 10 scripts, 3 script runs, changes by others and outages in all, 6 clusters | `InOrder`: a step of a script leaves no rule without the gateway, backend or Service it relies on, but those it found so, unless someone else has written since the script began. `NoBlackout`: no step of a script takes a published model out of reach or changes a candidate that is selected, unless someone else has written or a backend has failed since its start, or the step is the announced restart of the serving aggregator. `RulesPreserved`: a patch of the AI route changes no other model's rules. `DoneMeansDesired`: a script that ends has what it promises, after interrupted and staged runs too, unless someone else wrote or a rival did. |
| `batching_experiment` | 2 arms, 14 prompts, 1 prompt per measurement, 2 starts | `GpuExclusive`: production worker and test pod never share the GPU. `MeasuresItsArm`: a result is filed under the setting that ran. `PromptsFresh`: no prompt twice, not even after a continuation. `VerifiedRestores`: a restoration recorded as verified is one. `Ends`: no wait is for ever. |
| `batching_experiment_restore` | 2 arms, 1 start, no signal | `WorkerRestored` violated: see section 7 |
| `test_matrix` | 7 jobs, 2 starts, 2 dates, any 2 kinds of mishap | `Spark02Kept`: production and a benchmark share the GPU of spark-02 only after one of three named mishaps (`ExclusiveOnSpark02`), and production is back when no script runs (`ProductionBack`). `FilesTell`: saved levels were measured on the pod of the job they are filed under, unless a deletion failed or a lane outlived its script (`OwnPod`), are not lost (`SavedStays`), and a skipped job was tried in full (`SkipsOnlyTried`). That the pod runs with the flags of the technique is false, see section 7. |
| `measurement_matrix` | 13 directories, 8 points, 3 starts, 2 processes, 1 mishap | `DirectoryTells`: one configuration in a pinned directory, unless two starts with different ones overlapped while they recorded it; commands that describe their exports, but for points a dry run of another setting crossed; a valid export for each point of a finished script. `ReportsMeasured`: what is complete aggregates, a winner was measured, every row is covered by the Pareto frontier. `NothingTwice`: a rerun measures nothing again, in the scripts that resume. |
| `load_clients` | 15 clients, 4 lanes, limit 1 or 2, 2 mishaps | `VerdictRight`: passed means served (`PassedMeansServed`); an admission check passes only servers that keep the limit (`BurstSound`, the refusals judged by their 95th percentile), and those that do unless a slot was freed early (`BurstComplete`). `LoadAsReported`: the concurrency named bounds the load, but for calls that were given up (`LoadAsNamed`), and retries are bounded. `FiguresFresh`: a scrape that reads success reads no figures from before the last failure. `EndsClean`: every client stops, at its first failure where it says so, leaves no slot but those the relay loses, and no live key. |
| `open_loop` | 4 requests | `FinishedIsSettled`: nothing still runs against the server when a measurement returns, and every request that ran has its record. `InvalidHasReason`, `MeasureEnds`: a measurement returns. |
| `incident_harness` | 2 webhooks, at most 2 alerts each, 2 pods | `TriageSound`: the pod that is deleted is the one of the alert (`DeletesWhatFired`), and an accepted alert is in its queue until Slack was called for it, its severity was unreadable or a restart lost it (`NoneVanishes`). `Notified`: an alert reaches Slack, whatever else fails, unless the harness restarted or its severity was unreadable. |

The type invariant of a module is checked in its run too, by itself or as the
first conjunct of `GpuExclusive`, `RunRepairs`, `InOrder`, `Spark02Kept`,
`DirectoryTells`, `VerdictRight` and `TriageSound`.

Why the bounds are enough:

- *aggregator.* Three clients are the fewest with which both limits refuse while
  a slot is being handed over, closed or lost by others; two models the fewest
  with a limited and an unlimited one. The theorems cover all sizes.
- *discovery.* Two Services let one answer arrive while the other is pending or
  hangs, and let two URLs report the same ID. Sleep 3, listing 1 and fetch 2 is
  the tight case `KubeBound + FetchBound = Interval`. Three changes allow one in
  each stage. The counters stop where no comparison tells them apart.
- *gateway_routes.* The four workloads contain one name served by two
  frameworks, two names with one slug, and a plain one; three runs allow two
  overlapping ones and one undisturbed one. The theorems cover all sizes.
- *rollout.* Three acts are two scripts at once with one before or after them
  (an interrupted run, its rerun and a competitor), or with a rollback or an
  outage in between. The six clusters are one before all promotions, one that
  serves Flint and has a rule of Qwen3.8 with another backend, one whose direct
  rule has been regenerated away, two with a frontend that is not ready, and one
  that publishes Qwen3.8 while its graph is not ready. The theorems cover any
  number of each.
- *batching_experiment.* One prompt per measurement is enough for reuse; fourteen
  prompts are enough for an experiment over both arms with a complete
  confirmation of the first, and for one cut off in its confirmation with a
  complete continuation. Two starts allow a rerun or a continuation after every
  way of ending.
- *test_matrix.* One job per lane of phase A, techniques that share a pod with
  a job of phase A or with a remaining one, two dates for a file that is resumed or found by
  a later skip, two starts for a lane that outlives the first, two kinds of
  mishap so that one may hide behind the other.
- *measurement_matrix.* A directory per family of scripts; two backends, two
  workloads, two levels; two settings of a script that differ in what no check
  of an export sees; equal and unequal figures. Three starts are an interrupted
  one, one with other settings, and the one that completes.
- *load_clients.* Four requests against two slots, three sessions against two
  permits; five calls of clients that run until a deadline; two mishaps so that
  a retry can fail as well. The theorems cover any number of each.
- *open_loop.* Four requests can be in four different stages (created, running,
  ended, not launched) when the run is stopped.
- *incident_harness.* Two alerts per response show that one triage does not take
  the next with it, two responses that triages interleave around one pod.

## 5. Fairness

Every liveness property names what it needs:

- `ModelAggregator!FairSpec`: the event loop runs a handler or generator that can
  run. Nothing is assumed of clients and backends. A backend need not finish,
  because the client of the backends has no read timeout: the properties speak
  of backends that have finished and clients that have gone. A connected client
  need not read, because a send to it has no timeout: the steps that need one
  that reads (`StreamStarted`, `StreamEnded`) are disabled while it is `stalled`,
  fairness does not bring it back, and the properties name it as what keeps a
  slot.
- `ModelDiscovery!FairSpec`: the refresh task runs when it can, the API server
  answers or times out (5 s), time passes. A hung backend owes nothing.
- `BatchingExperiment!FairSpec`: the script goes on; every wait in it has a
  deadline (`wait_until`). The cluster owes nothing.
- `IncidentHarness!FairHarnessSpec`: each call of a triage has a timeout (10 s for Loki,
  Prometheus and Slack, 30 s for the LLM).
- `OpenLoopMeasure!FairMeasureSpec`: the event loop runs what is ready, and every
  request has a total timeout of 60 s. The monitor may die: no fairness is
  assumed of it.
- `LoadClients!Fairness`: a client's lanes run when they can, time passes for the
  clients that read the clock, and the server answers what it has admitted (each
  call also has a timeout). No mishap is owed.

`GatewayRoutes`, `AggregatorSystem`, `Rollout`, `TestMatrix` and
`MeasurementMatrix` are checked for safety only: their scripts are started by
people, and what they wait for (a pod, a backend, an operator who reruns) is
promised by nobody.

## 6. The theorems

`ModelAggregatorProofs`, for every finite set of clients, every set of models,
every capacity and every table of limits:

- `TypeCorrect`, `AccountingCorrect` (`SlotAccounting`), `ExchangesBounded`
  (`ExchangeBound`);
- `AdmissionImplementsPool`: `Spec => PoolSpec`, the refinement of `SlotPool`.

The inductive invariant has four parts beside the types. `Owned` (a client has
a model exactly while it holds a slot) is what makes `release` use the model the
slot was taken for; `Counts` is the exact content of both counters;
`UpstreamHeld` (an open upstream belongs to a holder) turns the bound on slots
into a bound on exchanges; `Bounds` is the limits. `SlotAccounting` alone is not
inductive. Most steps keep every owner, and one lemma covers
them; `AdmitCounts` and `ReleaseCounts` do the arithmetic of cardinalities for
the others.

`AggregatorSystemProofs`, for every number of Services, every set of models and
manifests, and all times with `KubeBound + FetchBound <= Interval`:

- `TypeCorrect`, `CatalogRoutable` (`CatalogIsRoutable`);
- `CatalogAvailable` (`AvailableUndisturbed`), `CatalogFresh`
  (`FreshUndisturbed`).

Here `Clock` adds up, stage by stage, how old a catalog can be: a sleep, a
listing, a fetch; `Ages` does the same for the answers in it. That the limit of
two intervals is enough follows from the assumption on the times, which the
deployment meets (28 s of sleep; 5 s for the Services call). The hypothesis
`~disturbed` excludes cycles in which the Services call failed or a backend took
longer than `FetchBound`; the code itself sets no limit on that (section 7).
And for the two in one process, with restarts, any clients, capacity and limits:

- `AdmissionsServed` (`AdmitsOnlyServed`).

A client is admitted for a model that has a route; that every route is in the
catalog (`CatalogIsRoutable`) when it is admitted, whichever cycle published the
two, is the first half. The second is `TooOldIsHeldUp`: by `Clock`, a catalog
past its limit belongs to a cycle that has waited longer than `FetchBound` for a
backend. `Placed` keeps the clients where the two modules share them.

`GatewayAndHarnessProofs`, for any operators, workloads, names and slugs:

- `Repair` (`RunRepairs`), `NeverEmptied` (`EmptiedByTeardown`).

`RunRepairs` speaks of a run that is over. `Repaired` says what an undisturbed
run has achieved at each step: it has discovered the deployed workloads of the
frameworks it has listed, has provided for all of them once the file is applied,
and has pruned every kind before the one it is at. What failed and concurrent
runs left needs no invariant at all, which is the point of the theorem. That
nobody else is under way (`Undisturbed`) is what keeps it: a run of others
begins with `Change`, which ends the claim.

And of the incident harness, for any webhooks and any number of pods:

- `Triages` (`TriageSound`).

That no alert vanishes is not inductive. The end of a triage drops the head of
its queue, so the invariant says that Slack was called for it, or its severity
unreadable, when the triage waits for Slack (`HeadsPosted`); a webhook fills its
queue, so this must have been empty and at its start (`QueuesAnswered`). Queues
hold at most two tasks, a bound of the model (`BoundedSeq`).

`RolloutProofs`, for any operators, any number of script runs, changes by others
and outages, from any cluster that satisfies `StartsAssumption`:

- `Ordered` (`InOrder`), `Preservation` (`RulesPreserved`), `Availability`
  (`NoBlackout`), `Completion` (`DoneMeansDesired`).

A script writes long after it has looked. The invariant therefore says of each
operator what the steps behind him are still worth, by what his script has met
since. `ProgressOf` speaks of the steps (`Done`: while nobody else has written,
Muse's Service has the promoted frontend once it is patched, a backend is there
once it is applied, the gateway and the candidate are as the gates found them;
while no backend has failed either, the backends are that no script restarts),
`SnapshotsOf` of the reads (a version that is still current comes with the
current value; the retirement has read the direct rule). `Orderly` is what every
step of anybody leaves alone; by `Bystander` a step of one operator keeps the
invariant of the others, and `Noticed` and `Passed` are how they come to meet
something. `Programs` looks through the ten scripts once and finds, before each
patch, the reads, gates and applications it needs; `Tested` concludes that a
patch of the AI route is applied to the list as it is. `Completion` needs
`Keeps`: what a script has read (`Kept`) or patched (`Left`) at an earlier step
is still so at its end, some of it for good, some of it while neither others nor
a rival have written (`Undisturbed`). The patch of another script cannot undo it,
because it adds to what it read and is refused when that is old; the lemma
`Writes` says how objects come to change at all.

`BatchingExperimentProofs`, for every set of arms, every plan and any number of
prompts and starts:

- `Exclusion` (`GpuExclusive`), `ArmMeasured` (`MeasuresItsArm`), `Freshness`
  (`PromptsFresh`), `Restoration` (`VerifiedRestores`).

The invariant locates the script: `Exclusive` (while the namespace may hold a
test pod the worker has been seen stopped and nobody gives it replicas back),
`Empty` (at which steps the namespace is known to hold nothing), `Stages` (which
flags go with which step), `Configurations` (what the cache of the script says
of the deployed setting), `Prompts` (everything sent lies before the cursor that
is saved). `GpuExclusive` alone is not inductive: that the pods are gone is
known only at some steps, and has to be carried from the wait that saw it to the
patch that relies on it.

`BatchingExperimentProofs` also holds the theorems about one measurement
(`OpenLoopMeasure`), for every number of requests:

- `TypeCorrect`, `Settled` (`FinishedIsSettled`), `Explained`
  (`InvalidHasReason`).

Their invariant (`MeasureInv`) relates tasks to records (`TasksInv`), every irregular end to a
stop reason (`ReasonsInv`) and the launcher's place to what has been launched
and still runs (`LauncherInv`).

`MeasurementMatrixProofs`, for any points, settings, families of settings,
starts and mishaps:

- `Directory` (`DirectoryTells`), `MeasuredOnce` (`NothingTwice`), `Reports`
  (`ReportsMeasured`).

Two processes write to the directory and there is no lock. What keeps two that
measure apart is that they are given different backends (`Apart`), and two
starts that record a configuration have the same one or have `raced`
(`Together`); a dry run is kept away by nothing, and `crossed` says where it
mattered. So a point that one of them
measures stays without an export until that one writes it (`Launched`), and the
points one has left behind it stay measured and valid (`Behind`). Both run under
the settings that are recorded (`Recorded`), and have a point to go to until
they are complete (`Under`). The scripts enter the
proof through what `TraitFacts` says of their table. `Reports` is about the
aggregators: a record names settings of its own directory (`Named`), and every
export is complete and without defect while nothing has gone wrong, those still
in memory included (`Whole`). That each measured row has one of the frontier at
or above it is `Topmost`: under a strict order a finite set that is not empty
has an element with nothing above it.

`TestMatrixProofs`, for any jobs, lanes, levels, pods, starts and mishaps:

- `Spark02` (`Spark02Kept`), `Files` (`FilesTell`).

The GPU of spark-02 is guarded by no lock either, only by where the script is.
`Current` (only the lanes of the last start run, unless one outlived its script)
and `Second` (of these only lane `b` of phase A has jobs for spark-02) place a
job of that node; `Held` says that a benchmark pod there is the one a lane has
created and not yet torn down; `Away` and `Back` say at which points of the
script production is gone and there. Each part is claimed only for behaviours
without the mishaps that break it, and the steps that break it note them: the
theorem says that the notes are complete. That `bench.py` can trust its count
after a resumption is part of the types (`ResumedCount`). `Files` follows what is
measured from the pod to the file (with which flags the pod was started is not
part of it): a lane that tolerates failures has cleared
the pod it applies to (`Cleared`), what `bench.py` has in memory contains its
file and was measured under the same technique (`Remembered`), and what is not
left of a job has been tried (`Tried`); then the same is true of every file
(`FileTold`). Two lanes that run at once have no pod in common (`LanesApart`).

`LoadClientsProofs`, for any number of lanes, permits, turns, requests and
mishaps, and for every client of the table:

- `Verdict` (`VerdictRight`), `Load` (`LoadAsReported`), `Freshness` (`FiguresFresh`), and two parts of `EndsClean`: `Revocation`
  (`KeyRevoked`) and `Halting` (`StopsAtFailure`).

Fifteen clients share the handlers, and what the table says of each is looked up
once (`KindOf`). `Ways` sorts the handlers into few kinds of steps: a call ends
(`Ending`, with what `EndOf` says of its end), is admitted or waits, a stream is
released, lanes start or leave (`Silent`), the monitor publishes, the server
finds a client gone (`Reaped`), or the client moves as a whole (`Overall`). Each
part of the invariant is then shown for each kind. `Sized` keeps the slots within
the server's capacity and every lane where its client can have it: the count of
generations is the cardinality of a set that a step changes by one element
(`OneMore`, `OneLess`). `Staged` is what the stages mean. The rest compares what
the client has counted with what has happened: `Counted` (every call has ended or
is out), `Rowed` and `TurnsRowed` (every end, or every turn that is over, has its
row), `NothingBad` (no bad row, no bad end), `Judged` (the verdict is still true
of the counts, the percentile included), `Bursts` (a refusal met a full server, a call that waited is seen
in the answers, and until a slot is freed early the 200s are the slots held),
`Retries`, `Loads` and `Fresh`. None of the properties is inductive; a verdict is
read off the counts of a run that is over, so all of these are needed at its
end. `Halting` adds that what is not a whole number of batches is the answers of
the last one (`Remainder`).

The proofs assume only the named ASSUMEs of the modules (finiteness, numbers
that are numbers, the relation of the times, what the earlier promotions have
left, which pods and lanes belong to which node), which TLC also evaluates.

Model-checked only: all liveness properties, those within `EndsClean` included
(liveness under fairness and ENABLED are out of reach of the proof system used
here, as is induction over recursive definitions).

## 7. Where code and documents disagree

One is a run that finds the property violated, and an entry of `findings` in
`PROJECT.json` with the quotation:

- `batching_experiment_restore`: if the deletion of the test namespace fails or
  its wait times out, `restore()` ends before it gives the production worker its
  replicas back. In the run nobody signals the script (`UninterruptedSpec`), and
  the trace ends with the failed deletion while the worker has no replicas.

Five more statements of documents are refuted by configurations that are kept
beside the runs. `tlc -config <cfg> <module>` finds each within seconds:

- `MCModelDiscoveryHang.cfg`, `ListsForever` (module `MCModelDiscovery`): one
  backend that accepts `/v1/models` and never answers ends discovery for every
  model. The gather has no timeout, and the client's read timeout is None. The
  README of the aggregator promises a refresh every 28 seconds.
- `MCGatewayRoutesPrune.cfg`, `PrunesAbsent` (`MCGatewayRoutes`): the Service
  rendered for a model under llm-d is never pruned when the model moves to
  another framework, because its slug is still wanted.
- `MCIncidentHarnessSlack.cfg`, `AlwaysNotified` (`MCIncidentHarness`): an LLM
  answer whose severity is null or a number raises before Slack is called.
- `MCOpenLoopMeasureRecords.cfg`, `RecordsAllLaunched` (`MCOpenLoopMeasure`): a
  request cancelled before its task's first step leaves no line in
  `requests.jsonl`.
- `MCTestMatrixFlags.cfg`, `TechniqueApplied` (`MCTestMatrix`): `sed` edits
  single lines (`orchestrate.sh:142`, `:227`, `:374`), and the manifests have the
  name and the value of an `EXTRA_*_ARGS` variable on two (`pods-vllm-fp8.yaml:75-76`,
  `pods-sglang-fp8.yaml:75-76`). So every one is applied unchanged, and every
  technique is measured on a baseline pod (`FileFlags`), while `bench.py:50-51` and
  `orchestrate.sh:126` say that the flags are applied. Flags that cannot be looked
  up have the same result: `bench.py:271-274` has none for a technique it does not
  know, and `|| echo ""` (`orchestrate.sh:135`) makes none of a failure.

Met while modelling, and visible in a qualification of a property:

- `check_responses_auto.py`: a connection that breaks while an answer is read
  raises `IncompleteRead`, which is no OSError; it leaves the loop, and there is
  no report (`Escapes`).
- `check_early_429.py` counts the 200s of the whole run, not those held
  together: a stream that ends early lets a server that keeps its limit fail
  (`seen.early` in `BurstComplete`).
- `run_aiperf_matrix.py` looks whether the configuration of the directory is
  recorded and writes it some lines later (lines 101-103), without a lock: two starts
  with different configurations can both go on (`raced`). A dry run rewrites
  `command.json` (line 123, `run_public_matrix.py:239`) beside the process that
  measures (`crossed`).
- `run_agent_benchmark.py` leaves failed turns out of the figures it saves (lines
  330 and 503) and saves no count of them, so no property holds a report of it
  against what was sent.
- `check_early_429.py` compares the 95th percentile of the refusals with its
  limit: from twenty refusals on, one in twenty may be late.
- The aggregator waits without limit for a connected client that does not read
  (`aggregator.py:290-291`), and its slot stays taken (`stalled` in
  `EndedStreamReleases` and `FinishedReleasesOrLost`).
- A catalog that is too old is a 503 of `GET /v1/models` and goes on admitting
  requests, while a backend that does not answer holds up discovery (`HeldUp` in
  `AdmitsOnlyServed`).
- `add_route.py` and `add_flint_route.py` look at the gateway's Service and patch
  the route later; promotions of Muse rely on its API Service in the same way.
  Nothing ties the patch to the Service, so a rollback in between, or later,
  leaves a rule without it (`"write"` in `met`).
- `repair_qwen_discovery.py` tests the Deployment it patches and not the Service
  that made it the serving one: a promotion of an aggregator in between leaves
  the repair on a gateway that no longer serves (`Rivals`). Where it does serve,
  the patch restarts it, and the models behind it are out of reach until the new
  pod is ready (`Announced`), as the script's docstring says.
- `check_portal_overload.py` disables the tenant after it has revoked the key; a
  revocation that raises leaves both (`CleanUp`).
- `promote_aggregator.py` and its like read evidence files that name no image or
  template: results of an earlier candidate pass the gate of a later one. A gate
  is one bit in `Rollout`.
- `orchestrate.sh` says it skips a pod that does not become ready; under
  `set -e` the return code ends the script, and with it the restoration of
  production (`died` in `ProductionBack`).

## 8. What is not modelled

- *Declarative configuration*: manifests, Helm values, Envoy and Kuadrant
  policies, dashboards and alert rules are inputs of third-party controllers.
- *Pure transformations*: reports, statistics, price and baseline comparisons,
  publication, the provider document, candidate and EPP-free renderings, the
  website. They read files and write files, with no state from one step to the
  next. (The aggregations that decide about completeness, the frontier and a
  winner are in `MeasurementMatrix`.)
- *Stateless servers and one-shot checks*: the Codex catalog, the checks of the
  1.6.0 candidate, the manual cluster tests, the observers that append a row
  until a deadline.
- *Third-party systems*: Kubernetes controllers, vLLM, Dynamo, the transfer
  protocols between prefill and decode. They appear only as the environment.
  The largest Python file of the repository outside the benchmarks,
  `results/2026-09-01-dynamo-14098/installed-decode-handler.py`, is a recorded
  copy of such code.
- *Notebooks and demonstrations*: the reinforcement learning demo, the bench
  vault.
- *The static provider document and the authentication of the OpenRouter routes*
  in the aggregator: they decide about a request before it touches any state.

Limits of what is modelled: the aggregator runs one replica, as deployed;
deleted pods are pods of Deployments (a StatefulSet reuses names); the operators
of the gateway scripts do not share a checkout; a gateway run and a promotion
are not composed (the promotions see it as `Regenerate`); of the rendered
gateway Deployment only which gateway it is taken from; in the promotions only
Muse stands for the two models of `promote.py`, and only Qwen for the retirement;
two processes that measure into one directory are given different backends; a
resumed job of
`TestMatrix` has at most two levels; the sizes, figures and texts of benchmark
results are members of small sets.

## 9. Plan

Done, in this order: `SlotPool` and `ModelAggregator` with proofs;
`ModelDiscovery` and `AggregatorSystem` with proofs; `BatchingExperiment` with
proofs; `GatewayRoutes` with proofs; `IncidentHarness` with proofs; `OpenLoopMeasure` with
proofs; `TestMatrix` with proofs; `MeasurementMatrix` with proofs; `LoadClients`
with proofs; `Rollout` with proofs.

What could follow:

1. The relay as a component of its own that implements the stream part of
   `ModelAggregator`; here its hand-over is two actions of `LoadClients`.
2. `LoadClients!Early429` composed with `ModelAggregator`, so that the verdict is
   about the aggregator and not about a server assumed to keep its limit.
3. `GatewayRoutes` composed with `Rollout`: what a regeneration does to a
   promotion that is half way.
4. Proofs of the safety that the liveness properties rest on, as `Revocation` and
   `Halting` are for `EndsClean`: which steps can leave a slot of `ModelAggregator`
   without a handler that will release it.
