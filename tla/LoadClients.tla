---------------------------- MODULE LoadClients -----------------------------
(***************************************************************************)
(* The clients that load a provider and judge it from outside: the agent   *)
(* benchmark with its retries, the single-model benchmarks, the admission  *)
(* checks, the conformance suites, the soak and cutover watchers, and the  *)
(* synthetic monitor.  They share one shape: lanes (threads, tasks,        *)
(* sessions) that send calls to a server with a fixed number of slots, and *)
(* a report at the end.  A record of traits says in what a client differs  *)
(* from the others.                                                        *)
(*                                                                         *)
(* The server is modelled from how the clients use it: it admits a call    *)
(* while it has room and refuses it otherwise.  A server that admits too   *)
(* many, queues, or refuses without Retry-After is there for the admission *)
(* checks to catch.  Faults (a stream cut short or broken, a timeout, a    *)
(* refused connection, an error status) are bounded by MaxFaults, the      *)
(* calls of a client that runs until a deadline by MaxCalls.               *)
(***************************************************************************)
EXTENDS Integers, Sequences, FiniteSets

CONSTANTS Lanes,      \* 1..n, enough for every client
          Clients,    \* which of the clients below are run
          Servers,    \* how the server behaves under an admission check
          Sessions,   \* sessions of the agent benchmark
          Burst,      \* requests of an admission check
          Permits,    \* sessions that run at once; threads; slots of a limit
          Turns,      \* turns of a session, samples of the tool call scenario
          Requests,   \* fewest requests of a benchmark with a fixed number
          Deadline,   \* the clock at which a duration is over
          MaxCalls,   \* bound: calls of one client
          MaxFaults   \* bound: mishaps of one run

ASSUME ClientsAssumption ==
  /\ {Sessions, Burst, Permits, Turns, Requests, Deadline, MaxCalls, MaxFaults} \subseteq Nat
  /\ Lanes = 1..Burst /\ Sessions <= Burst /\ Sessions > Permits /\ Permits > 0
  /\ Turns > 0 /\ Requests > 0 /\ Deadline > 1 /\ MaxCalls >= Requests
  /\ Servers \subseteq {"keeps", "over", "queues", "bare"}

VARIABLES client,   \* the client that runs
          server,   \* how its server behaves
          stage,    \* "begin", "warm", "run", "clean", "end"
          lane,     \* per lane: where it is, its turn, its attempt, its step
          slot,     \* per lane: the generations the server runs for it
          clock,    \* 0, 1 = the shortest measurement, Deadline
          ended,    \* how many calls ended in which way
          rows,     \* what the client has recorded: [ok, bad]
          sent,     \* calls sent
          lost,     \* slots a dropped response has left taken
          faults,   \* mishaps so far
          report,   \* NoReport, or the verdict
          key,      \* the portal check's key and tenant
          gauge,    \* the monitor's gauges: the probe each one is of
          seen      \* what the judges ask about the past

vars == <<client, server, stage, lane, slot, clock, ended, rows, sent, lost,
          faults, report, key, gauge, seen>>

(***************************************************************************)
(* The clients.  shape: how the lanes are started; lanes; permits: how     *)
(* many may be busy; calls: turns of a lane; limit: the slots of the       *)
(* server; done: a stream counts only with its [DONE]; via: what the calls *)
(* pass through; warm: calls before the measurement; cases: a suite's.     *)
(***************************************************************************)
Client(shape, lanes, limit, done) ==
  [shape |-> shape, lanes |-> lanes, permits |-> lanes, calls |-> 1,
   limit |-> limit, done |-> done, streams |-> TRUE, via |-> "direct", warm |-> 0,
   cases |-> <<>>]

\* Scenario A: all sessions at once, no slot of their own.
MultiTurn == [Client("sessions", Sessions, Permits, FALSE) EXCEPT !.calls = Turns]

\* Scenario B: one sample after the other.
ToolCall == [Client("samples", 1, Permits, FALSE) EXCEPT !.calls = Turns]

\* Scenario C: more sessions than permits of the semaphore.
Concurrent == [Client("sessions", Sessions, Sessions, FALSE)
                 EXCEPT !.calls = Turns, !.permits = Permits]

\* Nemotron: tasks are refilled until enough calls and time have passed.
Level == Client("level", Permits, 1, FALSE)

\* More requests than the limit, released by one barrier.
Early429 == Client("burst", Burst, Permits, FALSE)
PortalOverload == [Client("burst", Burst, 1, FALSE) EXCEPT !.via = "relay"]

\* One call after the other until the deadline or the first failure.
Soak == [Client("serial", 1, 1, TRUE) EXCEPT !.streams = FALSE, !.via = "relay"]
MonitorProvider == Client("serial", 1, 1, TRUE)

\* The same in several threads, each with its own first failure.
LoadCheck == Client("serial", Permits, Permits, TRUE)

\* One stream across a cutover.
CutoverStream == Client("once", 1, 1, TRUE)

\* Qwen3.8: a warm-up, then batches of one call per thread.
Batches == [Client("batches", Permits, Permits, TRUE) EXCEPT !.warm = 2]

\* The conformance suites: one case after the other, whatever became of the last.
\* A case posts, streams, or sends what must be rejected.
Suite(cases) == [Client("cases", 1, 1, TRUE) EXCEPT !.calls = Len(cases), !.cases = cases]
Conformance == Suite(<<"reject", "plain", "stream", "reject", "tools">>)
Protocols == Suite(<<"plain", "stream", "tools">>)
ResponsesAuto == Suite(<<"plain", "plain", "stream", "stream">>)

\* The synthetic monitor: a probe every interval, for ever.
Probe == Client("probe", 1, 1, FALSE)

Traits == [multiturn |-> MultiTurn, toolcall |-> ToolCall, concurrent |-> Concurrent,
           level |-> Level, early429 |-> Early429, portal |-> PortalOverload,
           soak |-> Soak, monitor |-> MonitorProvider, loadcheck |-> LoadCheck,
           cutover |-> CutoverStream, batches |-> Batches, probe |-> Probe,
           conformance |-> Conformance, protocols |-> Protocols, responses |-> ResponsesAuto]

ASSUME TableAssumption == Clients \subseteq DOMAIN Traits

T == Traits[client]
Mine == 1..T.lanes

-----------------------------------------------------------------------------
Mishaps == {"cut", "broken", "timeout", "unreachable", "error"}
Refusals == {"busy", "late", "bare"}
Ends == {"complete", "accepted", "rejected"} \cup Mishaps \cup Refusals
NoReport == "none"
Gauges_Fault == <<"success", "ttft", "latency", "throughput", "last">>   \* success first
Gauges == <<"ttft", "latency", "throughput", "last", "success">>
Attempts == 4   \* max_retries

At(pc) == {l \in Mine : lane[l].pc = pc}
Generations == UNION {{l} \X (1..slot[l]) : l \in Lanes}
Busy == lost + Cardinality(Generations)
Capacity == IF server = "over" THEN T.limit + 1 ELSE T.limit
Recorded == rows.ok + rows.bad
Running == stage \in {"warm", "run"}

\* A call that posts instead of streaming: the first two steps of a sample, a soak.
Posts(l) == ~T.streams \/ lane[l].step \in {"tools", "plain"}

\* What the call of a turn is.
FirstStep(turn) ==
  CASE T.shape = "samples" -> "tools"
    [] T.shape = "cases" -> T.cases[turn]
    [] OTHER -> "stream"

Init ==
  /\ client \in Clients
  /\ server \in IF T.shape = "burst" THEN Servers ELSE {"keeps"}
  /\ stage = "begin"
  /\ lane = [l \in Lanes |-> [pc |-> IF l \in Mine THEN "idle" ELSE "over", turn |-> 1,
                              tries |-> 1, step |-> FirstStep(1)]]
  /\ slot = [l \in Lanes |-> 0]
  /\ clock = 0 /\ sent = 0 /\ lost = 0 /\ faults = 0
  /\ ended = [e \in Ends |-> 0]
  /\ rows = [ok |-> 0, bad |-> 0]
  /\ report = NoReport
  /\ key = [state |-> "none", tenant |-> "none"]
  /\ gauge = [ttft |-> 0, latency |-> 0, throughput |-> 0, last |-> 0, success |-> 0]
  /\ seen = [peak |-> 0, waited |-> FALSE, early |-> FALSE, failed |-> 0]

-----------------------------------------------------------------------------
(* The client's own steps *)

\* The portal check creates a tenant and a key first; a client with a warm-up
\* sends those calls first.
Begin ==
  /\ stage = "begin"
  /\ \/ /\ client = "portal"
        /\ \/ key' = [state |-> "live", tenant |-> "enabled"] /\ stage' = "run"
           \/ key' = [state |-> "none", tenant |-> "enabled"] /\ stage' = "clean"
     \/ /\ client # "portal"
        /\ stage' = IF T.warm > 0 THEN "warm" ELSE "run"
        /\ UNCHANGED key
  /\ UNCHANGED <<client, server, lane, slot, clock, ended, rows, sent, lost,
                 faults, report, gauge, seen>>

\* Only clients that read the clock let it advance.
Tick ==
  /\ Running /\ T.shape \in {"level", "serial", "batches"} /\ clock < Deadline
  /\ clock' = clock + 1
  /\ UNCHANGED <<client, server, stage, lane, slot, ended, rows, sent, lost,
                 faults, report, key, gauge, seen>>

\* Which idle lanes go on, and which idle lanes have nothing left to do.
LevelOver == (Recorded >= Requests /\ clock >= 1) \/ clock >= Deadline
BatchesOver == rows.bad > 0 \/ (sent >= Requests /\ clock >= Deadline)

Launches_Fault(l) ==   \* no semaphore
  IF stage = "run" \/ (l = 1 /\ Recorded < T.warm) THEN {l} ELSE {}

\* The barrier of a burst lets its parties go when all have come.
BarrierOpens == At("idle") = Mine

Launches(l) ==
  IF stage = "warm" THEN IF l = 1 /\ Recorded < T.warm THEN {1} ELSE {} ELSE
  CASE T.shape = "sessions" ->
         IF Cardinality({k \in Mine : lane[k].pc \notin {"idle", "over"}}) < T.permits
         THEN {l} ELSE {}
    [] T.shape = "burst" -> IF BarrierOpens THEN Mine ELSE {}
    [] T.shape = "level" -> IF LevelOver THEN {} ELSE {l}
    [] T.shape = "serial" -> IF clock >= Deadline THEN {} ELSE {l}
    [] T.shape = "batches" -> IF At("idle") # Mine \/ BatchesOver THEN {} ELSE Mine
    [] T.shape \in {"samples", "cases", "once", "probe"} -> {l}

\* Clients that run until a deadline are bounded by MaxCalls.
Bounded == T.shape \in {"level", "serial", "batches", "probe"}

Launch(l) ==
  /\ Running /\ lane[l].pc = "idle" /\ Launches(l) # {}
  /\ Bounded => sent + Cardinality(Launches(l)) <= MaxCalls
  /\ lane' = [k \in Lanes |-> IF k \in Launches(l) THEN [lane[k] EXCEPT !.pc = "call"]
                              ELSE lane[k]]
  /\ UNCHANGED <<client, server, stage, slot, clock, ended, rows, sent, lost,
                 faults, report, key, gauge, seen>>

Leaves ==
  \/ T.shape = "level" /\ LevelOver
  \/ T.shape = "serial" /\ clock >= Deadline
  \/ T.shape = "batches" /\ At("idle") = Mine /\ BatchesOver

Leave(l) ==
  /\ stage = "run" /\ lane[l].pc = "idle" /\ Leaves
  /\ lane' = [k \in Lanes |-> IF lane[k].pc = "idle" THEN [lane[k] EXCEPT !.pc = "over"]
                              ELSE lane[k]]
  /\ UNCHANGED <<client, server, stage, slot, clock, ended, rows, sent, lost,
                 faults, report, key, gauge, seen>>

\* _post_with_retry waits and sends again, whatever became of the first call.
Resume(l) ==
  /\ lane[l].pc = "pause"
  /\ lane' = [lane EXCEPT ![l].pc = "call"]
  /\ UNCHANGED <<client, server, stage, slot, clock, ended, rows, sent, lost,
                 faults, report, key, gauge, seen>>

-----------------------------------------------------------------------------
(* What a client makes of the way a call ended *)

Good(l, end) ==
  \/ end = "rejected"
  \/ end \in {"complete", "accepted"} /\ lane[l].step # "reject"
  \/ end = "cut" /\ ~T.done /\ ~Posts(l)

\* A broken answer is no OSError: it leaves the checks of the Responses API.
Escapes(end) == client = "responses" /\ end = "broken"

Retried(l, end) ==
  /\ lane[l].step \in {"tools", "plain"} /\ end \in {"busy", "timeout", "unreachable"}
  /\ lane[l].tries < Attempts

NextTurn(l) ==
  IF lane[l].turn < T.calls
  THEN [pc |-> "call", turn |-> lane[l].turn + 1, tries |-> 1,
        step |-> FirstStep(lane[l].turn + 1)]
  ELSE [lane[l] EXCEPT !.pc = "over"]

\* The tool call is asked for again without tools when it fails for good, and
\* its answer is sent back on a stream.
AfterSample(l, end) ==
  CASE Retried(l, end) -> [lane[l] EXCEPT !.pc = "pause", !.tries = @ + 1]
    [] Posts(l) /\ Good(l, end) -> [lane[l] EXCEPT !.pc = "call", !.tries = 1, !.step = "stream"]
    [] lane[l].step = "tools" /\ ~Good(l, end) /\ ~Retried(l, end) ->
         [lane[l] EXCEPT !.pc = "call", !.tries = 1, !.step = "plain"]
    [] OTHER -> NextTurn(l)

After(l, end) ==
  LET to(pc) == [lane[l] EXCEPT !.pc = pc]
  IN CASE T.shape = "samples" -> AfterSample(l, end)
       [] T.shape = "sessions" -> NextTurn(l)
       [] T.shape = "cases" -> IF Escapes(end) THEN to("over") ELSE NextTurn(l)
       [] T.shape = "burst" -> to(IF end = "accepted" THEN "hold" ELSE "over")
       [] T.shape = "once" -> to("over")
       [] T.shape = "serial" -> to(IF Good(l, end) THEN "idle" ELSE "over")
       [] T.shape \in {"level", "batches"} -> to("idle")
       [] T.shape = "probe" ->
            IF Good(l, end) THEN to("publish") ELSE [to("idle") EXCEPT !.turn = @ + 1]

\* A sample whose stream fails is recorded without the stream's figures; one
\* whose post fails twice is dropped.  A good probe is recorded once published.
RowsAfter(l, end) ==
  LET good == [rows EXCEPT !.ok = @ + 1]
      bad == [rows EXCEPT !.bad = @ + 1]
      sample == CASE lane[l].step = "stream" -> good
                  [] lane[l].step = "plain" /\ ~Good(l, end) /\ ~Retried(l, end) -> bad
                  [] OTHER -> rows
  IN CASE T.shape = "samples" -> sample
       [] T.shape = "probe" /\ Good(l, end) -> rows
       [] OTHER -> IF Good(l, end) THEN good ELSE bad

\* The failed probe of the monitor resets its success gauge and nothing else.
GaugeAfter(l, end) ==
  IF T.shape = "probe" /\ ~Good(l, end) THEN [gauge EXCEPT !.success = 0] ELSE gauge

Answer(l, end) ==
  /\ lane' = [lane EXCEPT ![l] = After(l, end)]
  /\ rows' = RowsAfter(l, end)
  /\ gauge' = GaugeAfter(l, end)
  /\ ended' = [ended EXCEPT ![end] = @ + 1]
  /\ UNCHANGED <<client, server, stage, clock, lost, report, key>>

\* The judges' view of the past: a slot freed before every lane of a burst was
\* answered, and the monitor's latest failure.
Freed == [seen EXCEPT !.early = @ \/ At("call") \cup At("sent") \cup At("queued") # {}]
FailedBy(l, end) ==
  IF T.shape = "probe" /\ ~Good(l, end) THEN [seen EXCEPT !.failed = lane[l].turn] ELSE seen

-----------------------------------------------------------------------------
(* Calls and the server *)

Room == Busy < Capacity

\* A call that should have been rejected is only admitted by mistake.
Admit(l) ==
  /\ lane[l].pc \in {"call", "queued"} /\ Room
  /\ lane[l].step = "reject" => faults < MaxFaults
  /\ lane' = [lane EXCEPT ![l].pc = "sent"]
  /\ slot' = [slot EXCEPT ![l] = @ + 1]
  /\ sent' = IF lane[l].pc = "call" THEN sent + 1 ELSE sent
  /\ seen' = [seen EXCEPT !.peak = IF Busy + 1 > @ THEN Busy + 1 ELSE @]
  /\ faults' = IF lane[l].step = "reject" THEN faults + 1 ELSE faults
  /\ UNCHANGED <<client, server, stage, clock, ended, rows, lost, report, key, gauge>>

\* A call that is to be rejected is, before it takes a slot.
Reject(l) ==
  /\ lane[l].pc = "call" /\ lane[l].step = "reject"
  /\ Answer(l, "rejected")
  /\ sent' = sent + 1
  /\ UNCHANGED <<slot, faults, seen>>

Refuse(l) ==
  /\ lane[l].pc = "call" /\ ~Room /\ server # "queues"
  /\ Answer(l, IF server = "bare" THEN "bare" ELSE "busy")
  /\ sent' = sent + 1
  /\ seen' = FailedBy(l, "busy")
  /\ UNCHANGED <<slot, faults>>

\* The overload an admission check is there to find: the call waits for a slot,
\* and is perhaps refused late.
Queue(l) ==
  /\ lane[l].pc = "call" /\ ~Room /\ server = "queues"
  /\ lane' = [lane EXCEPT ![l].pc = "queued"]
  /\ sent' = sent + 1
  /\ seen' = [seen EXCEPT !.waited = TRUE]
  /\ UNCHANGED <<client, server, stage, slot, clock, ended, rows, lost, faults,
                 report, key, gauge>>

RefuseLate(l) ==
  /\ lane[l].pc = "queued"
  /\ Answer(l, "late")
  /\ UNCHANGED <<slot, sent, faults, seen>>

\* The connection is refused, or the answer is an error status.
FailSend(l) ==
  /\ lane[l].pc = "call" /\ faults < MaxFaults
  /\ \E end \in {"unreachable", "error"} : Answer(l, end) /\ seen' = FailedBy(l, end)
  /\ sent' = sent + 1 /\ faults' = faults + 1
  /\ UNCHANGED slot

\* The headers of a stream of a burst: the 200 is recorded, the stream is held.
Accept(l) ==
  /\ lane[l].pc = "sent" /\ T.shape = "burst"
  /\ Answer(l, "accepted")
  /\ UNCHANGED <<slot, sent, faults, seen>>

Finish(l) ==
  /\ lane[l].pc = "sent" /\ T.shape # "burst"
  /\ Answer(l, "complete")
  /\ slot' = [slot EXCEPT ![l] = @ - 1]
  /\ UNCHANGED <<sent, faults, seen>>

\* The stream ends without its [DONE], or the connection breaks.
Break(l) ==
  /\ lane[l].pc = "sent" /\ T.shape # "burst" /\ faults < MaxFaults
  /\ \E end \in {"cut", "broken"} : Answer(l, end) /\ seen' = FailedBy(l, end)
  /\ slot' = [slot EXCEPT ![l] = @ - 1]
  /\ faults' = faults + 1
  /\ UNCHANGED sent

\* The client gives up; the server goes on generating.
GiveUp(l) ==
  /\ lane[l].pc \in {"sent", "queued"} /\ faults < MaxFaults
  /\ Answer(l, "timeout")
  /\ seen' = FailedBy(l, "timeout")
  /\ faults' = faults + 1
  /\ UNCHANGED <<slot, sent>>

\* The hold of a burst is over, or its stream ends while the client sleeps.
Release(l) ==
  /\ lane[l].pc = "hold"
  /\ lane' = [lane EXCEPT ![l].pc = "over"]
  /\ slot' = [slot EXCEPT ![l] = @ - 1]
  /\ seen' = Freed
  /\ UNCHANGED <<client, server, stage, clock, ended, rows, sent, lost, faults,
                 report, key, gauge>>

Abandoned(l) == slot[l] > (IF lane[l].pc \in {"sent", "hold"} THEN 1 ELSE 0)

Reap_Fault(l) ==   \* the relay's generator has no finally
  /\ Abandoned(l) /\ T.via # "relay"
  /\ slot' = [slot EXCEPT ![l] = @ - 1]
  /\ UNCHANGED <<client, server, stage, lane, clock, ended, rows, sent, lost,
                 faults, report, key, gauge, seen>>

\* The server, or the relay's generator, finds the client gone.
Reap(l) ==
  /\ Abandoned(l)
  /\ slot' = [slot EXCEPT ![l] = @ - 1]
  /\ seen' = Freed
  /\ UNCHANGED <<client, server, stage, lane, clock, ended, rows, sent, lost,
                 faults, report, key, gauge>>

\* The relay has given the upstream to the generator of a streaming response
\* that is dropped before the generator's first step: nothing closes it.
DropUnstarted(l) ==
  /\ T.via = "relay" /\ ~Posts(l) /\ Abandoned(l)
  /\ slot' = [slot EXCEPT ![l] = @ - 1]
  /\ lost' = lost + 1
  /\ UNCHANGED <<client, server, stage, lane, clock, ended, rows, sent, faults,
                 report, key, gauge, seen>>

\* The monitor sets one gauge after the other; a scrape may come in between.
Publish(l) ==
  /\ lane[l].pc = "publish"
  /\ LET g == Gauges[lane[l].tries] IN
       gauge' = [gauge EXCEPT ![g] = IF g = "success" THEN 1 ELSE lane[l].turn]
  /\ IF lane[l].tries < Len(Gauges)
     THEN /\ lane' = [lane EXCEPT ![l].tries = @ + 1]
          /\ UNCHANGED rows
     ELSE /\ lane' = [lane EXCEPT ![l] =
                         [lane[l] EXCEPT !.pc = "idle", !.tries = 1, !.turn = @ + 1]]
          /\ rows' = [rows EXCEPT !.ok = @ + 1]
  /\ UNCHANGED <<client, server, stage, slot, clock, ended, sent, lost, faults,
                 report, key, seen>>

-----------------------------------------------------------------------------
(* The end *)

\* All warm-up calls are sent before they are asserted; their rows are kept apart.
WarmedUp ==
  /\ stage = "warm" /\ Recorded = T.warm
  /\ stage' = IF rows.bad = 0 THEN "run" ELSE "end"
  /\ rows' = [ok |-> 0, bad |-> 0]
  /\ sent' = 0
  /\ ended' = [e \in Ends |-> 0]
  /\ UNCHANGED <<client, server, lane, slot, clock, lost, faults, report, key, gauge, seen>>

Rejected == ended["busy"] + ended["late"] + ended["bare"]

EvaluateEarly429_Fault ==   \* the time of the refusals is not looked at
  /\ ended["accepted"] \in 1..T.limit /\ Rejected > 0
  /\ \A e \in Mishaps : ended[e] = 0
  /\ ended["bare"] = 0

\* The 95th percentile of n refusals is the slowest but n \div 20 of them: it is
\* in time when no more than those are late.
EvaluateEarly429 ==
  /\ ended["accepted"] \in 1..T.limit /\ Rejected > 0
  /\ \A e \in Mishaps : ended[e] = 0
  /\ ended["bare"] = 0 /\ 20 * ended["late"] <= Rejected

EvaluatePortal ==
  /\ ended["accepted"] = 1 /\ Rejected = T.lanes - 1
  /\ ended["bare"] = 0 /\ ended["late"] = 0

Passed ==
  CASE client = "early429" -> EvaluateEarly429
    [] client = "portal" -> EvaluatePortal
    [] client = "monitor" -> rows.bad = 0 /\ Recorded > 0
    [] T.shape = "serial" /\ client # "monitor" ->
         rows.bad = 0 /\ Recorded > 0 /\ clock >= Deadline
    [] OTHER -> rows.bad = 0

Verdicts == {"early429", "portal", "soak", "monitor", "loadcheck", "cutover", "batches",
             "conformance", "protocols", "responses"}

\* The exceptions that leave a script before its report: a broken answer in the
\* checks of the Responses API, and in the cutover's only stream whatever is not
\* an end of the stream, whole or not.
Escaped ==
  \/ client = "responses" /\ ended["broken"] > 0
  \/ client = "cutover" /\ ended["complete"] + ended["cut"] = 0

Judge ==
  /\ stage = "run" /\ At("over") = Mine
  /\ report' = IF Escaped THEN NoReport ELSE
               IF client \notin Verdicts THEN "saved" ELSE IF Passed THEN "passed" ELSE "failed"
  /\ stage' = IF client = "portal" THEN "clean" ELSE "end"
  /\ UNCHANGED <<client, server, lane, slot, clock, ended, rows, sent, lost,
                 faults, key, gauge, seen>>

\* The finally clause: a revocation that fails keeps the tenant from being
\* disabled, and takes the report with it.
CleanUp ==
  /\ stage = "clean" /\ stage' = "end"
  /\ \/ /\ key' = [state |-> IF key.state = "live" THEN "revoked" ELSE key.state,
                  tenant |-> "disabled"]
        /\ UNCHANGED <<faults, report>>
     \/ /\ faults < MaxFaults /\ faults' = faults + 1
        /\ report' = NoReport
        /\ \/ UNCHANGED key
           \/ key' = [key EXCEPT !.state = IF @ = "live" THEN "revoked" ELSE @]
  /\ UNCHANGED <<client, server, lane, slot, clock, ended, rows, sent, lost, gauge, seen>>

-----------------------------------------------------------------------------
Own(l) == Launch(l) \/ Leave(l) \/ Resume(l) \/ Release(l) \/ Publish(l)
Served(l) == Admit(l) \/ Reject(l) \/ Refuse(l) \/ Queue(l) \/ RefuseLate(l) \/ Accept(l) \/ Finish(l) \/ Reap(l)
Mishap(l) == FailSend(l) \/ Break(l) \/ GiveUp(l) \/ DropUnstarted(l)
Whole == Begin \/ WarmedUp \/ Judge \/ CleanUp

Next ==
  \/ Whole \/ Tick
  \/ \E l \in Lanes : Own(l) \/ Served(l) \/ Mishap(l)

Fairness ==
  /\ WF_vars(Whole) /\ WF_vars(Tick)
  /\ \A l \in Lanes : WF_vars(Own(l)) /\ WF_vars(Served(l))

Spec == Init /\ [][Next]_vars /\ Fairness

-----------------------------------------------------------------------------
(* Properties *)

TypeOK ==
  /\ client \in DOMAIN Traits /\ stage \in {"begin", "warm", "run", "clean", "end"}
  /\ \A l \in Lanes :
       /\ lane[l].pc \in {"idle", "call", "pause", "queued", "sent", "hold", "publish", "over"}
       /\ lane[l].tries \in 1..(Attempts + 1) /\ lane[l].step \in {"stream", "tools", "plain", "reject"}
       /\ slot[l] \in Nat
  /\ Busy \in 0..Capacity /\ clock \in 0..Deadline /\ faults \in 0..MaxFaults
  /\ report \in {NoReport, "saved", "passed", "failed"}

(* "passed" of a soak, a cutover, a batch or a suite means that every call   *)
(* of the run was answered to its end, and every invalid one rejected, that  *)
(* none was left out, and that the run was not shorter than asked for.       *)
PassedMeansServed ==
  report = "passed" /\ T.shape # "burst" =>
    /\ ended["complete"] + ended["rejected"] = sent /\ sent > 0
    /\ ended["rejected"] = Cardinality({i \in DOMAIN T.cases : T.cases[i] = "reject"})
    /\ T.shape = "cases" => sent = Len(T.cases)
    /\ T.shape \in {"serial", "batches"} => clock >= Deadline
    /\ T.shape = "batches" => sent >= Requests

(* An admission check passes only a server that never held more than the     *)
(* limit, although it only counts answers, and that made nobody wait.  The   *)
(* check of early refusals looks at a percentile: from twenty refusals on it *)
(* lets one in twenty wait, and no more is claimed of it.                    *)
BurstSound ==
  report = "passed" /\ T.shape = "burst" =>
    /\ seen.peak <= T.limit
    /\ client = "portal" \/ Rejected < 20 => ~seen.waited

(* And it passes every server that keeps its limit, if nothing went wrong    *)
(* and no slot was freed before the last call was answered: the 200s of the  *)
(* run are counted, not those held together.                                 *)
BurstComplete ==
  T.shape = "burst" /\ server = "keeps" /\ faults = 0 /\ ~seen.early => report # "failed"

(* A post is sent at most four times and a sample asks twice, whatever comes *)
(* back and however long the server works on calls that were given up.       *)
RetriesBounded ==
  T.shape = "samples" => sent <= (2 * Attempts + 1) * lane[1].turn

(* The concurrency a report names bounds the generations the server runs at  *)
(* once, except for those of calls that timed out and were sent again.       *)
LoadAsNamed == Busy <= T.permits + ended["timeout"]

(* What the portal check leaves behind: no live key and no enabled tenant,   *)
(* unless its clean-up failed, and then there is no report.                  *)
KeyRevoked ==
  client = "portal" /\ stage = "end" =>
    /\ report # NoReport \/ faults = 0 => key.state # "live" /\ key.tenant = "disabled"
    /\ key.tenant = "disabled" => key.state # "live"

(* Whenever a scrape reads success, every figure beside it is of a probe     *)
(* after the latest failure, even in the middle of a publication.            *)
FiguresFresh ==
  gauge.success = 1 =>
    \A f \in {"ttft", "latency", "throughput", "last"} : gauge[f] > seen.failed

(* A lane of a soak sends nothing after its own failure, and no batch is     *)
(* sent after one with a failure.                                            *)
StopsAtFailure ==
  [][sent' > sent /\ stage = "run" =>
       CASE T.shape = "serial" -> rows.bad + Cardinality(Mine \ At("over")) <= T.lanes
         [] T.shape = "batches" -> rows.bad <= Recorded % T.lanes
         [] OTHER -> TRUE]_vars

(* Every client but the monitor comes to an end: no barrier, semaphore, loop *)
(* or retry keeps it, if the server ends what it has admitted.               *)
ComesToAnEnd == T.shape # "probe" => <>(stage = "end")

(* After the end the slots come back, those of calls that were given up too; *)
(* only a response dropped before its first step keeps its slot.             *)
SlotsComeBack == stage = "end" ~> Busy = lost

(* The verdicts: a client that passes served all it claims, an admission     *)
(* check passes exactly the servers that kept the limit.                     *)
VerdictRight == TypeOK /\ PassedMeansServed /\ BurstSound /\ BurstComplete

(* The load: as many generations at once and as many posts as the report     *)
(* says, but for calls that were given up while the server works on.         *)
LoadAsReported == LoadAsNamed /\ RetriesBounded

(* The end: a client stops at the failure it is to stop at, comes to its     *)
(* end, and leaves no slot taken and no key alive.                           *)
EndsClean == ComesToAnEnd /\ SlotsComeBack /\ StopsAtFailure /\ []KeyRevoked

=============================================================================
