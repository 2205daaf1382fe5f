------------------------- MODULE LoadClientsProofs --------------------------
(***************************************************************************)
(* Proofs about LoadClients, for every number of lanes, permits, turns and *)
(* faults: what a report counts, what a verdict means, which load it names *)
(* how old the monitor's figures are, when a client stops, what it leaves. *)
(*                                                                         *)
(* A client has many handlers but few kinds of steps (Ways): a call ends,  *)
(* is admitted or waits, a stream is released, lanes start or leave, the   *)
(* monitor publishes, the server finds a client gone, or the client moves  *)
(* as a whole.  Each part of the invariant is shown to survive each kind.  *)
(* Sized says that lanes and slots are in place, Staged what the stages    *)
(* mean, and Followed relates what the client has counted to what has      *)
(* happened; the properties are read off at the end.                       *)
(***************************************************************************)
EXTENDS LoadClients, FiniteSetTheorems, TLAPS

Pcs == {"idle", "call", "pause", "queued", "sent", "hold", "publish", "over"}
Steps == {"stream", "tools", "plain", "reject"}
LaneStates == [pc : Pcs, turn : Nat \ {0}, tries : 1..(Attempts + 1), step : Steps]

\* The values a state is made of.
Typed ==
  /\ client \in DOMAIN Traits /\ server \in {"keeps", "over", "queues", "bare"}
  /\ stage \in {"begin", "warm", "run", "clean", "end"}
  /\ lane \in [Lanes -> LaneStates] /\ slot \in [Lanes -> Nat]
  /\ clock \in 0..Deadline /\ ended \in [Ends -> Nat] /\ rows \in [ok : Nat, bad : Nat]
  /\ sent \in Nat /\ lost \in Nat /\ faults \in 0..MaxFaults
  /\ report \in {NoReport, "saved", "passed", "failed"}
  /\ gauge \in [ttft : Nat, latency : Nat, throughput : Nat, last : Nat, success : Nat]
  /\ seen \in [peak : Nat, waited : BOOLEAN, early : BOOLEAN, failed : Nat]

\* Where a lane can be, and what its call is.
LanePlaced(l) ==
  /\ lane[l].pc = "pause" => T.shape = "samples"
  /\ lane[l].pc = "hold" => T.shape = "burst"
  /\ lane[l].pc = "publish" => T.shape = "probe"
  /\ lane[l].pc = "queued" => server = "queues"
  /\ lane[l].pc \in {"sent", "hold"} => slot[l] > 0
  /\ l \notin Mine => lane[l].pc = "over"
  /\ T.shape # "probe" => lane[l].turn <= T.calls /\ lane[l].tries <= Attempts
  /\ T.shape = "samples" => lane[l].step \in {"tools", "plain", "stream"}
  /\ T.shape = "cases" => lane[l].step = T.cases[lane[l].turn]
  /\ T.shape \notin {"samples", "cases"} => lane[l].step = "stream"
Placed ==
  /\ \A l \in Lanes : LanePlaced(l)
  /\ T.shape # "burst" => server = "keeps"

\* The server never runs more than it admits.
Fits == Busy \in 0..Capacity

\* What the stages mean.
Staged ==
  /\ stage = "begin" => Recorded = 0 /\ \A l \in Mine : lane[l].pc = "idle"
  /\ stage = "warm" =>
       /\ T.warm > 0 /\ Recorded <= T.warm
       /\ \A l \in Mine : IF l = 1 THEN lane[l].pc \in {"idle", "call", "sent"} ELSE lane[l].pc = "idle"
       /\ lane[1].pc # "idle" => Recorded < T.warm
  /\ report # NoReport => stage \in {"clean", "end"} /\ \A l \in Lanes : lane[l].pc = "over"

\* The lanes in given places.
Those(pcs) == {l \in Mine : lane[l].pc \in pcs}
\* The calls that are out.
Pending == Those({"sent", "queued"})

\* The calls that have ended.
Answered ==
  ended["complete"] + ended["accepted"] + ended["rejected"]
    + ended["cut"] + ended["broken"] + ended["timeout"] + ended["unreachable"] + ended["error"]
    + ended["busy"] + ended["late"] + ended["bare"]

\* Every call has ended or is pending, and every end has its row.
Counted == sent = Answered + Cardinality(Pending)
Rowed == T.shape # "samples" => Recorded + Cardinality(Those({"publish"})) = Answered

\* The cases that are over, and their rows.
Past(l) == {i \in 1..T.calls : lane[l].pc = "over" \/ i < lane[l].turn}
RejectsPast == {i \in Past(1) : T.cases[i] = "reject"}
TurnsRowed ==
  T.shape = "cases" /\ rows.bad = 0 =>
    Recorded = Cardinality(Past(1)) /\ ended["rejected"] = Cardinality(RejectsPast)

\* A client that has seen nothing bad has only seen whole answers, and does not
\* stop before it may.
NothingBad ==
  /\ T.shape \in {"serial", "once", "batches", "cases"} /\ rows.bad = 0 =>
       \A e \in Ends \ {"complete", "rejected"} : ended[e] = 0
  /\ T.shape # "cases" => ended["rejected"] = 0
  /\ T.shape = "once" /\ lane[1].pc = "over" => Recorded > 0
  /\ T.shape = "serial" => \A l \in Mine : lane[l].pc = "over" => rows.bad > 0 \/ clock >= Deadline
  /\ T.shape = "batches" => \A l \in Mine : lane[l].pc = "over" => BatchesOver

\* The verdict is still true of what was counted.
Judged == report \in {"passed", "failed"} => client \in Verdicts /\ (report = "passed" <=> Passed)

\* An admission check: each lane calls once.
Released == Those(Pcs \ {"idle", "call"})
\* The calls of a burst that were given a slot when they came.
Admitted == ended["accepted"] + Cardinality(Those({"sent"}))
BurstCounted ==
  /\ sent = Cardinality(Released)
  /\ At("idle") # {} => At("idle") = Mine
  /\ ended["complete"] = 0
  /\ Busy <= Admitted + ended["timeout"]
  /\ seen.peak <= Admitted + ended["timeout"]
  /\ seen.waited => ended["late"] + Cardinality(Those({"queued"})) + Admitted + ended["timeout"] > T.limit
  /\ server # "queues" => ended["late"] = 0
  /\ server # "bare" => ended["bare"] = 0
  /\ faults = 0 => \A e \in Mishaps : ended[e] = 0

\* While every slot given is still held.
Awaited == Those({"idle", "call", "sent", "queued"})
BurstKept ==
  server = "keeps" /\ faults = 0 /\ ~seen.early =>
    /\ Awaited # {} => Busy = Admitted
    /\ Admitted <= T.limit
    /\ ended["busy"] > 0 => Admitted >= T.limit
Bursts == T.shape = "burst" => BurstCounted /\ BurstKept

\* The posts of a sample so far.
PostsBefore(step) == CASE step = "tools" -> 0 [] step = "plain" -> Attempts [] OTHER -> 2 * Attempts
Retries ==
  T.shape = "samples" =>
    /\ sent <= (2 * Attempts + 1) * lane[1].turn
    /\ lane[1].pc # "over" =>
         sent <= (2 * Attempts + 1) * (lane[1].turn - 1) + PostsBefore(lane[1].step) + lane[1].tries
                   - (IF lane[1].pc = "sent" THEN 0 ELSE 1)
    /\ lane[1].step = "stream" => lane[1].tries = 1

\* The generations of calls that were not given up.
Attended == Those({"sent", "hold"})
Working == Those(Pcs \ {"idle", "over"})
Loads ==
  /\ Cardinality(Working) <= T.permits
  /\ Busy <= Cardinality(Attended) + ended["timeout"] \/ (stage = "end" /\ T.warm > 0)

\* The probe that is published is later than the latest failure.
Figures == <<"ttft", "latency", "throughput", "last">>
Fresh ==
  /\ gauge.success = 1 => T.shape = "probe" /\ \A i \in 1..4 : gauge[Figures[i]] > seen.failed
  /\ T.shape = "probe" =>
       /\ seen.failed < lane[1].turn /\ (lane[1].pc # "publish" => lane[1].tries = 1)
       /\ lane[1].pc = "publish" => \A i \in 1..4 : i < lane[1].tries => gauge[Figures[i]] = lane[1].turn

\* The shapes of the table.
Shapes == {"sessions", "samples", "level", "burst", "serial", "once", "batches", "cases", "probe"}
\* What the table of the clients says of a client.
Kind ==
  /\ T.shape \in Shapes /\ T.calls \in Nat \ {0} /\ T.limit \in Nat \ {0}
  /\ T.lanes \in 1..Burst /\ T.permits \in 1..T.lanes
  /\ T.shape \in {"samples", "once", "cases", "probe"} => T.lanes = 1
  /\ T.shape # "sessions" => T.permits = T.lanes
  /\ T.shape = "burst" => T.lanes > T.limit
  /\ client = "portal" => T.limit = 1 /\ T.shape = "burst"
  /\ T.shape = "burst" => client \in {"early429", "portal"}
  /\ T.shape \in {"serial", "once", "batches", "cases"} => T.done
  /\ T.shape # "serial" => T.streams
  /\ T.shape = "batches" => T.limit = T.permits
  /\ IF T.shape = "batches" THEN T.warm = 2 ELSE T.warm = 0
  /\ IF T.shape = "cases" THEN DOMAIN T.cases = 1..T.calls /\ Len(T.cases) = T.calls
                               /\ \A i \in 1..T.calls : T.cases[i] \in Steps
     ELSE DOMAIN T.cases = {}
  /\ client \in Verdicts => T.shape \in {"burst", "serial", "once", "batches", "cases"}

\* What the table of the clients says of each of them, once and for all.
LEMMA KindOf == ASSUME client \in DOMAIN Traits PROVE Kind
<1> USE ClientsAssumption DEF Client, Shapes, Verdicts, Steps
<1>1. CASE client = "multiturn"
  <2>1. T = MultiTurn
    BY <1>1 DEF T, Traits
  <2> QED
    BY <1>1, <2>1 DEF Kind, MultiTurn
<1>2. CASE client = "toolcall"
  <2>1. T = ToolCall
    BY <1>2 DEF T, Traits
  <2> QED
    BY <1>2, <2>1 DEF Kind, ToolCall
<1>3. CASE client = "concurrent"
  <2>1. T = Concurrent
    BY <1>3 DEF T, Traits
  <2> QED
    BY <1>3, <2>1 DEF Kind, Concurrent
<1>4. CASE client = "level"
  <2>1. T = Level
    BY <1>4 DEF T, Traits
  <2> QED
    BY <1>4, <2>1 DEF Kind, Level
<1>5. CASE client = "early429"
  <2>1. T = Early429
    BY <1>5 DEF T, Traits
  <2> QED
    BY <1>5, <2>1 DEF Kind, Early429
<1>6. CASE client = "portal"
  <2>1. T = PortalOverload
    BY <1>6 DEF T, Traits
  <2> QED
    BY <1>6, <2>1 DEF Kind, PortalOverload
<1>7. CASE client = "soak"
  <2>1. T = Soak
    BY <1>7 DEF T, Traits
  <2> QED
    BY <1>7, <2>1 DEF Kind, Soak
<1>8. CASE client = "monitor"
  <2>1. T = MonitorProvider
    BY <1>8 DEF T, Traits
  <2> QED
    BY <1>8, <2>1 DEF Kind, MonitorProvider
<1>9. CASE client = "loadcheck"
  <2>1. T = LoadCheck
    BY <1>9 DEF T, Traits
  <2> QED
    BY <1>9, <2>1 DEF Kind, LoadCheck
<1>10. CASE client = "cutover"
  <2>1. T = CutoverStream
    BY <1>10 DEF T, Traits
  <2> QED
    BY <1>10, <2>1 DEF Kind, CutoverStream
<1>11. CASE client = "batches"
  <2>1. T = Batches
    BY <1>11 DEF T, Traits
  <2> QED
    BY <1>11, <2>1 DEF Kind, Batches
<1>12. CASE client = "probe"
  <2>1. T = Probe
    BY <1>12 DEF T, Traits
  <2> QED
    BY <1>12, <2>1 DEF Kind, Probe
<1>13. CASE client = "conformance"
  <2>1. T = Conformance
    BY <1>13 DEF T, Traits
  <2> QED
    BY <1>13, <2>1 DEF Kind, Conformance, Suite
<1>14. CASE client = "protocols"
  <2>1. T = Protocols
    BY <1>14 DEF T, Traits
  <2> QED
    BY <1>14, <2>1 DEF Kind, Protocols, Suite
<1>15. CASE client = "responses"
  <2>1. T = ResponsesAuto
    BY <1>15 DEF T, Traits
  <2> QED
    BY <1>15, <2>1 DEF Kind, ResponsesAuto, Suite
<1> QED
  BY <1>1, <1>2, <1>3, <1>4, <1>5, <1>6, <1>7, <1>8, <1>9, <1>10, <1>11, <1>12, <1>13, <1>14, <1>15 DEF Traits

\* The lanes of a client are some of all lanes, the first one always.
LEMMA Ours ==
  ASSUME Kind
  PROVE  /\ Mine \subseteq Lanes /\ 1 \in Mine /\ IsFiniteSet(Lanes)
         /\ IsFiniteSet(Mine) /\ Cardinality(Mine) = T.lanes
<1>1. T.lanes \in 1..Burst /\ Lanes = 1..Burst /\ Burst \in Nat
  BY ClientsAssumption DEF Kind
<1>2. IsFiniteSet(1..Burst)
  BY <1>1, FS_Interval
<1>3. IsFiniteSet(1..T.lanes) /\ Cardinality(1..T.lanes) = T.lanes
  BY <1>1, FS_Interval
<1> QED
  BY <1>1, <1>2, <1>3 DEF Mine

(***************************************************************************)
(* Generations.                                                            *)

\* The generations, for any slots.
GenerationsOf(s) == UNION {{l} \X (1..s[l]) : l \in Lanes}

\* What a generation is: a lane and a number up to its slots.
LEMMA InGenerations ==
  ASSUME NEW s \in [Lanes -> Nat], NEW x
  PROVE  x \in GenerationsOf(s) <=> /\ x = <<x[1], x[2]>> /\ x[1] \in Lanes
                               /\ x[2] \in Nat /\ x[2] >= 1 /\ x[2] <= s[x[1]]
BY DEF GenerationsOf

\* There are finitely many generations.
LEMMA FiniteGenerations ==
  ASSUME NEW s \in [Lanes -> Nat]
  PROVE  IsFiniteSet(GenerationsOf(s)) /\ Cardinality(GenerationsOf(s)) \in Nat
<1> DEFINE S == {{l} \X (1..s[l]) : l \in Lanes}
<1>1. IsFiniteSet(Lanes)
  BY ClientsAssumption, FS_Interval
<1>2. IsFiniteSet(S)
  <2> DEFINE f == [l \in Lanes |-> {l} \X (1..s[l])]
  <2>1. f \in Surjection(Lanes, S)
    BY DEF Surjection, Range
  <2> QED
    BY ONLY <1>1, <2>1, FS_Surjection
<1>3. \A l \in Lanes : IsFiniteSet({l} \X (1..s[l]))
  <2> TAKE l \in Lanes
  <2>1. IsFiniteSet({l})
    BY FS_Singleton
  <2>2. IsFiniteSet(1..s[l])
    BY FS_Interval
  <2> QED
    BY <2>1, <2>2, FS_Product
<1>4. \A R \in S : IsFiniteSet(R)
  BY <1>3
<1>5. IsFiniteSet(UNION S)
  BY <1>2, <1>4, FS_UNION
<1> QED
  BY <1>5, FS_CardinalityType DEF GenerationsOf

\* A lane that takes a slot adds one generation.
LEMMA OneMore ==
  ASSUME NEW s \in [Lanes -> Nat], NEW l \in Lanes
  PROVE  Cardinality(GenerationsOf([s EXCEPT ![l] = @ + 1])) = Cardinality(GenerationsOf(s)) + 1
<1> DEFINE t == [s EXCEPT ![l] = @ + 1]
           x == <<l, s[l] + 1>>
<1>1. t \in [Lanes -> Nat] /\ t[l] = s[l] + 1 /\ \A k \in Lanes \ {l} : t[k] = s[k]
  OBVIOUS
<1>2. x \notin GenerationsOf(s) /\ x \in GenerationsOf(t)
  <2>1. x = <<x[1], x[2]>> /\ x[1] = l /\ x[2] = s[l] + 1 /\ s[l] \in Nat
    OBVIOUS
  <2>2. x[2] \in Nat /\ x[2] >= 1 /\ x[2] <= t[x[1]] /\ ~ (x[2] <= s[x[1]])
    BY <1>1, <2>1
  <2> HIDE DEF x, t
  <2>3. x \notin GenerationsOf(s)
    BY <2>2, InGenerations
  <2>4. x \in GenerationsOf(t)
    BY <1>1, <2>1, <2>2, InGenerations
  <2> QED
    BY <2>3, <2>4
<1>3. \A y : y \in GenerationsOf(t) <=> y \in GenerationsOf(s) \/ y = x
  <2> TAKE y
  <2>1. ASSUME y \in GenerationsOf(t), y \notin GenerationsOf(s) PROVE y = x
    <3>1. /\ y = <<y[1], y[2]>> /\ y[1] \in Lanes /\ y[2] \in Nat /\ y[2] >= 1 /\ y[2] <= t[y[1]]
      BY <1>1, <2>1, InGenerations
    <3>2. ~ (y[2] <= s[y[1]])
      BY <2>1, <3>1, InGenerations
    <3>3. y[1] = l
      BY <1>1, <3>1, <3>2
    <3>4. y[2] = s[l] + 1
      BY <1>1, <3>1, <3>2, <3>3
    <3> QED
      BY <3>1, <3>3, <3>4
  <2>2. ASSUME y \in GenerationsOf(s) PROVE y \in GenerationsOf(t)
    <3>1. /\ y = <<y[1], y[2]>> /\ y[1] \in Lanes /\ y[2] \in Nat /\ y[2] >= 1 /\ y[2] <= s[y[1]]
      BY <2>2, InGenerations
    <3>2. y[2] <= t[y[1]]
      BY <1>1, <3>1
    <3> QED
      BY <1>1, <3>1, <3>2, InGenerations
  <2> QED
    BY <1>2, <2>1, <2>2
<1>4. GenerationsOf(t) = GenerationsOf(s) \cup {x}
  BY <1>3
<1> QED
  BY <1>2, <1>4, FiniteGenerations, FS_AddElement

\* A lane that gives a slot back takes one generation away.
LEMMA OneLess ==
  ASSUME NEW s \in [Lanes -> Nat], NEW l \in Lanes, s[l] > 0
  PROVE  /\ [s EXCEPT ![l] = @ - 1] \in [Lanes -> Nat]
         /\ Cardinality(GenerationsOf([s EXCEPT ![l] = @ - 1])) = Cardinality(GenerationsOf(s)) - 1
         /\ Cardinality(GenerationsOf(s)) > 0
<1> DEFINE t == [s EXCEPT ![l] = @ - 1]
<1>1. t \in [Lanes -> Nat] /\ t[l] = s[l] - 1
  OBVIOUS
<1>2. [t EXCEPT ![l] = @ + 1] = s
  <2>1. \A k \in Lanes : [t EXCEPT ![l] = @ + 1][k] = s[k]
    BY <1>1
  <2> QED
    BY <1>1, <2>1
<1>3. Cardinality(GenerationsOf(s)) = Cardinality(GenerationsOf(t)) + 1
  BY <1>1, <1>2, OneMore
<1>4. Cardinality(GenerationsOf(s)) \in Nat /\ Cardinality(GenerationsOf(t)) \in Nat
  BY <1>1, FiniteGenerations
<1> QED
  BY <1>1, <1>3, <1>4

\* What has happened when a call ends.
Ending(l, end) ==
  /\ Answer(l, end)
  /\ lane[l].pc \in {"call", "queued", "sent"}
  /\ sent' = IF lane[l].pc = "call" THEN sent + 1 ELSE sent
  /\ slot' = IF end \in {"complete", "cut", "broken"} THEN [slot EXCEPT ![l] = @ - 1] ELSE slot
  /\ IF end \in Mishaps THEN faults < MaxFaults /\ faults' = faults + 1 ELSE faults' = faults
  /\ seen' = FailedBy(l, end)

\* Which end can come of which call.
EndOf(l, end) ==
  /\ end = "rejected" => lane[l].pc = "call" /\ lane[l].step = "reject"
  /\ end \in {"busy", "bare"} => /\ lane[l].pc = "call" /\ ~Room /\ server # "queues"
                                 /\ end = "bare" <=> server = "bare"
  /\ end \in {"unreachable", "error"} => lane[l].pc = "call"
  /\ end = "late" => lane[l].pc = "queued"
  /\ end \in {"complete", "cut", "broken"} => lane[l].pc = "sent" /\ T.shape # "burst"
  /\ end = "accepted" => lane[l].pc = "sent" /\ T.shape = "burst"
  /\ end = "timeout" => lane[l].pc \in {"queued", "sent"}

\* Steps that move lanes and nothing else.
Silent(l) == Launch(l) \/ Leave(l) \/ Resume(l)
\* The server notices that a client is gone.
Reaped(l) == Reap(l) \/ DropUnstarted(l)

\* Every step is a call that ends, or one of the few others.
LEMMA Ways ==
  ASSUME Typed, Placed, Kind, Next
  PROVE  \/ \E l \in Mine, end \in Ends : Ending(l, end) /\ EndOf(l, end)
         \/ \E l \in Mine : Admit(l) \/ Queue(l) \/ Release(l) \/ Silent(l) \/ Publish(l)
         \/ \E l \in Lanes : Reaped(l)
         \/ Begin \/ Tick \/ WarmedUp \/ Judge \/ CleanUp
<1>1. CASE Whole \/ Tick
  BY <1>1 DEF Whole
<1>2. CASE \E l \in Lanes : Own(l) \/ Served(l) \/ Mishap(l)
  <2>1. PICK l \in Lanes : Own(l) \/ Served(l) \/ Mishap(l)
    BY <1>2
  <2>2. LanePlaced(l)
    BY DEF Placed
  <2>3. l \notin Mine => lane[l].pc = "over"
    BY <2>2 DEF LanePlaced
  <2>4. CASE Reap(l) \/ DropUnstarted(l)
    BY <2>4 DEF Reaped
  <2>5. CASE Own(l)
    BY <2>3, <2>5 DEF Own, Silent, Launch, Leave, Resume, Release, Publish
  <2>6. CASE Admit(l) \/ Queue(l)
    BY <2>3, <2>6 DEF Admit, Queue
  <2>7. lane[l].pc # "over" => l \in Mine
    BY <2>3
  <2>8. CASE Reject(l)
    <3>1. /\ lane[l].pc = "call" /\ lane[l].step = "reject" /\ Answer(l, "rejected")
          /\ sent' = sent + 1 /\ UNCHANGED <<slot, faults, seen>>
      BY <2>8 DEF Reject
    <3>2. Ending(l, "rejected") /\ EndOf(l, "rejected")
      BY <3>1 DEF Ending, EndOf, FailedBy, Good, Mishaps
    <3> QED
      BY <2>7, <3>1, <3>2 DEF Ends
  <2>9. CASE Refuse(l)
    <3> DEFINE end == IF server = "bare" THEN "bare" ELSE "busy"
    <3>1. /\ lane[l].pc = "call" /\ ~Room /\ server # "queues" /\ Answer(l, end)
          /\ sent' = sent + 1 /\ seen' = FailedBy(l, "busy") /\ UNCHANGED <<slot, faults>>
      BY <2>9 DEF Refuse
    <3>2. server = "bare" => T.shape # "probe"
      BY DEF Placed
    <3>3. FailedBy(l, "busy") = FailedBy(l, end)
      BY <3>2 DEF FailedBy
    <3>4. Ending(l, end) /\ EndOf(l, end)
      BY <3>1, <3>3 DEF Ending, EndOf, Mishaps
    <3> QED
      BY <2>7, <3>1, <3>4 DEF Ends, Refusals
  <2>10. CASE RefuseLate(l)
    <3>1. lane[l].pc = "queued" /\ Answer(l, "late") /\ UNCHANGED <<slot, sent, faults, seen>>
      BY <2>10 DEF RefuseLate
    <3>2. T.shape # "probe"
      BY <2>2, <3>1 DEF LanePlaced, Placed
    <3>3. Ending(l, "late") /\ EndOf(l, "late")
      BY <3>1, <3>2 DEF Ending, EndOf, FailedBy, Mishaps
    <3> QED
      BY <2>7, <3>1, <3>3 DEF Ends, Refusals
  <2>11. CASE Accept(l)
    <3>1. /\ lane[l].pc = "sent" /\ T.shape = "burst" /\ Answer(l, "accepted")
          /\ UNCHANGED <<slot, sent, faults, seen>>
      BY <2>11 DEF Accept
    <3>2. Ending(l, "accepted") /\ EndOf(l, "accepted")
      BY <3>1 DEF Ending, EndOf, FailedBy, Mishaps
    <3> QED
      BY <2>7, <3>1, <3>2 DEF Ends
  <2>12. CASE Finish(l)
    <3>1. /\ lane[l].pc = "sent" /\ T.shape # "burst" /\ Answer(l, "complete")
          /\ slot' = [slot EXCEPT ![l] = @ - 1] /\ UNCHANGED <<sent, faults, seen>>
      BY <2>12 DEF Finish
    <3>2. T.shape = "probe" => Good(l, "complete")
      BY <2>2 DEF LanePlaced, Good
    <3>3. Ending(l, "complete") /\ EndOf(l, "complete")
      BY <3>1, <3>2 DEF Ending, EndOf, FailedBy, Mishaps
    <3> QED
      BY <2>7, <3>1, <3>3 DEF Ends
  <2>13. CASE FailSend(l)
    <3>1. PICK end \in {"unreachable", "error"} : Answer(l, end) /\ seen' = FailedBy(l, end)
      BY <2>13 DEF FailSend
    <3>2. /\ lane[l].pc = "call" /\ faults < MaxFaults
          /\ sent' = sent + 1 /\ faults' = faults + 1 /\ UNCHANGED slot
      BY <2>13 DEF FailSend
    <3>3. Ending(l, end) /\ EndOf(l, end)
      BY <3>1, <3>2 DEF Ending, EndOf, Mishaps
    <3> QED
      BY <2>7, <3>1, <3>2, <3>3 DEF Ends, Mishaps
  <2>14. CASE Break(l)
    <3>1. PICK end \in {"cut", "broken"} : Answer(l, end) /\ seen' = FailedBy(l, end)
      BY <2>14 DEF Break
    <3>2. /\ lane[l].pc = "sent" /\ T.shape # "burst" /\ faults < MaxFaults
          /\ slot' = [slot EXCEPT ![l] = @ - 1] /\ faults' = faults + 1 /\ UNCHANGED sent
      BY <2>14 DEF Break
    <3>3. Ending(l, end) /\ EndOf(l, end)
      BY <3>1, <3>2 DEF Ending, EndOf, Mishaps
    <3> QED
      BY <2>7, <3>1, <3>2, <3>3 DEF Ends, Mishaps
  <2>15. CASE GiveUp(l)
    <3>1. /\ lane[l].pc \in {"sent", "queued"} /\ faults < MaxFaults /\ Answer(l, "timeout")
          /\ seen' = FailedBy(l, "timeout") /\ faults' = faults + 1 /\ UNCHANGED <<slot, sent>>
      BY <2>15 DEF GiveUp
    <3>2. Ending(l, "timeout") /\ EndOf(l, "timeout")
      BY <3>1 DEF Ending, EndOf, Mishaps
    <3> QED
      BY <2>7, <3>1, <3>2 DEF Ends, Mishaps
  <2> QED
    BY <2>1, <2>4, <2>5, <2>6, <2>8, <2>9, <2>10, <2>11, <2>12, <2>13, <2>14, <2>15 DEF Served, Mishap
<1> QED
  BY <1>1, <1>2 DEF Next

\* Who runs and against whom is settled at the start.
LEMMA SameClient ==
  ASSUME [Next]_vars
  PROVE  client' = client /\ server' = server
<1>1. CASE Whole \/ Tick
  BY <1>1 DEF Whole, Begin, WarmedUp, Judge, CleanUp, Tick
<1>2. ASSUME NEW l, Own(l) PROVE client' = client /\ server' = server
  BY <1>2 DEF Own, Launch, Leave, Resume, Release, Publish
<1>3. ASSUME NEW l, Served(l) \/ Mishap(l) PROVE client' = client /\ server' = server
  BY <1>3 DEF Served, Mishap, Admit, Reject, Refuse, Queue, RefuseLate, Accept, Finish, Reap,
       FailSend, Break, GiveUp, DropUnstarted, Answer
<1>4. CASE UNCHANGED vars
  BY <1>4 DEF vars
<1> QED
  BY <1>1, <1>2, <1>3, <1>4 DEF Next

\* What hardly any argument does without.
Base == Typed /\ Placed /\ Kind

\* The traits of a client stay what they are.
LEMMA StillKind ==
  ASSUME client' = client
  PROVE  T' = T /\ Mine' = Mine /\ (Kind => Kind')
BY DEF T, Mine, Kind, Verdicts

\* The lane that goes on to its next turn, or has had its last.
LEMMA ToNextTurn ==
  ASSUME Base, NEW l \in Mine, T.shape \in {"sessions", "samples", "cases"}
  PROVE  /\ NextTurn(l) \in LaneStates
         /\ lane[l].turn < T.calls =>
              /\ NextTurn(l).pc = "call" /\ NextTurn(l).turn = lane[l].turn + 1 /\ NextTurn(l).tries = 1
              /\ NextTurn(l).step = FirstStep(lane[l].turn + 1)
         /\ lane[l].turn >= T.calls =>
              /\ NextTurn(l).pc = "over" /\ NextTurn(l).turn = lane[l].turn
              /\ NextTurn(l).tries = lane[l].tries /\ NextTurn(l).step = lane[l].step
         /\ lane[l].turn \in 1..T.calls
<1>1. l \in Lanes /\ lane[l] \in LaneStates /\ T.calls \in Nat \ {0}
  BY Ours DEF Base, Typed, Kind
<1>2. lane[l].turn \in 1..T.calls
  BY <1>1 DEF Base, Placed, LanePlaced, LaneStates
<1>3. CASE lane[l].turn < T.calls
  <2>1. FirstStep(lane[l].turn + 1) \in Steps
    BY <1>1, <1>2, <1>3 DEF FirstStep, Steps, Base, Kind
  <2>2. NextTurn(l) = [pc |-> "call", turn |-> lane[l].turn + 1, tries |-> 1,
                       step |-> FirstStep(lane[l].turn + 1)]
    BY <1>3 DEF NextTurn
  <2>3. lane[l].turn + 1 \in Nat \ {0} /\ 1 \in 1..(Attempts + 1) /\ "call" \in Pcs
    BY <1>2 DEF Attempts, Pcs
  <2>4. NextTurn(l) \in LaneStates
    BY <2>1, <2>2, <2>3 DEF LaneStates
  <2> QED
    BY <1>1, <1>2, <1>3, <2>2, <2>4
<1>4. CASE lane[l].turn >= T.calls
  <2>1. NextTurn(l) = [lane[l] EXCEPT !.pc = "over"]
    BY <1>1, <1>2, <1>4 DEF NextTurn
  <2> QED
    BY <1>1, <1>2, <1>4, <2>1 DEF LaneStates, Pcs
<1> QED
  BY <1>1, <1>2, <1>3, <1>4

\* The rows after a good and after a bad call, and a lane sent elsewhere.
Good1 == [rows EXCEPT !.ok = @ + 1]
Bad1 == [rows EXCEPT !.bad = @ + 1]
Moved(l, pc) == [lane[l] EXCEPT !.pc = pc]

\* What comes of a call of a sample.
LEMMA SampleCases ==
  ASSUME Base, NEW l \in Mine, NEW end \in Ends, T.shape = "samples"
  PROVE  \/ /\ lane[l].step \in {"tools", "plain"} /\ lane[l].tries < Attempts
            /\ After(l, end) = [lane[l] EXCEPT !.pc = "pause", !.tries = @ + 1]
            /\ RowsAfter(l, end) = rows
         \/ \E s \in {"plain", "stream"} :
              /\ lane[l].step = "tools" \/ (lane[l].step = "plain" /\ s = "stream")
              /\ After(l, end) = [lane[l] EXCEPT !.pc = "call", !.tries = 1, !.step = s]
              /\ RowsAfter(l, end) = rows
         \/ /\ lane[l].step \in {"plain", "stream"}
            /\ After(l, end) = NextTurn(l)
            /\ RowsAfter(l, end) \in {Good1, Bad1}
<1>1. lane[l].step \in {"tools", "plain", "stream"} /\ T.streams
  BY Ours DEF Base, Placed, LanePlaced, Kind
<1>2. After(l, end) = AfterSample(l, end)
  BY DEF After
<1>3. Posts(l) <=> lane[l].step \in {"tools", "plain"}
  BY <1>1 DEF Posts
<1>4. CASE Retried(l, end)
  <2>1. lane[l].step \in {"tools", "plain"} /\ lane[l].tries < Attempts
    BY <1>4 DEF Retried
  <2>2. AfterSample(l, end) = [lane[l] EXCEPT !.pc = "pause", !.tries = @ + 1]
    <3>1. ~Good(l, end)
      BY <1>4 DEF Retried, Good
    <3> QED
      BY <1>4, <3>1 DEF AfterSample
  <2>3. RowsAfter(l, end) = rows
    BY <1>4, <2>1 DEF RowsAfter
  <2> QED
    BY <1>2, <2>1, <2>2, <2>3
<1>5. CASE ~Retried(l, end) /\ Posts(l) /\ Good(l, end)
  <2>2. AfterSample(l, end) = [lane[l] EXCEPT !.pc = "call", !.tries = 1, !.step = "stream"]
    BY <1>5 DEF AfterSample
  <2>3. RowsAfter(l, end) = rows
    BY <1>3, <1>5 DEF RowsAfter
  <2> QED
    BY <1>2, <1>3, <1>5, <2>2, <2>3
<1>6. CASE ~Retried(l, end) /\ lane[l].step = "tools" /\ ~Good(l, end)
  <2>2. AfterSample(l, end) = [lane[l] EXCEPT !.pc = "call", !.tries = 1, !.step = "plain"]
    BY <1>6 DEF AfterSample
  <2>3. RowsAfter(l, end) = rows
    BY <1>6 DEF RowsAfter
  <2> QED
    BY <1>2, <1>6, <2>2, <2>3
<1>7. CASE ~Retried(l, end) /\ lane[l].step = "plain" /\ ~Good(l, end)
  <2>2. AfterSample(l, end) = NextTurn(l)
    BY <1>7 DEF AfterSample
  <2>3. RowsAfter(l, end) = Bad1
    BY <1>7 DEF RowsAfter, Bad1
  <2> QED
    BY <1>2, <1>7, <2>2, <2>3
<1>8. CASE lane[l].step = "stream"
  <2>1. ~Retried(l, end)
    BY <1>8 DEF Retried
  <2>2. AfterSample(l, end) = NextTurn(l)
    BY <1>3, <1>8, <2>1 DEF AfterSample
  <2>3. RowsAfter(l, end) = Good1
    BY <1>8 DEF RowsAfter, Good1
  <2> QED
    BY <1>2, <1>8, <2>2, <2>3
<1> QED
  BY <1>1, <1>3, <1>4, <1>5, <1>6, <1>7, <1>8

\* What comes of the other calls.
LEMMA OtherCases ==
  ASSUME Base, NEW l \in Mine, NEW end \in Ends, T.shape # "samples"
  PROVE  /\ RowsAfter(l, end) = IF T.shape = "probe" /\ Good(l, end) THEN rows
                                ELSE IF Good(l, end) THEN Good1 ELSE Bad1
         /\ CASE T.shape = "sessions" -> After(l, end) = NextTurn(l)
              [] T.shape = "cases" ->
                   \/ After(l, end) = NextTurn(l)
                   \/ After(l, end) = Moved(l, "over") /\ ~Good(l, end)
              [] T.shape = "burst" -> After(l, end) = Moved(l, IF end = "accepted" THEN "hold" ELSE "over")
              [] T.shape = "once" -> After(l, end) = Moved(l, "over")
              [] T.shape = "serial" -> After(l, end) = Moved(l, IF Good(l, end) THEN "idle" ELSE "over")
              [] T.shape \in {"level", "batches"} -> After(l, end) = Moved(l, "idle")
              [] T.shape = "probe" ->
                   After(l, end) = IF Good(l, end) THEN Moved(l, "publish")
                                   ELSE [Moved(l, "idle") EXCEPT !.turn = @ + 1]
<1>1. RowsAfter(l, end) = IF T.shape = "probe" /\ Good(l, end) THEN rows
                          ELSE IF Good(l, end) THEN Good1 ELSE Bad1
  BY DEF RowsAfter, Good1, Bad1
<1>2. CASE T.shape = "cases"
  <2>1. end = "broken" => ~Good(l, end)
    BY DEF Good
  <2> QED
    BY <1>1, <1>2, <2>1 DEF After, Escapes, Moved
<1>3. T.shape \in Shapes
  BY DEF Base, Kind
<1> QED
  BY <1>1, <1>2, <1>3 DEF After, Moved, Shapes

\* The lane whose call has ended is where it can be, and others are left alone.
LEMMA EndingLane ==
  ASSUME Base, NEW l \in Mine, NEW end \in Ends, Ending(l, end)
  PROVE  /\ lane' = [lane EXCEPT ![l] = After(l, end)]
         /\ lane'[l] = After(l, end) /\ \A k \in Lanes \ {l} : lane'[k] = lane[k]
         /\ rows' = RowsAfter(l, end) /\ gauge' = GaugeAfter(l, end)
         /\ ended' = [ended EXCEPT ![end] = @ + 1]
         /\ UNCHANGED <<client, server, stage, clock, lost, report, key>>
<1>1. l \in Lanes
  BY Ours DEF Base
<1> QED
  BY <1>1 DEF Ending, Answer, Base, Typed

\* A lane that only changes its place.
LEMMA MovedTyped ==
  ASSUME NEW l, lane[l] \in LaneStates, NEW pc \in Pcs
  PROVE  /\ Moved(l, pc) \in LaneStates /\ Moved(l, pc).pc = pc /\ Moved(l, pc).turn = lane[l].turn
         /\ Moved(l, pc).tries = lane[l].tries /\ Moved(l, pc).step = lane[l].step
BY DEF Moved, LaneStates

\* Where an ended call leaves its lane.
Landed(l, end) ==
  /\ lane'[l] \in LaneStates /\ LanePlaced(l)'
  /\ lane'[l].pc \in {"call", "pause", "hold", "idle", "publish", "over"}
  /\ (lane'[l].pc = "hold") <=> (end = "accepted")
  /\ T.shape # "probe" => lane'[l].pc # "publish"

\* Where a lane is after its call, and which row the call left.
LEMMA AfterLanded ==
  ASSUME Base, NEW l \in Mine, NEW end \in Ends, Ending(l, end), EndOf(l, end)
  PROVE  Landed(l, end) /\ RowsAfter(l, end) \in {rows, Good1, Bad1}
<1>1. /\ l \in Lanes /\ lane[l] \in LaneStates /\ LanePlaced(l) /\ T.calls \in Nat \ {0}
      /\ T' = T /\ Mine' = Mine /\ server' = server
  BY Ours, StillKind, EndingLane DEF Base, Typed, Placed, Kind
<1>2. lane'[l] = After(l, end)
  BY EndingLane
<1>3. T.shape # "burst" => end # "accepted"
  BY DEF EndOf
<1>8. ASSUME T.shape \in {"sessions", "samples", "cases"}, After(l, end) = NextTurn(l)
      PROVE  Landed(l, end)
  <2> DEFINE t == lane[l].turn
  <2>a. t \in 1..T.calls /\ lane[l].tries <= Attempts
    BY <1>1, <1>8, ToNextTurn DEF LanePlaced
  <2> DEFINE Next1 ==
               /\ lane'[l] \in LaneStates /\ lane'[l].pc \in {"call", "over"} /\ lane'[l].turn <= T.calls
               /\ lane'[l].tries <= Attempts
               /\ \/ lane'[l].step = lane[l].step /\ lane'[l].turn = lane[l].turn
                  \/ lane'[l].turn \in 1..T.calls /\ lane'[l].step = FirstStep(lane'[l].turn)
  <2>b. ASSUME t < T.calls PROVE Next1
    <3>1. /\ lane'[l] \in LaneStates /\ lane'[l].pc = "call" /\ lane'[l].turn = t + 1
          /\ lane'[l].tries = 1 /\ lane'[l].step = FirstStep(t + 1)
      BY <1>2, <1>8, <2>b, ToNextTurn
    <3> QED
      BY <1>1, <2>a, <2>b, <3>1 DEF Attempts
  <2>c. ASSUME t >= T.calls PROVE Next1
    <3>1. /\ lane'[l] \in LaneStates /\ lane'[l].pc = "over" /\ lane'[l].turn = t
          /\ lane'[l].tries = lane[l].tries /\ lane'[l].step = lane[l].step
      BY <1>2, <1>8, <2>c, ToNextTurn
    <3> QED
      BY <1>1, <2>a, <3>1
  <2>1. Next1
    <3>1. t < T.calls \/ t >= T.calls
      BY <1>1, <2>a
    <3> QED
      BY <2>b, <2>c, <3>1
  <2>2. T.shape = "samples" => lane'[l].step \in {"tools", "plain", "stream"}
    BY <1>1, <2>1 DEF LanePlaced, FirstStep
  <2>3. T.shape = "cases" => lane'[l].step = T.cases[lane'[l].turn]
    BY <1>1, <2>1 DEF LanePlaced, FirstStep
  <2>4. T.shape = "sessions" => lane'[l].step = "stream"
    BY <1>1, <2>1 DEF LanePlaced, FirstStep
  <2> QED
    BY <1>1, <1>3, <1>8, <2>1, <2>2, <2>3, <2>4 DEF LanePlaced, Landed
<1>9. ASSUME NEW pc \in {"hold", "idle", "publish", "over"}, After(l, end) = Moved(l, pc),
             pc = "hold" <=> T.shape = "burst" /\ end = "accepted", pc = "publish" => T.shape = "probe"
      PROVE  Landed(l, end)
  <2>1. /\ lane'[l] \in LaneStates /\ lane'[l].pc = pc /\ lane'[l].turn = lane[l].turn
        /\ lane'[l].tries = lane[l].tries /\ lane'[l].step = lane[l].step
    BY <1>1, <1>2, <1>9, MovedTyped DEF Pcs
  <2>2. pc = "hold" => slot'[l] > 0
    <3>1. pc = "hold" => slot' = slot /\ lane[l].pc = "sent"
      BY <1>9 DEF Ending, EndOf
    <3> QED
      BY <1>1, <3>1 DEF LanePlaced
  <2> QED
    BY <1>1, <1>3, <1>9, <2>1, <2>2 DEF LanePlaced, Landed
<1>4. CASE T.shape = "samples"
  <2>1. CASE /\ lane[l].step \in {"tools", "plain"} /\ lane[l].tries < Attempts
             /\ After(l, end) = [lane[l] EXCEPT !.pc = "pause", !.tries = @ + 1]
             /\ RowsAfter(l, end) = rows
    <3>1. lane[l].tries + 1 \in 1..(Attempts + 1) /\ lane[l].tries + 1 <= Attempts
      BY <1>1, <2>1 DEF LaneStates, Attempts
    <3>2. /\ lane'[l] \in LaneStates /\ lane'[l].pc = "pause" /\ lane'[l].turn = lane[l].turn
          /\ lane'[l].tries = lane[l].tries + 1 /\ lane'[l].step = lane[l].step
      <4>1. lane[l] \in LaneStates /\ lane'[l] = [lane[l] EXCEPT !.pc = "pause", !.tries = @ + 1]
        BY <1>1, <1>2, <2>1
      <4> QED
        BY ONLY <3>1, <4>1 DEF LaneStates, Pcs
    <3> QED
      BY <1>1, <1>3, <1>4, <2>1, <3>1, <3>2 DEF LanePlaced, Landed
  <2>2. ASSUME NEW s \in {"plain", "stream"},
               After(l, end) = [lane[l] EXCEPT !.pc = "call", !.tries = 1, !.step = s]
        PROVE  Landed(l, end)
    <3>1. 1 \in 1..(Attempts + 1) /\ "call" \in Pcs /\ s \in Steps
      BY DEF Attempts, Pcs, Steps
    <3>2. /\ lane'[l] \in LaneStates /\ lane'[l].pc = "call" /\ lane'[l].turn = lane[l].turn
          /\ lane'[l].tries = 1 /\ lane'[l].step = s
      <4>1. lane[l] \in LaneStates /\ lane'[l] = [lane[l] EXCEPT !.pc = "call", !.tries = 1, !.step = s]
        BY <1>1, <1>2, <2>2
      <4> QED
        BY ONLY <3>1, <4>1 DEF LaneStates
    <3> QED
      BY <1>1, <1>3, <1>4, <2>2, <3>2 DEF LanePlaced, Attempts, Landed
  <2> QED
    BY <1>4, <1>8, <2>1, <2>2, SampleCases
<1>5. CASE T.shape \in {"sessions", "cases"}
  <2>1. After(l, end) = NextTurn(l) \/ After(l, end) = Moved(l, "over")
    BY <1>5, OtherCases
  <2>2. RowsAfter(l, end) \in {rows, Good1, Bad1}
    BY <1>5, OtherCases
  <2> QED
    BY <1>3, <1>5, <1>8, <1>9, <2>1, <2>2
<1>6. CASE T.shape \in {"burst", "once", "serial", "level", "batches"}
  <2>1. \E pc \in {"hold", "idle", "over"} : /\ After(l, end) = Moved(l, pc)
                                             /\ pc = "hold" <=> T.shape = "burst" /\ end = "accepted"
    BY <1>6, OtherCases
  <2>2. RowsAfter(l, end) \in {rows, Good1, Bad1}
    BY <1>6, OtherCases
  <2> QED
    BY <1>9, <2>1, <2>2
<1>7. CASE T.shape = "probe"
  <2>1. \/ After(l, end) = Moved(l, "publish")
        \/ After(l, end) = [Moved(l, "idle") EXCEPT !.turn = @ + 1]
    BY <1>7, OtherCases
  <2>2. RowsAfter(l, end) \in {rows, Good1, Bad1}
    BY <1>7, OtherCases
  <2>3. CASE After(l, end) = [Moved(l, "idle") EXCEPT !.turn = @ + 1]
    <3>1. /\ lane'[l] \in LaneStates /\ lane'[l].pc = "idle" /\ lane'[l].step = lane[l].step
      BY <1>1, <1>2, <2>3, MovedTyped DEF LaneStates, Pcs
    <3> QED
      BY <1>1, <1>3, <1>7, <2>2, <3>1 DEF LanePlaced, Landed
  <2> QED
    BY <1>7, <1>3, <1>9, <2>1, <2>2, <2>3
<1> QED
  BY <1>4, <1>5, <1>6, <1>7, SampleCases DEF Base, Kind, Shapes

\* A slot is taken.
LEMMA Taken ==
  ASSUME Typed, NEW l \in Lanes, slot' = [slot EXCEPT ![l] = @ + 1], lost' = lost
  PROVE  Busy' = Busy + 1 /\ slot' \in [Lanes -> Nat] /\ Busy \in Nat
<1>1. slot \in [Lanes -> Nat] /\ lost \in Nat
  BY DEF Typed
<1>2. Generations = GenerationsOf(slot) /\ Generations' = GenerationsOf(slot')
  BY DEF Generations, GenerationsOf
<1>3. Cardinality(Generations') = Cardinality(Generations) + 1
  BY <1>1, <1>2, OneMore
<1>4. Cardinality(Generations) \in Nat
  BY <1>1, <1>2, FiniteGenerations
<1> QED
  BY <1>1, <1>3, <1>4 DEF Busy

\* A slot is given back, or lost (d = 1).
LEMMA Given ==
  ASSUME Typed, NEW l \in Lanes, slot[l] > 0, slot' = [slot EXCEPT ![l] = @ - 1],
         NEW d \in {0, 1}, lost' = lost + d
  PROVE  /\ Busy' = Busy - 1 + d /\ slot' \in [Lanes -> Nat]
         /\ Busy \in Nat /\ Busy > 0
<1>1. slot \in [Lanes -> Nat] /\ lost \in Nat
  BY DEF Typed
<1>2. Generations = GenerationsOf(slot) /\ Generations' = GenerationsOf(slot')
  BY DEF Generations, GenerationsOf
<1>3. /\ Cardinality(Generations') = Cardinality(Generations) - 1 /\ slot' \in [Lanes -> Nat]
      /\ Cardinality(Generations) > 0
  BY <1>1, <1>2, OneLess
<1>4. Cardinality(Generations) \in Nat
  BY <1>1, <1>2, FiniteGenerations
<1>5. Busy = lost + Cardinality(Generations) /\ Busy' = lost' + Cardinality(Generations')
  BY DEF Busy
<1> QED
  BY <1>1, <1>3, <1>4, <1>5

\* The busy slots can be counted.
LEMMA BusyTyped == ASSUME Typed PROVE Busy \in Nat
<1>1. slot \in [Lanes -> Nat] /\ lost \in Nat
  BY DEF Typed
<1>2. Cardinality(Generations) \in Nat
  BY <1>1, FiniteGenerations DEF Generations, GenerationsOf
<1> QED
  BY <1>1, <1>2 DEF Busy

\* Steps that leave the slots alone leave their count alone.
LEMMA SlotsStay ==
  ASSUME UNCHANGED <<slot, lost>>
  PROVE  Busy' = Busy
BY DEF Busy, Generations

\* Only idle lanes are launched.
LEMMA LaunchesIdle ==
  ASSUME Base, NEW l \in Mine, lane[l].pc = "idle"
  PROVE  Launches(l) \subseteq At("idle") /\ Launches(l) \subseteq Mine
<1>1. l \in At("idle") /\ At("idle") \subseteq Mine
  BY DEF At
<1>2. CASE stage = "warm"
  BY <1>1, <1>2 DEF Launches
<1>3. CASE stage # "warm"
  <2>1. T.shape \in Shapes
    BY DEF Base, Kind
  <2>2. CASE T.shape = "burst"
    BY <1>1, <1>3, <2>2 DEF Launches, BarrierOpens
  <2>3. CASE T.shape = "batches"
    BY <1>1, <1>3, <2>3 DEF Launches
  <2>4. CASE T.shape \in Shapes \ {"burst", "batches"}
    <3>1. Launches(l) \subseteq {l}
      BY <1>3, <2>4 DEF Launches, Shapes
    <3> QED
      BY <1>1, <3>1
  <2> QED
    BY <2>1, <2>2, <2>3, <2>4
<1> QED
  BY <1>2, <1>3

\* A lane starts a call, or leaves, and nothing else changes.
Turned(k) ==
  \/ lane'[k] = lane[k]
  \/ lane[k].pc = "idle" /\ k \in Mine /\ lane'[k] = Moved(k, "call")
  \/ lane[k].pc = "pause" /\ k \in Mine /\ lane'[k] = Moved(k, "call")
  \/ lane[k].pc = "idle" /\ k \in Mine /\ lane'[k] = Moved(k, "over") /\ stage = "run" /\ Leaves

\* What a launch, a leave or a retry does to the lanes.
LEMMA SilentLanes ==
  ASSUME Base, NEW l \in Mine, Silent(l)
  PROVE  /\ UNCHANGED <<client, server, stage, slot, clock, ended, rows, sent, lost,
                        faults, report, key, gauge, seen>>
         /\ DOMAIN lane' = Lanes /\ lane' = [k \in Lanes |-> lane'[k]]
         /\ \A k \in Lanes : Turned(k)
<1>1. l \in Lanes /\ lane \in [Lanes -> LaneStates] /\ Mine \subseteq Lanes
  BY Ours DEF Base, Typed
<1>2. CASE Launch(l)
  <2>1. /\ lane' = [k \in Lanes |-> IF k \in Launches(l) THEN [lane[k] EXCEPT !.pc = "call"] ELSE lane[k]]
        /\ UNCHANGED <<client, server, stage, slot, clock, ended, rows, sent, lost,
                       faults, report, key, gauge, seen>>
        /\ lane[l].pc = "idle"
    BY <1>2 DEF Launch
  <2>2. Launches(l) \subseteq At("idle") /\ Launches(l) \subseteq Mine
    BY <2>1, LaunchesIdle
  <2>3. \A k \in Lanes : Turned(k)
    BY <2>1, <2>2 DEF Turned, Moved, At
  <2> QED
    BY <2>1, <2>3
<1>3. CASE Leave(l)
  <2>1. /\ lane' = [k \in Lanes |-> IF lane[k].pc = "idle" THEN [lane[k] EXCEPT !.pc = "over"] ELSE lane[k]]
        /\ UNCHANGED <<client, server, stage, slot, clock, ended, rows, sent, lost,
                       faults, report, key, gauge, seen>>
        /\ stage = "run" /\ Leaves
    BY <1>3 DEF Leave
  <2>2. \A k \in Lanes : lane[k].pc = "idle" => k \in Mine
    BY DEF Base, Placed, LanePlaced
  <2>3. \A k \in Lanes : Turned(k)
    BY <2>1, <2>2 DEF Turned, Moved
  <2> QED
    BY <2>1, <2>3
<1>4. CASE Resume(l)
  <2>1. /\ lane' = [lane EXCEPT ![l].pc = "call"] /\ lane[l].pc = "pause"
        /\ UNCHANGED <<client, server, stage, slot, clock, ended, rows, sent, lost,
                       faults, report, key, gauge, seen>>
    BY <1>4 DEF Resume
  <2>2. \A k \in Lanes : Turned(k)
    BY <1>1, <2>1 DEF Turned, Moved
  <2> QED
    BY <1>1, <2>1, <2>2
<1> QED
  BY <1>2, <1>3, <1>4 DEF Silent

\* A lane that starts a call or leaves is where it can be.
LEMMA TurnedPlaced ==
  ASSUME Base, NEW k \in Lanes, Turned(k), UNCHANGED <<client, server, slot>>
  PROVE  lane'[k] \in LaneStates /\ LanePlaced(k)'
<1>1. lane[k] \in LaneStates /\ LanePlaced(k) /\ T' = T /\ Mine' = Mine
  BY StillKind DEF Base, Typed, Placed
<1>2. CASE lane'[k] = lane[k]
  BY <1>1, <1>2 DEF LanePlaced
<1>3. ASSUME NEW pc \in {"call", "over"}, lane'[k] = Moved(k, pc), k \in Mine
      PROVE  lane'[k] \in LaneStates /\ LanePlaced(k)'
  <2>1. /\ lane'[k] \in LaneStates /\ lane'[k].pc = pc /\ lane'[k].turn = lane[k].turn
        /\ lane'[k].tries = lane[k].tries /\ lane'[k].step = lane[k].step
    BY <1>1, <1>3, MovedTyped DEF Pcs
  <2> QED
    BY <1>1, <1>3, <2>1 DEF LanePlaced
<1> QED
  BY <1>2, <1>3 DEF Turned

\* The slots fit and the lanes are in place.
Sized == Fits /\ Base

\* A lane that keeps its place although slots elsewhere are taken or given back.
LEMMA StaysPlaced ==
  ASSUME Base, UNCHANGED <<client, server>>, NEW k \in Lanes, lane'[k] = lane[k],
         lane[k].pc \in {"sent", "hold"} => slot'[k] > 0
  PROVE  lane'[k] \in LaneStates /\ LanePlaced(k)'
<1>1. lane[k] \in LaneStates /\ LanePlaced(k) /\ T' = T /\ Mine' = Mine
  BY StillKind DEF Base, Typed, Placed
<1> QED
  BY <1>1 DEF LanePlaced

\* A call that ends gives back at most its own slot.
LEMMA EndingSized ==
  ASSUME Sized, NEW l \in Mine, NEW end \in Ends, Ending(l, end), EndOf(l, end)
  PROVE  Sized'
<1> USE DEF Sized
<1>1. /\ l \in Lanes /\ LanePlaced(l) /\ lane \in [Lanes -> LaneStates] /\ slot \in [Lanes -> Nat]
      /\ T' = T /\ Mine' = Mine /\ Kind' /\ UNCHANGED <<client, server, stage, clock, lost, report, key>>
  BY Ours, StillKind, EndingLane DEF Base, Typed, Placed
<1>2. Landed(l, end) /\ RowsAfter(l, end) \in {rows, Good1, Bad1}
  BY AfterLanded
<1>3. slot' \in [Lanes -> Nat] /\ Busy' \in 0..Busy /\ \A k \in Lanes \ {l} : slot'[k] = slot[k]
  <2>1. CASE end \in {"complete", "cut", "broken"}
    <3>1. slot' = [slot EXCEPT ![l] = @ - 1] /\ slot[l] > 0 /\ lost' = lost + 0
      BY <1>1, <2>1 DEF Ending, EndOf, LanePlaced, Base, Typed
    <3>2. Busy' = Busy - 1 + 0 /\ slot' \in [Lanes -> Nat] /\ Busy \in Nat /\ Busy > 0
      BY <1>1, <3>1, Given DEF Base
    <3> QED
      BY <1>1, <3>1, <3>2
  <2>2. CASE end \notin {"complete", "cut", "broken"}
    BY <1>1, <2>2, SlotsStay, BusyTyped DEF Ending, Base
  <2> QED
    BY <2>1, <2>2
<1>4. lane' \in [Lanes -> LaneStates]
  <2>1. lane' = [lane EXCEPT ![l] = After(l, end)] /\ lane'[l] = After(l, end)
    BY EndingLane
  <2> QED
    BY <1>1, <1>2, <2>1 DEF Landed
<1>5. \A k \in Lanes : LanePlaced(k)'
  <2>1. \A k \in Lanes \ {l} : lane'[k] = lane[k]
    BY EndingLane
  <2>2. \A k \in Lanes \ {l} : lane[k].pc \in {"sent", "hold"} => slot'[k] > 0
    BY <1>3 DEF Base, Placed, LanePlaced
  <2> QED
    BY <1>1, <1>2, <2>1, <2>2, StaysPlaced DEF Landed
<1>6. Typed'
  <2>1. rows' \in [ok : Nat, bad : Nat]
    BY <1>2, EndingLane DEF Base, Typed, Good1, Bad1
  <2>2. gauge' \in [ttft : Nat, latency : Nat, throughput : Nat, last : Nat, success : Nat]
    BY EndingLane DEF GaugeAfter, Base, Typed
  <2>3. ended' \in [Ends -> Nat]
    BY EndingLane DEF Base, Typed
  <2>a. sent' \in Nat
    BY DEF Base, Typed, Ending
  <2>4. faults' \in 0..MaxFaults
    <3>1. faults \in 0..MaxFaults /\ MaxFaults \in Nat
      BY ClientsAssumption DEF Base, Typed
    <3>2. faults' = faults \/ (faults < MaxFaults /\ faults' = faults + 1)
      BY DEF Ending
    <3> QED
      BY <3>1, <3>2
  <2>5. seen' \in [peak : Nat, waited : BOOLEAN, early : BOOLEAN, failed : Nat]
    <3>1. lane[l].turn \in Nat
      BY <1>1 DEF LaneStates
    <3> QED
      BY <3>1 DEF Ending, FailedBy, Base, Typed
  <2> QED
    BY <1>1, <1>3, <1>4, <2>1, <2>2, <2>3, <2>a, <2>4, <2>5 DEF Base, Typed
<1>7. Capacity' = Capacity /\ Capacity \in Nat
  BY <1>1 DEF Capacity, Base, Kind
<1> QED
  BY <1>1, <1>3, <1>5, <1>6, <1>7 DEF Base, Placed, Fits

\* A call is admitted only into room, so the slots still fit.
LEMMA AdmitSized ==
  ASSUME Sized, NEW l \in Mine, Admit(l)
  PROVE  /\ Sized' /\ Busy' = Busy + 1
         /\ lane'[l].pc = "sent" /\ lane'[l].turn = lane[l].turn /\ lane'[l].tries = lane[l].tries
         /\ lane'[l].step = lane[l].step /\ \A k \in Lanes \ {l} : lane'[k] = lane[k]
<1> USE DEF Sized
<1>1. /\ l \in Lanes /\ LanePlaced(l) /\ lane \in [Lanes -> LaneStates] /\ slot \in [Lanes -> Nat]
      /\ T' = T /\ Mine' = Mine /\ Kind'
  BY Ours, StillKind DEF Base, Typed, Placed, Admit
<1>2. /\ lane' = [lane EXCEPT ![l].pc = "sent"] /\ slot' = [slot EXCEPT ![l] = @ + 1]
      /\ UNCHANGED <<client, server, stage, clock, ended, rows, lost, report, key, gauge>>
      /\ sent' \in {sent, sent + 1} /\ Room
  BY DEF Admit
<1>3. Busy' = Busy + 1 /\ slot' \in [Lanes -> Nat] /\ Busy \in Nat
  BY <1>1, <1>2, Taken DEF Base
<1>4. /\ lane' \in [Lanes -> LaneStates] /\ lane'[l].pc = "sent" /\ lane'[l].turn = lane[l].turn
      /\ lane'[l].tries = lane[l].tries /\ lane'[l].step = lane[l].step
      /\ \A k \in Lanes \ {l} : lane'[k] = lane[k]
  BY <1>1, <1>2 DEF LaneStates, Pcs
<1>5. \A k \in Lanes : LanePlaced(k)'
  <2>1. LanePlaced(l)'
    BY <1>1, <1>2, <1>4 DEF LanePlaced
  <2>2. \A k \in Lanes \ {l} : lane[k].pc \in {"sent", "hold"} => slot'[k] > 0
    BY <1>1, <1>2 DEF Base, Placed, LanePlaced
  <2> QED
    BY <1>2, <1>4, <2>1, <2>2, StaysPlaced
<1>6. Typed'
  <2>1. faults' \in 0..MaxFaults
    <3>1. lane[l].step = "reject" => faults < MaxFaults
      BY DEF Admit
    <3>2. faults' = IF lane[l].step = "reject" THEN faults + 1 ELSE faults
      BY DEF Admit
    <3>3. faults \in 0..MaxFaults /\ MaxFaults \in Nat
      BY ClientsAssumption DEF Base, Typed
    <3> QED
      BY <3>1, <3>2, <3>3
  <2>2. seen' \in [peak : Nat, waited : BOOLEAN, early : BOOLEAN, failed : Nat]
    BY <1>3 DEF Admit, Base, Typed
  <2> QED
    BY <1>2, <1>3, <1>4, <2>1, <2>2 DEF Base, Typed
<1>7. Capacity' = Capacity /\ Capacity \in Nat /\ Busy' <= Capacity
  BY <1>1, <1>2, <1>3 DEF Capacity, Base, Kind, Room
<1> QED
  BY <1>1, <1>2, <1>3, <1>4, <1>5, <1>6, <1>7 DEF Base, Placed, Fits

\* A call that waits takes no slot.
LEMMA QueueSized ==
  ASSUME Sized, NEW l \in Mine, Queue(l)
  PROVE  /\ Sized'
         /\ lane'[l].pc = "queued" /\ lane'[l].turn = lane[l].turn /\ lane'[l].tries = lane[l].tries
         /\ lane'[l].step = lane[l].step /\ \A k \in Lanes \ {l} : lane'[k] = lane[k]
<1> USE DEF Sized
<1>1. /\ l \in Lanes /\ LanePlaced(l) /\ lane \in [Lanes -> LaneStates]
      /\ T' = T /\ Mine' = Mine /\ Kind'
  BY Ours, StillKind DEF Base, Typed, Placed, Queue
<1>2. /\ lane' = [lane EXCEPT ![l].pc = "queued"] /\ server = "queues" /\ sent' = sent + 1
      /\ seen' = [seen EXCEPT !.waited = TRUE]
      /\ UNCHANGED <<client, server, stage, slot, clock, ended, rows, lost, faults, report, key, gauge>>
  BY DEF Queue
<1>4. /\ lane' \in [Lanes -> LaneStates] /\ lane'[l].pc = "queued" /\ lane'[l].turn = lane[l].turn
      /\ lane'[l].tries = lane[l].tries /\ lane'[l].step = lane[l].step
      /\ \A k \in Lanes \ {l} : lane'[k] = lane[k]
  BY <1>1, <1>2 DEF LaneStates, Pcs
<1>5. \A k \in Lanes : LanePlaced(k)'
  <2>1. LanePlaced(l)'
    BY <1>1, <1>2, <1>4 DEF LanePlaced
  <2>2. \A k \in Lanes \ {l} : lane[k].pc \in {"sent", "hold"} => slot'[k] > 0
    BY <1>2 DEF Base, Placed, LanePlaced
  <2> QED
    BY <1>2, <1>4, <2>1, <2>2, StaysPlaced
<1>6. Typed'
  <2>1. seen' \in [peak : Nat, waited : BOOLEAN, early : BOOLEAN, failed : Nat]
    BY <1>2 DEF Base, Typed
  <2>2. sent' \in Nat
    BY <1>2 DEF Base, Typed
  <2> QED
    BY <1>2, <1>4, <2>1, <2>2 DEF Base, Typed
<1>7. Busy' = Busy /\ Capacity' = Capacity
  BY <1>1, <1>2, SlotsStay DEF Capacity
<1> QED
  BY <1>1, <1>2, <1>4, <1>5, <1>6, <1>7 DEF Base, Placed, Fits

\* Launches, leaves and retries touch no slot.
LEMMA SilentSized == ASSUME Sized, NEW l \in Mine, Silent(l) PROVE Sized'
<1>1. /\ UNCHANGED <<client, server, stage, slot, clock, ended, rows, sent, lost,
                     faults, report, key, gauge, seen>>
      /\ lane' = [k \in Lanes |-> lane'[k]] /\ \A k \in Lanes : Turned(k)
  BY SilentLanes DEF Sized
<1>2. T' = T /\ Mine' = Mine /\ Kind'
  BY <1>1, StillKind DEF Sized, Base
<1>3. \A k \in Lanes : lane'[k] \in LaneStates /\ LanePlaced(k)'
  BY <1>1, TurnedPlaced DEF Sized
<1>4. lane' \in [Lanes -> LaneStates]
  <2> DEFINE f == lane'
  <2>1. f = [k \in Lanes |-> f[k]] /\ \A k \in Lanes : f[k] \in LaneStates
    BY <1>1, <1>3
  <2> HIDE DEF f
  <2>2. f \in [Lanes -> LaneStates]
    BY ONLY <2>1
  <2> QED
    BY <2>2 DEF f
<1>5. Busy' = Busy /\ Capacity' = Capacity
  BY <1>1, <1>2, SlotsStay DEF Capacity
<1>6. Typed'
  BY <1>1, <1>4 DEF Sized, Base, Typed
<1> QED
  BY <1>1, <1>2, <1>3, <1>5, <1>6 DEF Sized, Base, Placed, Fits

\* The hold of a burst is over: its slot comes back.
LEMMA ReleaseSized ==
  ASSUME Sized, NEW l \in Mine, Release(l)
  PROVE  /\ Sized' /\ Busy' = Busy - 1 /\ Busy > 0
         /\ lane'[l].pc = "over" /\ lane'[l].turn = lane[l].turn
         /\ \A k \in Lanes \ {l} : lane'[k] = lane[k]
<1> USE DEF Sized
<1>1. /\ l \in Lanes /\ LanePlaced(l) /\ lane \in [Lanes -> LaneStates] /\ slot \in [Lanes -> Nat]
      /\ T' = T /\ Mine' = Mine /\ Kind' /\ lost \in Nat
  BY Ours, StillKind DEF Base, Typed, Placed, Release
<1>2. /\ lane[l].pc = "hold" /\ lane' = [lane EXCEPT ![l].pc = "over"]
      /\ slot' = [slot EXCEPT ![l] = @ - 1] /\ seen' = Freed
      /\ UNCHANGED <<client, server, stage, clock, ended, rows, sent, lost, faults, report, key, gauge>>
  BY DEF Release
<1>3. Busy' = Busy - 1 + 0 /\ slot' \in [Lanes -> Nat] /\ Busy \in Nat /\ Busy > 0
  <2>1. slot[l] > 0 /\ lost' = lost + 0
    BY <1>1, <1>2 DEF LanePlaced
  <2> QED
    BY <1>1, <1>2, <2>1, Given DEF Base
<1>4. /\ lane' \in [Lanes -> LaneStates] /\ lane'[l].pc = "over" /\ lane'[l].turn = lane[l].turn
      /\ lane'[l].tries = lane[l].tries /\ lane'[l].step = lane[l].step
      /\ \A k \in Lanes \ {l} : lane'[k] = lane[k]
  BY <1>1, <1>2 DEF LaneStates, Pcs
<1>5. \A k \in Lanes : LanePlaced(k)'
  <2>1. LanePlaced(l)'
    BY <1>1, <1>2, <1>4 DEF LanePlaced
  <2>2. \A k \in Lanes \ {l} : lane[k].pc \in {"sent", "hold"} => slot'[k] > 0
    BY <1>1, <1>2 DEF Base, Placed, LanePlaced
  <2> QED
    BY <1>2, <1>4, <2>1, <2>2, StaysPlaced
<1>6. Typed'
  <2>1. seen' \in [peak : Nat, waited : BOOLEAN, early : BOOLEAN, failed : Nat]
    BY <1>2 DEF Freed, Base, Typed
  <2> QED
    BY <1>2, <1>3, <1>4, <2>1 DEF Base, Typed
<1>7. Capacity' = Capacity /\ Capacity \in Nat
  BY <1>1, <1>2 DEF Capacity, Base, Kind
<1>8. Busy' \in 0..Capacity' /\ Busy' = Busy - 1
  BY <1>3, <1>7 DEF Fits
<1> QED
  BY <1>1, <1>2, <1>3, <1>4, <1>5, <1>6, <1>8 DEF Base, Placed, Fits

\* The server finds a client gone: the slot comes back or is lost.
LEMMA ReapedSized ==
  ASSUME Sized, NEW l \in Lanes, Reaped(l)
  PROVE  /\ Sized' /\ Busy > 0
         /\ \/ Busy' = Busy - 1 /\ seen' = Freed
            \/ Busy' = Busy /\ seen' = seen
         /\ UNCHANGED <<client, server, stage, lane, clock, ended, rows, sent, faults,
                        report, key, gauge>>
<1> USE DEF Sized
<1>1. /\ LanePlaced(l) /\ lane \in [Lanes -> LaneStates] /\ slot \in [Lanes -> Nat]
      /\ T' = T /\ Mine' = Mine /\ Kind' /\ lost \in Nat
  BY StillKind DEF Base, Typed, Placed, Reaped, Reap, DropUnstarted
<1>2. /\ Abandoned(l) /\ slot' = [slot EXCEPT ![l] = @ - 1]
      /\ UNCHANGED <<client, server, stage, lane, clock, ended, rows, sent, faults,
                     report, key, gauge>>
  BY DEF Reaped, Reap, DropUnstarted
<1>3. slot[l] > 0 /\ (lane[l].pc \in {"sent", "hold"} => slot'[l] > 0)
  BY <1>1, <1>2 DEF Abandoned
<1>4. /\ slot' \in [Lanes -> Nat] /\ Busy \in Nat /\ Busy > 0
      /\ \/ Busy' = Busy - 1 /\ seen' = Freed /\ lost' = lost
         \/ Busy' = Busy /\ seen' = seen /\ lost' = lost + 1
  <2>1. CASE Reap(l)
    <3>1. lost' = lost + 0 /\ seen' = Freed
      BY <1>1, <2>1 DEF Reap
    <3>2. /\ Busy' = Busy - 1 + 0 /\ slot' \in [Lanes -> Nat] /\ Busy \in Nat /\ Busy > 0
      BY <1>2, <1>3, <3>1, Given DEF Base
    <3> QED
      BY <1>1, <3>1, <3>2
  <2>2. CASE DropUnstarted(l)
    <3>1. lost' = lost + 1 /\ seen' = seen
      BY <2>2 DEF DropUnstarted
    <3>2. /\ Busy' = Busy - 1 + 1 /\ slot' \in [Lanes -> Nat] /\ Busy \in Nat /\ Busy > 0
      BY <1>2, <1>3, <3>1, Given DEF Base
    <3> QED
      BY <3>1, <3>2
  <2> QED
    BY <2>1, <2>2 DEF Reaped
<1>5. \A k \in Lanes : LanePlaced(k)'
  <2>1. \A k \in Lanes : lane'[k] = lane[k] /\ (lane[k].pc \in {"sent", "hold"} => slot'[k] > 0)
    BY <1>1, <1>2, <1>3 DEF Base, Placed, LanePlaced
  <2> QED
    BY <1>2, <2>1, StaysPlaced
<1>6. Typed'
  <2>1. seen' \in [peak : Nat, waited : BOOLEAN, early : BOOLEAN, failed : Nat]
    <3>1. Freed \in [peak : Nat, waited : BOOLEAN, early : BOOLEAN, failed : Nat]
      BY DEF Freed, Base, Typed
    <3> QED
      BY <1>4, <3>1 DEF Base, Typed
  <2>a. lost' \in Nat
    BY <1>1, <1>4
  <2> QED
    BY <1>2, <1>4, <2>1, <2>a DEF Base, Typed
<1>7. Capacity' = Capacity /\ Capacity \in Nat
  BY <1>1, <1>2 DEF Capacity, Base, Kind
<1>8. Busy' \in 0..Capacity'
  BY <1>4, <1>7 DEF Fits
<1> QED
  BY <1>1, <1>2, <1>4, <1>5, <1>6, <1>8 DEF Base, Placed, Fits

\* The monitor's lane publishes its next gauge, or has published the last.
LEMMA PublishLane ==
  ASSUME Base, NEW l \in Mine, Publish(l)
  PROVE  /\ UNCHANGED <<client, server, stage, slot, clock, ended, sent, lost, faults,
                        report, key, seen>>
         /\ T.shape = "probe" /\ l = 1 /\ Mine = {1} /\ lane[l].pc = "publish" /\ lane[l].tries \in 1..5
         /\ lane' \in [Lanes -> LaneStates] /\ \A k \in Lanes \ {l} : lane'[k] = lane[k]
         /\ lane'[l].step = lane[l].step
         /\ \/ /\ lane[l].tries < 5 /\ lane'[l].pc = "publish" /\ lane'[l].turn = lane[l].turn
               /\ lane'[l].tries = lane[l].tries + 1 /\ rows' = rows
               /\ gauge' = [gauge EXCEPT ![Gauges[lane[l].tries]] = lane[l].turn]
            \/ /\ lane[l].tries = 5 /\ lane'[l].pc = "idle" /\ lane'[l].turn = lane[l].turn + 1
               /\ lane'[l].tries = 1 /\ rows' = Good1 /\ gauge' = [gauge EXCEPT !.success = 1]
<1>1. /\ l \in Lanes /\ LanePlaced(l) /\ lane \in [Lanes -> LaneStates] /\ lane[l] \in LaneStates
      /\ T.shape = "probe" => T.lanes = 1
  BY Ours DEF Base, Typed, Placed, Kind
<1>2. /\ lane[l].pc = "publish"
      /\ gauge' = [gauge EXCEPT ![Gauges[lane[l].tries]] =
                     IF Gauges[lane[l].tries] = "success" THEN 1 ELSE lane[l].turn]
      /\ UNCHANGED <<client, server, stage, slot, clock, ended, sent, lost, faults, report, key, seen>>
  BY DEF Publish
<1>3. T.shape = "probe" /\ l = 1 /\ Mine = {1} /\ lane[l].tries \in 1..5
  BY <1>1, <1>2 DEF LanePlaced, Mine, LaneStates, Attempts
<1>4. Len(Gauges) = 5
  BY DEF Gauges
<1>5. CASE lane[l].tries < 5
  <2>1. lane' = [lane EXCEPT ![l].tries = @ + 1] /\ rows' = rows
    BY <1>4, <1>5 DEF Publish
  <2>2. lane[l].tries + 1 \in 1..(Attempts + 1)
    BY <1>3, <1>5 DEF Attempts
  <2>3. /\ lane' \in [Lanes -> LaneStates] /\ lane'[l].pc = "publish" /\ lane'[l].turn = lane[l].turn
        /\ lane'[l].tries = lane[l].tries + 1 /\ lane'[l].step = lane[l].step
        /\ \A k \in Lanes \ {l} : lane'[k] = lane[k]
    BY <1>1, <1>2, <2>1, <2>2 DEF LaneStates
  <2>4. Gauges[lane[l].tries] # "success"
    BY <1>3, <1>5 DEF Gauges
  <2> QED
    BY <1>2, <1>3, <1>5, <2>1, <2>3, <2>4
<1>6. CASE lane[l].tries = 5
  <2>1. /\ lane' = [lane EXCEPT ![l] = [lane[l] EXCEPT !.pc = "idle", !.tries = 1, !.turn = @ + 1]]
        /\ rows' = Good1
    BY <1>4, <1>6 DEF Publish, Good1
  <2>2. lane[l].turn + 1 \in Nat \ {0} /\ 1 \in 1..(Attempts + 1) /\ "idle" \in Pcs
    BY <1>1 DEF LaneStates, Attempts, Pcs
  <2>3. /\ lane' \in [Lanes -> LaneStates] /\ lane'[l].pc = "idle" /\ lane'[l].turn = lane[l].turn + 1
        /\ lane'[l].tries = 1 /\ lane'[l].step = lane[l].step
        /\ \A k \in Lanes \ {l} : lane'[k] = lane[k]
    BY <1>1, <1>2, <2>1, <2>2 DEF LaneStates
  <2>4. Gauges[lane[l].tries] = "success"
    BY <1>6 DEF Gauges
  <2>5. gauge' = [gauge EXCEPT !.success = 1]
    BY <1>2, <2>4
  <2> QED
    BY <1>2, <1>3, <1>6, <2>1, <2>3, <2>5
<1> QED
  BY <1>3, <1>5, <1>6

\* A publication moves only the lane of the monitor.
LEMMA PublishSized == ASSUME Sized, NEW l \in Mine, Publish(l) PROVE Sized'
<1> USE DEF Sized
<1>1. /\ UNCHANGED <<client, server, stage, slot, clock, ended, sent, lost, faults,
                     report, key, seen>>
      /\ lane' \in [Lanes -> LaneStates] /\ \A k \in Lanes \ {l} : lane'[k] = lane[k]
      /\ T.shape = "probe" /\ lane'[l].pc \in {"publish", "idle"} /\ lane'[l].step = lane[l].step
  BY PublishLane
<1>2. T' = T /\ Mine' = Mine /\ Kind' /\ l \in Lanes /\ LanePlaced(l)
  BY <1>1, StillKind, Ours DEF Base, Placed
<1>3. \A k \in Lanes : LanePlaced(k)'
  <2>1. LanePlaced(l)'
    BY <1>1, <1>2 DEF LanePlaced
  <2>2. \A k \in Lanes \ {l} : lane[k].pc \in {"sent", "hold"} => slot'[k] > 0
    BY <1>1 DEF Base, Placed, LanePlaced
  <2> QED
    BY <1>1, <2>1, <2>2, StaysPlaced
<1>4. rows' \in [ok : Nat, bad : Nat]
  BY PublishLane DEF Good1, Base, Typed
<1>5. gauge' \in [ttft : Nat, latency : Nat, throughput : Nat, last : Nat, success : Nat]
  <2>1. lane[l].turn \in Nat /\ lane[l].tries \in 1..5
    BY <1>2, PublishLane DEF Base, Typed, LaneStates
  <2>2. lane[l].tries < 5 => Gauges[lane[l].tries] \in {"ttft", "latency", "throughput", "last"}
    BY <2>1 DEF Gauges
  <2>3. CASE gauge' = [gauge EXCEPT !.success = 1]
    BY <2>3 DEF Base, Typed
  <2>4. ASSUME NEW g \in {"ttft", "latency", "throughput", "last"},
               gauge' = [gauge EXCEPT ![g] = lane[l].turn]
        PROVE  gauge' \in [ttft : Nat, latency : Nat, throughput : Nat, last : Nat, success : Nat]
    <3>1. CASE g = "ttft"
      BY <2>1, <2>4, <3>1 DEF Base, Typed
    <3>2. CASE g = "latency"
      BY <2>1, <2>4, <3>2 DEF Base, Typed
    <3>3. CASE g = "throughput"
      BY <2>1, <2>4, <3>3 DEF Base, Typed
    <3>4. CASE g = "last"
      BY <2>1, <2>4, <3>4 DEF Base, Typed
    <3> QED
      BY <3>1, <3>2, <3>3, <3>4
  <2> QED
    BY <2>2, <2>3, <2>4, PublishLane
<1>6. Busy' = Busy /\ Capacity' = Capacity
  BY <1>1, <1>2, SlotsStay DEF Capacity
<1> QED
  BY <1>1, <1>2, <1>3, <1>4, <1>5, <1>6 DEF Base, Typed, Placed, Fits

\* The steps of the client as a whole, and none.
Overall == Begin \/ Tick \/ WarmedUp \/ Judge \/ CleanUp \/ UNCHANGED vars

\* The steps of the client as a whole touch no lane and no slot.
LEMMA OverallSized ==
  ASSUME Sized, Overall
  PROVE  Sized' /\ UNCHANGED <<client, server, lane, slot, lost, gauge, seen>>
<1> USE DEF Sized
<1>1. UNCHANGED <<client, server, lane, slot, lost, gauge, seen>>
  BY DEF Overall, Begin, Tick, WarmedUp, Judge, CleanUp, vars
<1>2. Typed'
  <2>1. CASE Begin
    BY <2>1 DEF Begin, Base, Typed
  <2>2. CASE Tick
    <3>1. clock' \in 0..Deadline
      <4>1. clock \in 0..Deadline /\ Deadline \in Nat
        BY ClientsAssumption DEF Base, Typed
      <4>2. clock < Deadline /\ clock' = clock + 1
        BY <2>2 DEF Tick
      <4> QED
        BY <4>1, <4>2
    <3> QED
      BY <2>2, <3>1 DEF Tick, Base, Typed
  <2>3. CASE WarmedUp
    <3>1. ended' \in [Ends -> Nat]
      BY <2>3 DEF WarmedUp
    <3>2. rows' \in [ok : Nat, bad : Nat]
      BY <2>3 DEF WarmedUp
    <3> QED
      BY <2>3, <3>1, <3>2 DEF WarmedUp, Base, Typed
  <2>4. CASE Judge
    BY <2>4 DEF Judge, Base, Typed
  <2>5. CASE CleanUp
    <3>1. faults' \in 0..MaxFaults
      <4>1. faults \in 0..MaxFaults /\ MaxFaults \in Nat
        BY ClientsAssumption DEF Base, Typed
      <4>2. faults' = faults \/ (faults < MaxFaults /\ faults' = faults + 1)
        BY <2>5 DEF CleanUp
      <4> QED
        BY <4>1, <4>2
    <3>2. report' \in {NoReport, "saved", "passed", "failed"} /\ stage' = "end"
      BY <2>5 DEF CleanUp, Base, Typed
    <3>3. UNCHANGED <<client, server, lane, slot, clock, ended, rows, sent, lost, gauge, seen>>
      BY <2>5 DEF CleanUp
    <3> QED
      BY <3>1, <3>2, <3>3 DEF Base, Typed
  <2>6. CASE UNCHANGED vars
    BY <2>6 DEF vars, Base, Typed
  <2> QED
    BY <2>1, <2>2, <2>3, <2>4, <2>5, <2>6 DEF Overall
<1>3. T' = T /\ Mine' = Mine /\ Kind'
  BY <1>1, StillKind DEF Base
<1>4. Busy' = Busy /\ Capacity' = Capacity
  BY <1>1, <1>3, SlotsStay DEF Capacity
<1>5. \A k \in Lanes : LanePlaced(k)'
  BY <1>1, StaysPlaced DEF Base, Placed, LanePlaced
<1> QED
  BY <1>1, <1>2, <1>3, <1>4, <1>5 DEF Base, Placed, Fits

\* Every step is one of these.
LEMMA Cases ==
  ASSUME Sized, [Next]_vars
  PROVE  \/ \E l \in Mine, end \in Ends : Ending(l, end) /\ EndOf(l, end)
         \/ \E l \in Mine : Admit(l) \/ Queue(l) \/ Release(l) \/ Silent(l) \/ Publish(l)
         \/ \E l \in Lanes : Reaped(l)
         \/ Overall
BY Ways DEF Sized, Base, Overall

\* No step takes more slots than the server has, or puts a lane where it cannot be.
LEMMA NextSized == Sized /\ [Next]_vars => Sized'
BY Cases, EndingSized, AdmitSized, QueueSized, ReleaseSized, SilentSized, PublishSized,
   ReapedSized, OverallSized

\* A client starts with idle lanes and free slots.
LEMMA InitSized == Init => Sized /\ Staged
<1> SUFFICES ASSUME Init PROVE Sized /\ Staged
  OBVIOUS
<1>1. client \in DOMAIN Traits
  BY TableAssumption DEF Init
<1>2. Kind
  BY <1>1, KindOf
<1>3. FirstStep(1) \in Steps
  BY <1>2 DEF FirstStep, Kind, Steps
<1>4. /\ lane = [l \in Lanes |-> [pc |-> IF l \in Mine THEN "idle" ELSE "over", turn |-> 1,
                                  tries |-> 1, step |-> FirstStep(1)]]
      /\ slot = [l \in Lanes |-> 0] /\ lost = 0
  BY DEF Init
<1>5. lane \in [Lanes -> LaneStates]
  BY <1>3, <1>4 DEF LaneStates, Pcs, Attempts
<1>6. server \in {"keeps", "over", "queues", "bare"} /\ (T.shape # "burst" => server = "keeps")
  BY ClientsAssumption DEF Init
<1>7. Typed
  <2>1. ended \in [Ends -> Nat] /\ slot \in [Lanes -> Nat]
    BY <1>4 DEF Init
  <2>2. clock \in 0..Deadline /\ faults \in 0..MaxFaults
    BY ClientsAssumption DEF Init
  <2>3. /\ gauge \in [ttft : Nat, latency : Nat, throughput : Nat, last : Nat, success : Nat]
        /\ seen \in [peak : Nat, waited : BOOLEAN, early : BOOLEAN, failed : Nat]
        /\ rows \in [ok : Nat, bad : Nat]
    BY DEF Init
  <2> QED
    BY <1>1, <1>5, <1>6, <2>1, <2>2, <2>3 DEF Init, Typed
<1>8. \A l \in Lanes : LanePlaced(l)
  <2> TAKE l \in Lanes
  <2>1. /\ lane[l].pc = IF l \in Mine THEN "idle" ELSE "over"
        /\ lane[l].turn = 1 /\ lane[l].tries = 1 /\ lane[l].step = FirstStep(1)
    BY <1>4
  <2>2. T.calls \in Nat \ {0} /\ 1 <= Attempts
    BY <1>2 DEF Kind, Attempts
  <2> QED
    BY <2>1, <2>2 DEF LanePlaced, FirstStep
<1>9. Fits
  <2>1. GenerationsOf(slot) = {}
    BY <1>4 DEF GenerationsOf
  <2>2. Generations = {}
    BY <2>1 DEF Generations, GenerationsOf
  <2>3. Busy = 0
    BY <1>4, <2>2, FS_EmptySet DEF Busy
  <2> QED
    BY <1>2, <2>3 DEF Fits, Capacity, Kind
<1>10. Staged
  <2>1. /\ stage = "begin" /\ report = NoReport /\ Recorded = 0
    BY DEF Init, Recorded
  <2>2. \A l \in Mine : lane[l].pc = "idle"
    BY <1>2, <1>4, Ours
  <2> QED
    BY <2>1, <2>2 DEF Staged
<1> QED
  BY <1>2, <1>6, <1>7, <1>8, <1>9, <1>10 DEF Sized, Base, Placed

\* During the warm-up only the first lane calls, and never more often than asked for.
LEMMA WarmLaunches ==
  ASSUME Base, stage = "warm", NEW l \in Mine, Silent(l), T.shape # "samples"
  PROVE  /\ Recorded < T.warm
         /\ \A k \in Lanes : lane'[k] = lane[k] \/ (k = 1 /\ lane'[k] = Moved(k, "call"))
<1>1. LanePlaced(l)
  BY Ours DEF Base, Placed
<1>2. Launch(l)
  BY <1>1 DEF Silent, Leave, Resume, LanePlaced
<1>3. /\ Launches(l) # {}
      /\ lane' = [k \in Lanes |-> IF k \in Launches(l) THEN [lane[k] EXCEPT !.pc = "call"] ELSE lane[k]]
  BY <1>2 DEF Launch
<1>4. Launches(l) = IF l = 1 /\ Recorded < T.warm THEN {1} ELSE {}
  BY DEF Launches
<1> QED
  BY <1>3, <1>4 DEF Moved

\* The stages keep their meaning: the warm-up its one lane, a report its lanes over.
LEMMA NextStaged == Sized /\ Staged /\ [Next]_vars => Staged'
<1> SUFFICES ASSUME Sized, Staged, [Next]_vars PROVE Staged'
  OBVIOUS
<1> USE DEF Sized
<1>1. /\ T' = T /\ Mine' = Mine /\ Kind /\ Sized' /\ T.warm \in Nat
      /\ T.warm > 0 => T.shape = "batches"
      /\ Mine \subseteq Lanes /\ 1 \in Mine
  BY SameClient, StillKind, NextSized, Ours DEF Base, Kind
<1>2. Recorded \in Nat
  BY DEF Base, Typed, Recorded
<1>3. ASSUME NEW l \in Mine, NEW end \in Ends, Ending(l, end), EndOf(l, end) PROVE Staged'
  <2>1. /\ lane[l].pc \in {"call", "queued", "sent"} /\ stage' = stage /\ report' = report
        /\ lane'[l] = After(l, end) /\ \A k \in Lanes \ {l} : lane'[k] = lane[k]
        /\ rows' = RowsAfter(l, end)
    BY <1>3, EndingLane DEF Ending
  <2>2. stage # "begin" /\ report = NoReport
    BY <1>1, <2>1 DEF Staged
  <2>3. ASSUME stage = "warm"
        PROVE  /\ l = 1 /\ lane'[1].pc = "idle" /\ T.warm > 0 /\ Recorded' <= T.warm
               /\ \A k \in Mine \ {1} : lane[k].pc = "idle"
    <3>1. l = 1 /\ Recorded < T.warm /\ T.warm > 0 /\ \A k \in Mine \ {1} : lane[k].pc = "idle"
      BY <1>1, <2>1, <2>3 DEF Staged
    <3>2. T.shape = "batches"
      BY <1>1, <3>1
    <3>3. /\ After(l, end) = Moved(l, "idle") /\ RowsAfter(l, end) \in {Good1, Bad1}
      BY <3>2, OtherCases
    <3>4. lane'[1].pc = "idle"
      BY <1>1, <2>1, <3>1, <3>3, MovedTyped DEF Base, Typed, Pcs
    <3>5. Recorded' = Recorded + 1
      BY <2>1, <3>3 DEF Good1, Bad1, Recorded, Base, Typed
    <3>6. Recorded' <= T.warm
      BY <1>1, <1>2, <3>1, <3>5
    <3> QED
      BY <3>1, <3>4, <3>6
  <2> QED
    BY <1>1, <2>1, <2>2, <2>3 DEF Staged
<1>4. ASSUME NEW l \in Mine, Admit(l) PROVE Staged'
  <2>1. /\ lane'[l].pc = "sent" /\ \A k \in Lanes \ {l} : lane'[k] = lane[k]
        /\ stage' = stage /\ report' = report /\ rows' = rows /\ lane[l].pc \in {"call", "queued"}
    BY <1>4, AdmitSized DEF Admit
  <2>2. Recorded' = Recorded
    BY <2>1 DEF Recorded
  <2> QED
    BY <1>1, <2>1, <2>2 DEF Staged
<1>5. ASSUME NEW l \in Mine, Queue(l) \/ Release(l) \/ Publish(l) PROVE Staged'
  <2>1. T.shape # "batches"
    <3>1. Queue(l) => server = "queues"
      BY DEF Queue
    <3>2. LanePlaced(l) /\ (T.shape # "burst" => server = "keeps")
      BY <1>1 DEF Base, Placed
    <3>3. Release(l) => lane[l].pc = "hold"
      BY DEF Release
    <3>4. Publish(l) => lane[l].pc = "publish"
      BY DEF Publish
    <3> QED
      BY <1>5, <3>1, <3>2, <3>3, <3>4 DEF LanePlaced
  <2>2. lane[l].pc \in {"call", "hold", "publish"} /\ stage' = stage /\ report' = report
    BY <1>5 DEF Queue, Release, Publish
  <2> QED
    BY <1>1, <2>1, <2>2 DEF Staged
<1>6. ASSUME NEW l \in Mine, Silent(l) PROVE Staged'
  <2>1. /\ UNCHANGED <<stage, rows, report>> /\ \A k \in Lanes : Turned(k)
        /\ lane[l].pc \in {"idle", "pause"}
    BY <1>6, SilentLanes DEF Silent, Launch, Leave, Resume
  <2>2. stage # "begin"
    BY <1>1, <1>6, <2>1 DEF Staged, Silent, Launch, Leave, Resume, Running
  <2>3. Recorded' = Recorded
    BY <2>1 DEF Recorded
  <2>4. CASE stage = "warm"
    <3>1. /\ Recorded < T.warm
          /\ \A k \in Lanes : lane'[k] = lane[k] \/ (k = 1 /\ lane'[k] = Moved(k, "call"))
      BY <1>1, <1>6, <2>4, WarmLaunches DEF Staged
    <3>2. lane'[1].pc \in {lane[1].pc, "call"} /\ \A k \in Mine \ {1} : lane'[k] = lane[k]
      BY <1>1, <3>1, MovedTyped DEF Base, Typed, Pcs
    <3> QED
      BY <1>1, <1>2, <2>1, <2>3, <2>4, <3>1, <3>2 DEF Staged
  <2>5. CASE stage \in {"run", "clean", "end"}
    <3>1. report = NoReport
      BY <1>1, <2>1 DEF Staged
    <3> QED
      BY <2>1, <2>5, <3>1 DEF Staged
  <2> QED
    BY <2>2, <2>4, <2>5 DEF Base, Typed
<1>7. ASSUME NEW l \in Lanes, Reaped(l) PROVE Staged'
  <2>1. UNCHANGED <<client, stage, lane, rows, report>>
    BY <1>7, ReapedSized
  <2> QED
    BY <1>1, <2>1 DEF Staged, Recorded
<1>8. CASE Overall
  <2>1. lane' = lane
    BY <1>8, OverallSized
  <2>2. CASE Begin
    <3>1. /\ stage = "begin" /\ stage' \in {"warm", "run", "clean"} /\ UNCHANGED <<rows, report>>
          /\ stage' = "warm" => T.warm > 0
      BY <2>2 DEF Begin
    <3>2. Recorded = 0 /\ \A k \in Mine : lane[k].pc = "idle"
      BY <3>1 DEF Staged
    <3>3. Recorded' = Recorded
      BY <3>1 DEF Recorded
    <3>4. report = NoReport /\ report' = report
      BY <3>1 DEF Staged
    <3>5. \A k \in Mine' : lane'[k].pc = "idle"
      BY <1>1, <2>1, <3>2
    <3>6. stage' = "warm" => /\ T.warm > 0 /\ Recorded' <= T.warm
                             /\ \A k \in Mine' : lane'[k].pc = "idle"
                             /\ lane'[1].pc = "idle"
      BY <1>1, <3>1, <3>2, <3>3, <3>5
    <3>7. stage' # "begin" /\ report' = NoReport
      BY <3>1, <3>4
    <3> QED
      BY <1>1, <3>6, <3>7 DEF Staged
  <2>3. CASE Tick \/ UNCHANGED vars
    <3>1. UNCHANGED <<client, stage, lane, rows, report>>
      BY <2>3 DEF Tick, vars
    <3> QED
      BY <1>1, <3>1 DEF Staged, Recorded
  <2>4. CASE WarmedUp
    <3>1. stage = "warm" /\ stage' \in {"run", "end"} /\ report' = report
      BY <2>4 DEF WarmedUp
    <3> QED
      BY <1>1, <2>1, <3>1 DEF Staged
  <2>5. CASE Judge
    <3>1. stage' \in {"clean", "end"} /\ At("over") = Mine
      BY <2>5 DEF Judge
    <3>2. \A l \in Lanes : lane[l].pc = "over"
      BY <3>1 DEF At, Base, Placed, LanePlaced
    <3> QED
      BY <1>1, <2>1, <3>1, <3>2 DEF Staged
  <2>6. CASE CleanUp
    <3>1. stage = "clean" /\ stage' = "end" /\ report' \in {report, NoReport}
      BY <2>6 DEF CleanUp
    <3> QED
      BY <1>1, <2>1, <3>1 DEF Staged
  <2> QED
    BY <1>8, <2>2, <2>3, <2>4, <2>5, <2>6 DEF Overall
<1> QED
  BY <1>3, <1>4, <1>5, <1>6, <1>7, <1>8, Cases

(***************************************************************************)
(* Counting lanes and ends.                                                *)

\* The lanes in given places can be counted.
LEMMA ThoseFinite ==
  ASSUME Kind, NEW S
  PROVE  /\ IsFiniteSet(Those(S)) /\ Cardinality(Those(S)) \in Nat /\ Cardinality(Those(S)) <= T.lanes
         /\ Those(S) = {} => Cardinality(Those(S)) = 0
         /\ Those(S) # {} => Cardinality(Those(S)) > 0
<1>1. IsFiniteSet(Mine) /\ Cardinality(Mine) = T.lanes
  BY Ours
<1>2. IsFiniteSet(Those(S)) /\ Cardinality(Those(S)) <= T.lanes
  <2>1. Those(S) \in SUBSET Mine
    BY DEF Those
  <2> QED
    BY <1>1, <2>1, FS_Subset
<1>3. Cardinality(Those(S)) \in Nat /\ (Cardinality(Those(S)) = 0 <=> Those(S) = {})
  BY <1>2, FS_CardinalityType, FS_EmptySet
<1> QED
  BY <1>2, <1>3

\* One lane moves.
LEMMA OneMoves ==
  ASSUME Base, NEW l \in Mine, client' = client, \A k \in Lanes \ {l} : lane'[k] = lane[k], NEW S
  PROVE  /\ Cardinality(Those(S)) \in Nat
         /\ lane[l].pc \in S => Cardinality(Those(S)) > 0
         /\ lane[l].pc \in S /\ lane'[l].pc \in S => Cardinality(Those(S)') = Cardinality(Those(S))
         /\ lane[l].pc \notin S /\ lane'[l].pc \notin S => Cardinality(Those(S)') = Cardinality(Those(S))
         /\ lane[l].pc \in S /\ lane'[l].pc \notin S => Cardinality(Those(S)') = Cardinality(Those(S)) - 1
         /\ lane[l].pc \notin S /\ lane'[l].pc \in S => Cardinality(Those(S)') = Cardinality(Those(S)) + 1
<1>1. Mine' = Mine /\ l \in Mine /\ Mine \subseteq Lanes
  BY StillKind, Ours DEF Base
<1>2. IsFiniteSet(Those(S)) /\ Cardinality(Those(S)) \in Nat
  BY ThoseFinite DEF Base
<1>3. lane[l].pc \in S => Cardinality(Those(S)) > 0
  BY <1>1, ThoseFinite DEF Base, Those
<1>4. ASSUME (lane[l].pc \in S) <=> (lane'[l].pc \in S) PROVE Those(S)' = Those(S)
  BY <1>1, <1>4 DEF Those
<1>5. ASSUME lane[l].pc \in S, lane'[l].pc \notin S PROVE Those(S)' = Those(S) \ {l} /\ l \in Those(S)
  BY <1>1, <1>5 DEF Those
<1>6. ASSUME lane[l].pc \notin S, lane'[l].pc \in S PROVE Those(S)' = Those(S) \cup {l} /\ l \notin Those(S)
  BY <1>1, <1>6 DEF Those
<1>7. /\ Cardinality(Those(S) \ {l}) = IF l \in Those(S) THEN Cardinality(Those(S)) - 1 ELSE Cardinality(Those(S))
      /\ Cardinality(Those(S) \cup {l}) = IF l \in Those(S) THEN Cardinality(Those(S)) ELSE Cardinality(Those(S)) + 1
  BY <1>2, FS_AddElement, FS_RemoveElement
<1> QED
  BY <1>2, <1>3, <1>4, <1>5, <1>6, <1>7

\* Lanes start calls or leave.
LEMMA NoneMoves ==
  ASSUME Base, NEW l \in Mine, Silent(l), NEW S,
         "idle" \in S <=> "call" \in S, "pause" \in S <=> "call" \in S, "idle" \in S <=> "over" \in S
  PROVE  Those(S)' = Those(S)
<1>1. Mine' = Mine /\ Mine \subseteq Lanes /\ \A k \in Lanes : Turned(k)
  BY SilentLanes, StillKind, Ours DEF Base
<1>2. \A k \in Mine : lane'[k].pc \in S <=> lane[k].pc \in S
  <2> TAKE k \in Mine
  <2>1. lane[k] \in LaneStates /\ Turned(k)
    BY <1>1 DEF Base, Typed
  <2>2. \A pc \in {"call", "over"} : Moved(k, pc).pc = pc
    BY <2>1, MovedTyped DEF Pcs
  <2> QED
    BY <2>1, <2>2 DEF Turned
<1> QED
  BY <1>1, <1>2 DEF Those

\* A call that ends is one more answer.
LEMMA AnsweredMore ==
  ASSUME Typed, NEW end \in Ends, ended' = [ended EXCEPT ![end] = @ + 1]
  PROVE  Answered' = Answered + 1
<1>1. ended \in [Ends -> Nat]
  BY DEF Typed
<1>2. \A e \in Ends : ended'[e] = IF e = end THEN ended[e] + 1 ELSE ended[e]
  BY <1>1
<1>3. \A e \in Ends : ended[e] \in Nat
  BY <1>1
<1>4. /\ {"complete", "accepted", "rejected", "cut", "broken", "timeout", "unreachable", "error",
          "busy", "late", "bare"} = Ends
  BY DEF Ends, Mishaps, Refusals
<1> DEFINE d(e) == IF e = end THEN 1 ELSE 0
<1>5. \A e \in Ends : ended'[e] = ended[e] + d(e) /\ d(e) \in {0, 1}
  BY <1>2, <1>3
<1>6. d("complete") + d("accepted") + d("rejected")
        + d("cut") + d("broken") + d("timeout") + d("unreachable") + d("error")
        + d("busy") + d("late") + d("bare") = 1
  BY <1>4
<1> HIDE DEF d
<1>7. /\ ended'["complete"] = ended["complete"] + d("complete")
      /\ ended'["accepted"] = ended["accepted"] + d("accepted")
      /\ ended'["rejected"] = ended["rejected"] + d("rejected")
      /\ ended'["cut"] = ended["cut"] + d("cut")
      /\ ended'["broken"] = ended["broken"] + d("broken")
      /\ ended'["timeout"] = ended["timeout"] + d("timeout")
      /\ ended'["unreachable"] = ended["unreachable"] + d("unreachable")
      /\ ended'["error"] = ended["error"] + d("error")
      /\ ended'["busy"] = ended["busy"] + d("busy")
      /\ ended'["late"] = ended["late"] + d("late")
      /\ ended'["bare"] = ended["bare"] + d("bare")
  BY <1>4, <1>5
<1>8. \A e \in Ends : d(e) \in {0, 1}
  BY <1>5
<1> QED
  BY <1>3, <1>4, <1>6, <1>7, <1>8 DEF Answered

\* A call that ends has its row, unless it is a probe that is to be published.
LEMMA OneRow ==
  ASSUME Base, NEW l \in Mine, NEW end \in Ends, Ending(l, end), T.shape # "samples"
  PROVE  /\ ~(T.shape = "probe" /\ Good(l, end)) => Recorded' = Recorded + 1
         /\ T.shape = "probe" /\ Good(l, end) => rows' = rows /\ Recorded' = Recorded
         /\ Good(l, end) => rows'.bad = rows.bad
         /\ ~Good(l, end) => rows'.bad = rows.bad + 1
<1>1. /\ rows' = IF T.shape = "probe" /\ Good(l, end) THEN rows
                 ELSE IF Good(l, end) THEN Good1 ELSE Bad1
  BY OtherCases, EndingLane
<1>2. rows \in [ok : Nat, bad : Nat]
  BY DEF Base, Typed
<1>3. /\ Good1.ok = rows.ok + 1 /\ Good1.bad = rows.bad
      /\ Bad1.ok = rows.ok /\ Bad1.bad = rows.bad + 1
      /\ rows.ok \in Nat /\ rows.bad \in Nat
  BY <1>2 DEF Good1, Bad1
<1>4. CASE T.shape = "probe" /\ Good(l, end)
  BY <1>1, <1>4 DEF Recorded
<1>5. CASE T.shape # "probe" /\ Good(l, end)
  <2>1. rows' = Good1
    BY <1>1, <1>5
  <2> QED
    BY <1>3, <1>5, <2>1 DEF Recorded
<1>6. CASE ~Good(l, end)
  <2>1. rows' = Bad1
    BY <1>1, <1>6
  <2> QED
    BY <1>3, <1>6, <2>1 DEF Recorded
<1> QED
  BY <1>4, <1>5, <1>6

\* After the warm-up no lane is at work.
LEMMA WarmIdle ==
  ASSUME Sized, Staged, WarmedUp
  PROVE  /\ T.shape = "batches" /\ \A k \in Mine : lane[k].pc = "idle"
         /\ report = NoReport /\ stage' \in {"run", "end"} /\ report' = NoReport
<1>1. stage = "warm" /\ Recorded = T.warm /\ stage' \in {"run", "end"} /\ report' = report
  BY DEF WarmedUp
<1>2. T.warm \in Nat /\ (T.warm > 0 => T.shape = "batches")
  BY DEF Sized, Base, Kind
<1>3. Recorded \in Nat /\ 1 \in Mine
  BY Ours DEF Sized, Base, Typed, Recorded
<1>4. T.warm > 0 /\ ~(Recorded < T.warm)
  BY <1>1, <1>2, <1>3 DEF Staged
<1>5. \A k \in Mine : lane[k].pc = "idle"
  BY <1>1, <1>3, <1>4 DEF Staged
<1>6. report = NoReport
  BY <1>1 DEF Staged
<1> QED
  BY <1>1, <1>2, <1>4, <1>5, <1>6

\* What every step leaves as it is, for the lemmas that follow.
LEMMA Lasting ==
  ASSUME Sized, [Next]_vars
  PROVE  /\ T' = T /\ Mine' = Mine /\ Kind /\ Base /\ Sized' /\ Mine \subseteq Lanes /\ 1 \in Mine
         /\ client' = client /\ server' = server
         /\ sent \in Nat /\ Recorded \in Nat /\ Answered \in Nat /\ Recorded' \in Nat
         /\ \A l \in Mine : lane[l] \in LaneStates /\ lane'[l] \in LaneStates /\ LanePlaced(l) /\ LanePlaced(l)'
<1>1. Base /\ Kind /\ Sized' /\ client' = client /\ server' = server
  BY NextSized, SameClient DEF Sized, Base
<1>2. T' = T /\ Mine' = Mine /\ Mine \subseteq Lanes /\ 1 \in Mine
  BY <1>1, StillKind, Ours
<1>3. Typed /\ Typed' /\ Placed /\ Placed'
  BY <1>1 DEF Sized, Base
<1>4. sent \in Nat /\ Recorded \in Nat /\ Recorded' \in Nat
  BY <1>3 DEF Typed, Recorded
<1>5. \A e \in Ends : ended[e] \in Nat
  BY <1>3 DEF Typed
<1>6. Answered \in Nat
  BY <1>5 DEF Answered, Ends, Mishaps, Refusals
<1>7. lane \in [Lanes -> LaneStates] /\ lane' \in [Lanes -> LaneStates]
  BY <1>3 DEF Typed
<1> QED
  BY <1>1, <1>2, <1>3, <1>4, <1>6, <1>7 DEF Placed

\* Sums of what did not change.
LEMMA SameSums ==
  /\ ended' = ended => Answered' = Answered
  /\ rows' = rows => Recorded' = Recorded
  /\ client' = client /\ lane' = lane => \A S : Those(S)' = Those(S)
BY StillKind DEF Answered, Recorded, Those

\* Every call has ended or is pending.
LEMMA NextCounted == Sized /\ Staged /\ Counted /\ [Next]_vars => Counted'
<1> SUFFICES ASSUME Sized, Staged, Counted, [Next]_vars PROVE Counted'
  OBVIOUS
<1> USE DEF Pending
<1>1. /\ T' = T /\ Mine' = Mine /\ Kind /\ Base /\ sent \in Nat /\ Answered \in Nat
      /\ client' = client /\ Mine \subseteq Lanes
  BY Lasting
<1>2. sent = Answered + Cardinality(Those({"sent", "queued"})) /\ Cardinality(Those({"sent", "queued"})) \in Nat
  BY <1>1, ThoseFinite DEF Counted
<1>3. ASSUME NEW l \in Mine, NEW end \in Ends, Ending(l, end), EndOf(l, end) PROVE Counted'
  <2>1. /\ \A k \in Lanes \ {l} : lane'[k] = lane[k]
        /\ lane'[l].pc \notin {"sent", "queued"} /\ lane[l].pc \in {"call", "sent", "queued"}
        /\ ended' = [ended EXCEPT ![end] = @ + 1]
        /\ sent' = IF lane[l].pc = "call" THEN sent + 1 ELSE sent
    BY <1>1, <1>3, EndingLane, AfterLanded DEF Landed, Ending
  <2>2. Answered' = Answered + 1
    BY <1>1, <2>1, AnsweredMore DEF Base
  <2>3. CASE lane[l].pc = "call"
    <3>1. Cardinality(Those({"sent", "queued"})') = Cardinality(Those({"sent", "queued"}))
      BY <1>1, <2>1, <2>3, OneMoves
    <3> QED
      BY <1>1, <1>2, <2>1, <2>2, <2>3, <3>1 DEF Counted
  <2>4. CASE lane[l].pc \in {"sent", "queued"}
    <3>1. Cardinality(Those({"sent", "queued"})') = Cardinality(Those({"sent", "queued"})) - 1
      BY <1>1, <2>1, <2>4, OneMoves
    <3> QED
      BY <1>1, <1>2, <2>1, <2>2, <2>4, <3>1 DEF Counted
  <2> QED
    BY <2>1, <2>3, <2>4
<1>4. ASSUME NEW l \in Mine, Admit(l) \/ Queue(l) PROVE Counted'
  <2>1. /\ \A k \in Lanes \ {l} : lane'[k] = lane[k] /\ lane'[l].pc \in {"sent", "queued"}
        /\ lane[l].pc \in {"call", "queued"} /\ ended' = ended
        /\ sent' = IF lane[l].pc = "call" THEN sent + 1 ELSE sent
    BY <1>4, AdmitSized, QueueSized DEF Admit, Queue
  <2>a. \A k \in Lanes \ {l} : lane'[k] = lane[k]
    BY <2>1
  <2>b. lane'[l].pc \in {"sent", "queued"}
    BY <1>4, AdmitSized, QueueSized
  <2>2. Answered' = Answered
    BY <2>1, SameSums
  <2>3. CASE lane[l].pc = "call"
    <3>1. Cardinality(Those({"sent", "queued"})') = Cardinality(Those({"sent", "queued"})) + 1
      BY <1>1, <2>a, <2>b, <2>3, OneMoves
    <3> QED
      BY <1>1, <1>2, <2>1, <2>2, <2>3, <3>1 DEF Counted
  <2>4. CASE lane[l].pc = "queued"
    <3>1. Cardinality(Those({"sent", "queued"})') = Cardinality(Those({"sent", "queued"}))
      BY <1>1, <2>a, <2>b, <2>4, OneMoves
    <3> QED
      BY <1>1, <1>2, <2>1, <2>2, <2>4, <3>1 DEF Counted
  <2> QED
    BY <2>1, <2>3, <2>4
<1>5. ASSUME NEW l \in Mine, Release(l) \/ Publish(l) PROVE Counted'
  <2>1. /\ lane'[l].pc \notin {"sent", "queued"} /\ lane[l].pc \notin {"sent", "queued"}
        /\ UNCHANGED <<ended, sent>>
    BY <1>1, <1>5, ReleaseSized, PublishLane DEF Release
  <2>2. \A k \in Lanes \ {l} : lane'[k] = lane[k]
    BY <1>1, <1>5, ReleaseSized, PublishLane
  <2>3. Cardinality(Those({"sent", "queued"})') = Cardinality(Those({"sent", "queued"}))
    BY <1>1, <2>1, <2>2, OneMoves
  <2> QED
    BY <1>2, <2>1, <2>3, SameSums DEF Counted
<1>6. ASSUME NEW l \in Mine, Silent(l) PROVE Counted'
  <2>1. Those({"sent", "queued"})' = Those({"sent", "queued"})
    BY <1>1, <1>6, NoneMoves
  <2>2. UNCHANGED <<ended, sent>>
    BY <1>1, <1>6, SilentLanes
  <2> QED
    BY <1>2, <2>1, <2>2, SameSums DEF Counted
<1>7. ASSUME UNCHANGED <<lane, ended, sent>> PROVE Counted'
  BY <1>1, <1>2, <1>7, SameSums DEF Counted
<1>8. ASSUME NEW l \in Lanes, Reaped(l) PROVE Counted'
  BY <1>7, <1>8, ReapedSized
<1>9. CASE Overall
  <2>1. CASE WarmedUp
    <3>1. \A k \in Mine' : lane'[k].pc = "idle"
      BY <1>1, <1>9, <2>1, WarmIdle, OverallSized
    <3>2. Those({"sent", "queued"})' = {}
      BY <3>1 DEF Those
    <3>3. \A e \in Ends : ended'[e] = 0
      BY <2>1 DEF WarmedUp
    <3>4. Answered' = 0
      BY <3>3 DEF Answered, Ends, Mishaps, Refusals
    <3>5. sent' = 0
      BY <2>1 DEF WarmedUp
    <3> QED
      BY <3>2, <3>4, <3>5, FS_EmptySet DEF Counted
  <2>2. CASE ~WarmedUp
    <3>1. UNCHANGED <<lane, ended, sent>>
      BY <1>9, <2>2 DEF Overall, Begin, Tick, Judge, CleanUp, vars
    <3> QED
      BY <1>7, <3>1
  <2> QED
    BY <2>1, <2>2
<1> QED
  BY <1>3, <1>4, <1>5, <1>6, <1>8, <1>9, Cases

\* Every end has its row, once it is published.
LEMMA NextRowed == Sized /\ Staged /\ Rowed /\ [Next]_vars => Rowed'
<1> SUFFICES ASSUME Sized, Staged, Rowed, [Next]_vars, T.shape # "samples"
             PROVE  Recorded' + Cardinality(Those({"publish"})') = Answered'
  BY Lasting DEF Rowed
<1> DEFINE Goal == Recorded' + Cardinality(Those({"publish"})') = Answered'
<1>1. /\ T' = T /\ Mine' = Mine /\ Kind /\ Base /\ Recorded \in Nat /\ Answered \in Nat /\ T.shape \in Shapes
      /\ client' = client /\ Mine \subseteq Lanes
      /\ \A l \in Mine : lane[l] \in LaneStates /\ LanePlaced(l)
  BY Lasting DEF Kind
<1>2. Recorded + Cardinality(Those({"publish"})) = Answered /\ Cardinality(Those({"publish"})) \in Nat
  BY <1>1, ThoseFinite DEF Rowed
<1>3. ASSUME NEW l \in Mine, NEW end \in Ends, Ending(l, end), EndOf(l, end) PROVE Goal
  <2>1. /\ \A k \in Lanes \ {l} : lane'[k] = lane[k] /\ lane[l].pc # "publish"
        /\ ended' = [ended EXCEPT ![end] = @ + 1] /\ lane'[l] = After(l, end)
    BY <1>1, <1>3, EndingLane DEF Ending
  <2>a. /\ \A k \in Lanes \ {l} : lane'[k] = lane[k]
    BY <1>1, <1>3, EndingLane
  <2>b. lane[l].pc # "publish"
    BY <1>3 DEF Ending
  <2>2. Answered' = Answered + 1
    BY <1>1, <2>1, AnsweredMore DEF Base
  <2>3. CASE T.shape = "probe" /\ Good(l, end)
    <3>1. lane'[l].pc = "publish"
      BY <1>1, <2>1, <2>3, OtherCases, MovedTyped DEF Pcs
    <3>2. Cardinality(Those({"publish"})') = Cardinality(Those({"publish"})) + 1
      BY <1>1, <2>a, <2>b, <3>1, OneMoves
    <3>3. Recorded' = Recorded
      BY <1>1, <1>3, <2>3, OneRow
    <3> QED
      BY <1>1, <1>2, <2>2, <3>2, <3>3
  <2>4. CASE ~(T.shape = "probe" /\ Good(l, end))
    <3>1. lane'[l].pc # "publish"
      <4>1. CASE T.shape = "probe"
        <5>1. lane'[l] = [Moved(l, "idle") EXCEPT !.turn = @ + 1]
          BY <1>1, <2>1, <2>4, <4>1, OtherCases
        <5> QED
          BY <1>1, <5>1, MovedTyped DEF LaneStates, Pcs
      <4>2. CASE T.shape # "probe"
        BY <1>1, <1>3, <4>2, AfterLanded DEF Landed
      <4> QED
        BY <4>1, <4>2
    <3>2. Cardinality(Those({"publish"})') = Cardinality(Those({"publish"}))
      BY <1>1, <2>a, <2>b, <3>1, OneMoves
    <3>3. Recorded' = Recorded + 1
      BY <1>1, <1>3, <2>4, OneRow
    <3>4. Recorded \in Nat /\ Answered \in Nat
      BY <1>1
    <3> QED
      BY <1>2, <2>2, <3>2, <3>3, <3>4
  <2> QED
    BY <2>3, <2>4
<1>4. ASSUME NEW l \in Mine, Admit(l) \/ Queue(l) \/ Release(l) PROVE Goal
  <2>1. /\ lane[l].pc # "publish" /\ UNCHANGED <<ended, rows>>
    BY <1>4 DEF Admit, Queue, Release
  <2>2. lane'[l].pc # "publish"
    BY <1>4, AdmitSized, QueueSized, ReleaseSized
  <2>3. \A k \in Lanes \ {l} : lane'[k] = lane[k]
    BY <1>4, AdmitSized, QueueSized, ReleaseSized
  <2>4. Cardinality(Those({"publish"})') = Cardinality(Those({"publish"}))
    BY <1>1, <2>1, <2>2, <2>3, OneMoves
  <2> QED
    BY <1>2, <2>1, <2>4, SameSums
<1>5. ASSUME NEW l \in Mine, Publish(l) PROVE Goal
  <2>1. /\ lane[l].pc = "publish" /\ ended' = ended
    BY <1>1, <1>5, PublishLane
  <2>2. \A k \in Lanes \ {l} : lane'[k] = lane[k]
    BY <1>1, <1>5, PublishLane
  <2>3. \/ lane'[l].pc = "publish" /\ rows' = rows
        \/ lane'[l].pc = "idle" /\ rows' = Good1
    BY <1>1, <1>5, PublishLane
  <2>4. Answered' = Answered
    BY <2>1, SameSums
  <2>5. CASE lane'[l].pc = "publish" /\ rows' = rows
    <3>1. Cardinality(Those({"publish"})') = Cardinality(Those({"publish"}))
      BY <1>1, <2>1, <2>2, <2>5, OneMoves
    <3> QED
      BY <1>2, <2>4, <2>5, <3>1, SameSums
  <2>6. CASE lane'[l].pc = "idle" /\ rows' = Good1
    <3>1. Cardinality(Those({"publish"})') = Cardinality(Those({"publish"})) - 1
      BY <1>1, <2>1, <2>2, <2>6, OneMoves
    <3>2. Recorded' = Recorded + 1
      BY <1>1, <2>6 DEF Recorded, Good1, Base, Typed
    <3> QED
      BY <1>1, <1>2, <2>4, <3>1, <3>2
  <2> QED
    BY <2>3, <2>5, <2>6
<1>6. ASSUME NEW l \in Mine, Silent(l) PROVE Goal
  <2>1. Those({"publish"})' = Those({"publish"})
    BY <1>1, <1>6, NoneMoves
  <2>2. UNCHANGED <<ended, rows>>
    BY <1>1, <1>6, SilentLanes
  <2> QED
    BY <1>2, <2>1, <2>2, SameSums
<1>7. ASSUME UNCHANGED <<lane, ended, rows>> PROVE Goal
  BY <1>1, <1>2, <1>7, SameSums
<1>8. ASSUME NEW l \in Lanes, Reaped(l) PROVE Goal
  BY <1>7, <1>8, ReapedSized
<1>9. CASE Overall
  <2>1. CASE WarmedUp
    <3>1. \A k \in Mine' : lane'[k].pc = "idle"
      BY <1>1, <1>9, <2>1, WarmIdle, OverallSized
    <3>2. Those({"publish"})' = {}
      BY <3>1 DEF Those
    <3>3. \A e \in Ends : ended'[e] = 0
      BY <2>1 DEF WarmedUp
    <3>4. Answered' = 0
      BY <3>3 DEF Answered, Ends, Mishaps, Refusals
    <3>5. Recorded' = 0
      BY <2>1 DEF WarmedUp, Recorded
    <3> QED
      BY <3>2, <3>4, <3>5, FS_EmptySet
  <2>2. CASE ~WarmedUp
    <3>1. UNCHANGED <<lane, ended, rows>>
      BY <1>9, <2>2 DEF Overall, Begin, Tick, Judge, CleanUp, vars
    <3> QED
      BY <1>7, <3>1
  <2> QED
    BY <2>1, <2>2
<1> QED
  BY <1>3, <1>4, <1>5, <1>6, <1>8, <1>9, Cases

\* The clients whose turns are counted.
InTurns == {"cases"}

\* The turns of a lane that are over can be counted.
LEMMA PastFinite ==
  ASSUME Kind, NEW l
  PROVE  IsFiniteSet(Past(l)) /\ Cardinality(Past(l)) \in Nat
<1>1. IsFiniteSet(1..T.calls)
  <2>1. T.calls \in Int /\ 1 \in Int
    BY DEF Kind
  <2> QED
    BY ONLY <2>1, FS_Interval
<1>2. Past(l) \in SUBSET (1..T.calls)
  BY DEF Past
<1> QED
  BY <1>1, <1>2, FS_Subset, FS_CardinalityType

\* A lane that goes on to its next turn has one more behind it.
LEMMA OnePast ==
  ASSUME Base, T' = T, NEW l \in Mine, T.shape \in InTurns, lane[l].pc # "over",
         lane'[l] = NextTurn(l)
  PROVE  /\ Past(l)' = Past(l) \cup {lane[l].turn} /\ lane[l].turn \notin Past(l)
         /\ Cardinality(Past(l)') = Cardinality(Past(l)) + 1
<1>1. /\ lane[l].turn \in 1..T.calls /\ T.calls \in Nat \ {0}
      /\ lane[l].turn < T.calls => lane'[l].pc = "call" /\ lane'[l].turn = lane[l].turn + 1
      /\ lane[l].turn >= T.calls => lane'[l].pc = "over"
  BY ToNextTurn DEF InTurns, Base, Kind
<1>2. lane[l].turn \notin Past(l)
  BY <1>1 DEF Past
<1>3. Past(l) = {i \in 1..T.calls : i < lane[l].turn}
  BY DEF Past
<1>4. Past(l)' = {i \in 1..T.calls : lane'[l].pc = "over" \/ i < lane'[l].turn}
  BY DEF Past
<1>5. CASE lane[l].turn < T.calls
  <2>1. Past(l)' = Past(l) \cup {lane[l].turn}
    BY <1>1, <1>3, <1>4, <1>5
  <2> QED
    BY <1>2, <2>1, PastFinite, FS_AddElement DEF Base
<1>6. CASE lane[l].turn >= T.calls
  <2>1. Past(l)' = Past(l) \cup {lane[l].turn}
    BY <1>1, <1>3, <1>4, <1>6
  <2> QED
    BY <1>2, <2>1, PastFinite, FS_AddElement DEF Base
<1> QED
  BY <1>1, <1>5, <1>6

\* A lane that keeps its turn has the same turns behind it.
LEMMA SamePast ==
  ASSUME T' = T, NEW l, lane'[l].turn = lane[l].turn, (lane'[l].pc = "over") <=> (lane[l].pc = "over")
  PROVE  Past(l)' = Past(l)
BY DEF Past

\* Only an ended call takes a lane to its next turn.
LEMMA TurnsStay ==
  ASSUME Sized, Staged, [Next]_vars, T.shape \in InTurns,
         ~ \E l \in Mine, end \in Ends : Ending(l, end) /\ EndOf(l, end)
  PROVE  /\ rows' = rows /\ ended' = ended
         /\ \A l \in Mine : Past(l)' = Past(l)
<1>1. /\ T' = T /\ Mine' = Mine /\ Kind /\ Base /\ Mine \subseteq Lanes
      /\ \A l \in Mine : lane[l] \in LaneStates /\ LanePlaced(l)
  BY Lasting
<1> DEFINE Stays == /\ rows' = rows /\ ended' = ended
                    /\ \A l \in Mine : /\ lane'[l].turn = lane[l].turn
                                       /\ (lane'[l].pc = "over") <=> (lane[l].pc = "over")
<1>2. ASSUME NEW l \in Mine, Admit(l) \/ Queue(l) PROVE Stays
  <2>1. lane[l].pc # "over" /\ UNCHANGED <<rows, ended>>
    BY <1>2 DEF Admit, Queue
  <2>2. lane'[l].pc # "over" /\ lane'[l].turn = lane[l].turn
    BY <1>2, AdmitSized, QueueSized
  <2>3. \A k \in Lanes \ {l} : lane'[k] = lane[k]
    BY <1>2, AdmitSized, QueueSized
  <2> QED
    BY <1>1, <2>1, <2>2, <2>3
<1>3. ASSUME NEW l \in Mine, Release(l) \/ Publish(l) PROVE FALSE
  BY <1>1, <1>3 DEF Release, Publish, LanePlaced, InTurns
<1>4. ASSUME NEW l \in Mine, Silent(l) PROVE Stays
  <2>1. /\ UNCHANGED <<rows, ended>> /\ \A k \in Lanes : Turned(k)
    BY <1>1, <1>4, SilentLanes
  <2>2. ~Leaves
    BY DEF Leaves, InTurns
  <2>3. ASSUME NEW k \in Mine
        PROVE  lane'[k].turn = lane[k].turn /\ ((lane'[k].pc = "over") <=> (lane[k].pc = "over"))
    <3>1. Moved(k, "call").pc = "call" /\ Moved(k, "call").turn = lane[k].turn
      BY <1>1, MovedTyped DEF Pcs
    <3> QED
      BY <1>1, <2>1, <2>2, <3>1 DEF Turned
  <2> QED
    BY <2>1, <2>3
<1>5. ASSUME NEW l \in Lanes, Reaped(l) PROVE Stays
  BY <1>5, ReapedSized
<1>6. ASSUME Overall PROVE Stays
  <2>1. lane' = lane
    BY <1>6, OverallSized
  <2>2. ~WarmedUp
    BY WarmIdle DEF InTurns
  <2>3. UNCHANGED <<rows, ended>>
    BY <1>6, <2>2 DEF Overall, Begin, Tick, Judge, CleanUp, vars
  <2> QED
    BY <2>1, <2>3
<1> HIDE DEF Stays
<1>7. Stays
  BY <1>2, <1>3, <1>4, <1>5, <1>6, Cases
<1> QED
  BY <1>1, <1>7, SamePast DEF Stays

\* Every turn that is over has its row, and every invalid case its rejection.
LEMMA NextTurnsRowed == Sized /\ Staged /\ TurnsRowed /\ [Next]_vars => TurnsRowed'
<1> SUFFICES ASSUME Sized, Staged, TurnsRowed, [Next]_vars, T.shape \in InTurns PROVE TurnsRowed'
  BY Lasting DEF TurnsRowed, InTurns
<1>1. /\ T' = T /\ Mine' = Mine /\ Kind /\ Base /\ Mine \subseteq Lanes /\ Recorded \in Nat /\ 1 \in Mine
      /\ client' = client
      /\ \A l \in Mine : lane[l] \in LaneStates /\ LanePlaced(l)
  BY Lasting
<1>2. CASE ~ \E l \in Mine, end \in Ends : Ending(l, end) /\ EndOf(l, end)
  <2>1. /\ rows' = rows /\ ended' = ended /\ Recorded' = Recorded
        /\ \A l \in Mine : Past(l)' = Past(l)
    BY <1>2, TurnsStay, SameSums
  <2>2. RejectsPast' = RejectsPast
    BY <1>1, <2>1 DEF RejectsPast
  <2> QED
    BY <1>1, <2>1, <2>2 DEF TurnsRowed
<1>3. ASSUME NEW l \in Mine, NEW end \in Ends, Ending(l, end), EndOf(l, end) PROVE TurnsRowed'
  <2>1. /\ \A k \in Lanes \ {l} : lane'[k] = lane[k] /\ lane[l].pc # "over"
        /\ lane'[l] = After(l, end) /\ rows' = RowsAfter(l, end)
        /\ ended' = [ended EXCEPT ![end] = @ + 1]
    BY <1>1, <1>3, EndingLane DEF Ending
  <2>a. lane[l].pc # "over"
    BY <1>3 DEF Ending
  <2>2. ASSUME lane'[l] = NextTurn(l)
        PROVE  /\ Cardinality(Past(l)') = Cardinality(Past(l)) + 1
               /\ Past(l)' = Past(l) \cup {lane[l].turn} /\ lane[l].turn \notin Past(l)
    BY <1>1, <2>a, <2>2, OnePast
  <2>3. CASE T.shape = "cases"
    <3>1. l = 1 /\ T.done /\ T.shape # "samples" /\ T.shape # "probe"
      BY <1>1, <2>3 DEF Kind, Mine
    <3>2. SUFFICES ASSUME rows'.bad = 0
                   PROVE  Recorded' = Cardinality(Past(1)') /\ ended'["rejected"] = Cardinality(RejectsPast')
      BY <1>1, <2>3 DEF TurnsRowed
    <3>3. rows.bad \in Nat
      BY <1>1 DEF Base, Typed
    <3>4. Good(l, end) /\ rows.bad = 0 /\ Recorded' = Recorded + 1
      <4>1. Recorded' = Recorded + 1
        BY <1>1, <1>3, <3>1, OneRow
      <4>2. rows'.bad = rows.bad + 1 => FALSE
        BY <3>2, <3>3
      <4>3. Good(l, end) => rows'.bad = rows.bad
        BY <1>1, <1>3, <3>1, OneRow
      <4>4. ~Good(l, end) => rows'.bad = rows.bad + 1
        BY <1>1, <1>3, <3>1, OneRow
      <4> QED
        BY <3>2, <4>1, <4>2, <4>3, <4>4
    <3>5. lane'[l] = NextTurn(l)
      BY <1>1, <2>1, <2>3, <3>4, OtherCases
    <3>6. (end = "rejected") <=> (T.cases[lane[l].turn] = "reject")
      <4>1. lane[l].step = T.cases[lane[l].turn]
        BY <1>1, <2>3 DEF LanePlaced
      <4>2. end = "rejected" => lane[l].step = "reject"
        BY <1>3 DEF EndOf
      <4>3. end = "rejected" \/ lane[l].step # "reject"
        BY <3>1, <3>4 DEF Good
      <4> QED
        BY <4>1, <4>2, <4>3
    <3>7. Recorded = Cardinality(Past(1)) /\ ended["rejected"] = Cardinality(RejectsPast)
      BY <2>3, <3>4 DEF TurnsRowed
    <3>8. Recorded' = Cardinality(Past(1)')
      BY <1>1, <2>2, <3>1, <3>4, <3>5, <3>7, PastFinite
    <3>9. ended["rejected"] \in Nat /\ ended'["rejected"] = IF end = "rejected" THEN ended["rejected"] + 1 ELSE ended["rejected"]
      BY <1>1, <2>1 DEF Base, Typed, Ends
    <3>10. IsFiniteSet(RejectsPast)
      <4>1. IsFiniteSet(Past(1)) /\ RejectsPast \in SUBSET Past(1)
        BY <1>1, PastFinite DEF RejectsPast
      <4> QED
        BY <4>1, FS_Subset
    <3>11. Past(1)' = Past(1) \cup {lane[1].turn} /\ lane[1].turn \notin Past(1)
      BY <2>2, <3>1, <3>5
    <3>12. CASE end = "rejected"
      <4>1. RejectsPast' = RejectsPast \cup {lane[1].turn} /\ lane[1].turn \notin RejectsPast
        BY <1>1, <3>1, <3>6, <3>11, <3>12 DEF RejectsPast
      <4>2. Cardinality(RejectsPast') = Cardinality(RejectsPast) + 1
        BY <3>10, <4>1, FS_AddElement
      <4> QED
        BY <3>7, <3>8, <3>9, <3>12, <4>2
    <3>13. CASE end # "rejected"
      <4>1. RejectsPast' = RejectsPast
        BY <1>1, <3>1, <3>6, <3>11, <3>13 DEF RejectsPast
      <4> QED
        BY <3>7, <3>8, <3>9, <3>13, <4>1
    <3> QED
      BY <3>12, <3>13
  <2> QED
    BY <2>3 DEF InTurns
<1> QED
  BY <1>2, <1>3

\* What the types say of the numbers.
LEMMA InTime ==
  ASSUME Typed
  PROVE  /\ clock \in Nat /\ Deadline \in Nat /\ Requests \in Nat /\ MaxFaults \in Nat /\ Burst \in Nat
         /\ rows.ok \in Nat /\ rows.bad \in Nat
         /\ \A e \in Ends : ended[e] \in Nat
BY ClientsAssumption DEF Typed

\* Whether a client may stop depends on what only grows.
LEMMA StillNothingBad ==
  ASSUME Typed, Typed', NothingBad, T' = T, Mine' = Mine, 1 \in Mine,
         UNCHANGED <<ended, rows>>, sent' >= sent, clock' >= clock,
         \A l \in Mine : lane'[l].pc = "over" => lane[l].pc = "over" \/ Leaves
  PROVE  NothingBad'
<1>1. /\ clock \in Nat /\ clock' \in Nat /\ Deadline \in Nat /\ Requests \in Nat
      /\ sent \in Nat /\ sent' \in Nat /\ rows.bad \in Nat
  BY InTime DEF Typed
<1>2. Recorded' = Recorded
  BY SameSums
<1>3. BatchesOver => BatchesOver'
  BY <1>1 DEF BatchesOver
<1>4. Leaves => CASE T.shape = "serial" -> clock' >= Deadline
                  [] T.shape = "batches" -> BatchesOver'
                  [] T.shape = "once" -> FALSE
                  [] OTHER -> TRUE
  BY <1>1, <1>3 DEF Leaves
<1>5. T.shape = "once" /\ lane'[1].pc = "over" => Recorded' > 0
  BY <1>2, <1>4 DEF NothingBad
<1>6. T.shape = "serial" => \A l \in Mine : lane'[l].pc = "over" => rows.bad > 0 \/ clock' >= Deadline
  <2>1. clock >= Deadline => clock' >= Deadline
    BY <1>1
  <2> QED
    BY <1>4, <2>1 DEF NothingBad
<1>7. T.shape = "batches" => \A l \in Mine : lane'[l].pc = "over" => BatchesOver'
  BY <1>3, <1>4 DEF NothingBad
<1> QED
  BY <1>2, <1>5, <1>6, <1>7 DEF NothingBad

\* A client that saw nothing bad saw whole answers and did not stop too soon.
LEMMA NextNothingBad == Sized /\ Staged /\ NothingBad /\ [Next]_vars => NothingBad'
<1> SUFFICES ASSUME Sized, Staged, NothingBad, [Next]_vars PROVE NothingBad'
  OBVIOUS
<1>1. /\ T' = T /\ Mine' = Mine /\ Kind /\ Base /\ Mine \subseteq Lanes /\ Recorded \in Nat /\ 1 \in Mine
      /\ client' = client /\ Typed /\ Typed' /\ sent \in Nat /\ Base'
      /\ \A l \in Mine : lane[l] \in LaneStates /\ LanePlaced(l)
  BY Lasting DEF Sized, Base
<1>2. /\ clock \in Nat /\ clock' \in Nat /\ Deadline \in Nat /\ Requests \in Nat
      /\ rows.bad \in Nat /\ rows'.bad \in Nat /\ \A e \in Ends : ended[e] \in Nat
  <2>1. clock' \in Nat /\ rows'.bad \in Nat
    BY <1>1 DEF Typed
  <2> QED
    BY <1>1, <2>1, InTime
<1>3. ASSUME NEW l \in Mine, NEW end \in Ends, Ending(l, end), EndOf(l, end) PROVE NothingBad'
  <2>1. /\ lane[l].pc # "over" /\ clock' = clock
        /\ lane'[l] = After(l, end) /\ rows' = RowsAfter(l, end)
        /\ ended' = [ended EXCEPT ![end] = @ + 1] /\ sent' >= sent
    BY <1>1, <1>3, EndingLane DEF Ending
  <2>2. \A k \in Mine \ {l} : lane'[k] = lane[k]
    BY <1>1, <1>3, EndingLane
  <2>3. \A e \in Ends : ended'[e] = IF e = end THEN ended[e] + 1 ELSE ended[e]
    BY <1>1, <2>1 DEF Typed
  <2>4. T.shape # "samples" =>
          /\ Good(l, end) => rows'.bad = rows.bad
          /\ ~Good(l, end) => rows'.bad = rows.bad + 1
          /\ T.shape # "probe" => Recorded' = Recorded + 1
    BY <1>1, <1>3, OneRow
  <2>5. T.shape # "cases" => ended'["rejected"] = 0
    <3>1. end = "rejected" => T.shape = "cases"
      BY <1>1, <1>3 DEF EndOf, LanePlaced
    <3> QED
      BY <2>3, <3>1 DEF NothingBad, Ends
  <2>6. ASSUME T.shape \in {"serial", "once", "batches", "cases"}, rows'.bad = 0
        PROVE  \A e \in Ends \ {"complete", "rejected"} : ended'[e] = 0
    <3>1. Good(l, end) /\ rows.bad = 0
      BY <1>2, <2>4, <2>6
    <3>2. end \in {"complete", "rejected"}
      BY <1>1, <1>3, <2>6, <3>1 DEF Good, EndOf, Kind
    <3> QED
      BY <2>3, <2>6, <3>1, <3>2 DEF NothingBad
  <2>7. T.shape = "once" => Recorded' > 0
    BY <1>1, <2>4
  <2>8. ASSUME T.shape = "serial", NEW k \in Mine, lane'[k].pc = "over"
        PROVE  rows'.bad > 0 \/ clock' >= Deadline
    <3>1. CASE k = l
      <4>1. lane'[l] = Moved(l, IF Good(l, end) THEN "idle" ELSE "over")
        BY <1>1, <2>1, <2>8, OtherCases
      <4>2. ~Good(l, end)
        BY <1>1, <2>8, <3>1, <4>1, MovedTyped DEF Pcs
      <4> QED
        BY <1>2, <2>4, <2>8, <4>2
    <3>2. CASE k # l
      <4>1. rows.bad > 0 \/ clock >= Deadline
        BY <2>2, <2>8, <3>2 DEF NothingBad
      <4>2. rows'.bad >= rows.bad
        BY <1>2, <2>4, <2>8
      <4> QED
        BY <1>2, <2>1, <4>1, <4>2
    <3> QED
      BY <3>1, <3>2
  <2>9. ASSUME T.shape = "batches", NEW k \in Mine, lane'[k].pc = "over" PROVE BatchesOver'
    <3>1. k # l
      <4>1. lane'[l] = Moved(l, "idle")
        BY <1>1, <2>1, <2>9, OtherCases
      <4> QED
        BY <1>1, <2>9, <4>1, MovedTyped DEF Pcs
    <3>2. BatchesOver
      BY <2>2, <2>9, <3>1 DEF NothingBad
    <3>3. rows'.bad >= rows.bad /\ sent' \in Nat
      BY <1>1, <1>2, <2>4, <2>9 DEF Typed
    <3> QED
      BY <1>1, <1>2, <2>1, <3>2, <3>3 DEF BatchesOver
  <2> QED
    BY <1>1, <2>5, <2>6, <2>7, <2>8, <2>9 DEF NothingBad
<1>4. ASSUME NEW l \in Mine, Admit(l) \/ Queue(l) PROVE NothingBad'
  <2>1. UNCHANGED <<ended, rows, clock>> /\ sent' >= sent
    BY <1>1, <1>4 DEF Admit, Queue
  <2>2. lane'[l].pc # "over"
    BY <1>4, AdmitSized, QueueSized
  <2>3. \A k \in Lanes \ {l} : lane'[k] = lane[k]
    BY <1>4, AdmitSized, QueueSized
  <2>4. \A k \in Mine : lane'[k].pc = "over" => lane[k].pc = "over" \/ Leaves
    BY <1>1, <2>2, <2>3
  <2>5. clock' >= clock
    BY <1>2, <2>1
  <2> QED
    BY <1>1, <2>1, <2>4, <2>5, StillNothingBad
<1>5. ASSUME NEW l \in Mine, Release(l) \/ Publish(l) PROVE NothingBad'
  <2>1. T.shape \in {"burst", "probe"} /\ ended' = ended
    BY <1>1, <1>5 DEF Release, Publish, LanePlaced
  <2> QED
    BY <1>1, <2>1 DEF NothingBad
<1>6. ASSUME NEW l \in Mine, Silent(l) PROVE NothingBad'
  <2>1. /\ UNCHANGED <<ended, rows, clock, sent>> /\ \A k \in Lanes : Turned(k)
    BY <1>1, <1>6, SilentLanes
  <2>2. ASSUME NEW k \in Mine, lane'[k].pc = "over" PROVE lane[k].pc = "over" \/ Leaves
    BY <1>1, <2>1, <2>2, MovedTyped DEF Turned, Pcs
  <2>3. clock' >= clock /\ sent' >= sent
    BY <1>1, <1>2, <2>1
  <2> QED
    BY <1>1, <2>1, <2>2, <2>3, StillNothingBad
<1>7. ASSUME UNCHANGED <<lane, ended, rows, sent>>, clock' >= clock PROVE NothingBad'
  <2>1. sent' >= sent
    BY <1>1, <1>7
  <2>2. \A k \in Mine : lane'[k].pc = "over" => lane[k].pc = "over" \/ Leaves
    BY <1>7
  <2> QED
    BY <1>1, <1>7, <2>1, <2>2, StillNothingBad
<1>8. ASSUME NEW l \in Lanes, Reaped(l) PROVE NothingBad'
  <2>1. UNCHANGED <<lane, ended, rows, sent, clock>>
    BY <1>8, ReapedSized
  <2> QED
    BY <1>2, <1>7, <2>1
<1>9. CASE Overall
  <2>1. CASE WarmedUp
    <3>1. /\ \A k \in Mine' : lane'[k].pc = "idle"
          /\ T.shape = "batches"
      BY <1>1, <1>9, <2>1, WarmIdle, OverallSized
    <3>2. \A e \in Ends : ended'[e] = 0
      BY <2>1 DEF WarmedUp
    <3> QED
      BY <1>1, <3>1, <3>2 DEF NothingBad, Ends
  <2>2. CASE ~WarmedUp
    <3>1. UNCHANGED <<lane, ended, rows, sent>> /\ clock' \in {clock, clock + 1}
      BY <1>9, <2>2 DEF Overall, Begin, Tick, Judge, CleanUp, vars
    <3> QED
      BY <1>2, <1>7, <3>1
  <2> QED
    BY <2>1, <2>2
<1> QED
  BY <1>3, <1>4, <1>5, <1>6, <1>8, <1>9, Cases

\* The verdict stays true of what was counted.
LEMMA NextJudged == Sized /\ Staged /\ Judged /\ [Next]_vars => Judged'
<1> SUFFICES ASSUME Sized, Staged, Judged, [Next]_vars, report' \in {"passed", "failed"}
             PROVE  client \in Verdicts /\ ((report' = "passed") <=> Passed')
  BY Lasting DEF Judged, Verdicts
<1> DEFINE Goal == client \in Verdicts /\ ((report' = "passed") <=> Passed')
<1>1. T' = T /\ client' = client /\ Base /\ Mine \subseteq Lanes
  BY Lasting
<1>2. ASSUME UNCHANGED <<ended, rows, clock>> PROVE Passed' = Passed
  <2>1. Rejected' = Rejected /\ Recorded' = Recorded
    BY <1>2 DEF Rejected, Recorded
  <2>2. EvaluateEarly429' = EvaluateEarly429 /\ EvaluatePortal' = EvaluatePortal
    BY <1>1, <1>2, <2>1 DEF EvaluateEarly429, EvaluatePortal
  <2> QED
    BY <1>1, <1>2, <2>1, <2>2 DEF Passed
<1>3. CASE report' = report
  <2>1. stage \in {"clean", "end"} /\ \A l \in Lanes : lane[l].pc = "over"
    BY <1>3 DEF Staged, NoReport
  <2>2. UNCHANGED <<ended, rows, clock>>
    <3>1. ASSUME NEW l \in Mine PROVE ~(\/ \E end \in Ends : Ending(l, end) /\ EndOf(l, end)
                                        \/ Admit(l) \/ Queue(l) \/ Release(l) \/ Silent(l) \/ Publish(l))
      <4>1. lane[l].pc = "over"
        BY <1>1, <2>1
      <4> QED
        BY <4>1 DEF Ending, Admit, Queue, Release, Silent, Launch, Leave, Resume, Publish
    <3>2. CASE \E l \in Lanes : Reaped(l)
      BY <3>2, ReapedSized
    <3>3. CASE Overall
      BY <2>1, <3>3 DEF Overall, Begin, Tick, WarmedUp, Judge, CleanUp, Running, vars
    <3> QED
      BY <3>1, <3>2, <3>3, Cases
  <2> QED
    BY <1>2, <1>3, <2>2 DEF Judged
<1>4. CASE report' # report
  <2>1. CASE Judge
    <3>1. /\ UNCHANGED <<ended, rows, clock>> /\ client \in Verdicts
          /\ report' = IF Passed THEN "passed" ELSE "failed"
      BY <2>1 DEF Judge, NoReport
    <3> QED
      BY <1>2, <3>1
  <2>2. CASE CleanUp
    BY <1>4, <2>2 DEF CleanUp, NoReport
  <2>3. ASSUME ~Judge, ~CleanUp PROVE FALSE
    <3>1. ASSUME NEW l \in Mine, NEW end \in Ends, Ending(l, end) PROVE report' = report
      BY <1>1, <3>1, EndingLane
    <3>2. ASSUME NEW l \in Mine, Admit(l) \/ Queue(l) \/ Release(l) PROVE report' = report
      BY <3>2 DEF Admit, Queue, Release
    <3>3. ASSUME NEW l \in Mine, Silent(l) \/ Publish(l) PROVE report' = report
      BY <1>1, <3>3, SilentLanes, PublishLane
    <3>4. ASSUME NEW l \in Lanes, Reaped(l) PROVE report' = report
      BY <3>4, ReapedSized
    <3>5. ASSUME Overall PROVE report' = report
      BY <2>3, <3>5 DEF Overall, Begin, Tick, WarmedUp, vars
    <3> QED
      BY <1>4, <3>1, <3>2, <3>3, <3>4, <3>5, Cases
  <2> QED
    BY <2>1, <2>2, <2>3
<1> QED
  BY <1>3, <1>4

\* The calls of a burst that hold a slot and that wait for one.
InSlot == Cardinality(Those({"sent"}))
InQueue == Cardinality(Those({"queued"}))

\* A burst takes none of the other ways.
LEMMA OfBurst ==
  ASSUME Sized, Staged, Bursts, [Next]_vars, T.shape = "burst"
  PROVE  /\ T' = T /\ Mine' = Mine /\ client' = client /\ server' = server /\ Base /\ Kind
         /\ Mine \subseteq Lanes /\ 1 \in Mine /\ sent \in Nat /\ Busy \in Nat /\ T.limit \in Nat
         /\ Capacity \in Nat /\ Capacity >= T.limit /\ (server # "over" => Capacity = T.limit)
         /\ BurstCounted /\ BurstKept
         /\ InSlot \in Nat /\ InQueue \in Nat /\ Cardinality(Released) \in Nat
         /\ faults \in Nat /\ faults' \in Nat /\ seen.peak \in Nat
         /\ \A e \in Ends : ended[e] \in Nat
         /\ \A l \in Mine : lane[l] \in LaneStates /\ LanePlaced(l) /\ LanePlaced(l)'
<1>1. /\ T' = T /\ Mine' = Mine /\ client' = client /\ server' = server /\ Base /\ Kind
      /\ Mine \subseteq Lanes /\ 1 \in Mine /\ sent \in Nat /\ Typed /\ Typed'
      /\ \A l \in Mine : lane[l] \in LaneStates /\ LanePlaced(l) /\ LanePlaced(l)'
  BY Lasting DEF Sized, Base
<1>2. Busy \in Nat
  BY <1>1, BusyTyped
<1>3. T.limit \in Nat
  BY <1>1 DEF Kind
<1>4. Capacity \in Nat /\ Capacity >= T.limit /\ (server # "over" => Capacity = T.limit)
  BY <1>3 DEF Capacity
<1>5. InSlot \in Nat /\ InQueue \in Nat /\ Cardinality(Released) \in Nat
  BY <1>1, ThoseFinite DEF InSlot, InQueue, Released
<1>6. faults \in Nat /\ faults' \in Nat /\ seen.peak \in Nat
  BY <1>1, InTime DEF Typed
<1>7. \A e \in Ends : ended[e] \in Nat
  BY <1>1, InTime
<1> QED
  BY <1>1, <1>2, <1>3, <1>4, <1>5, <1>6, <1>7 DEF Bursts

\* A call of a burst ends: every refusal met a full server.
LEMMA BurstEnding ==
  ASSUME Sized, Staged, Bursts, [Next]_vars, T.shape = "burst",
         NEW l \in Mine, NEW end \in Ends, Ending(l, end), EndOf(l, end)
  PROVE  BurstCounted' /\ BurstKept'
<1>1. /\ T' = T /\ Mine' = Mine /\ client' = client /\ server' = server /\ Base /\ l \in Lanes
      /\ sent \in Nat /\ Busy \in Nat /\ T.limit \in Nat /\ Capacity \in Nat
      /\ Capacity >= T.limit /\ (server # "over" => Capacity = T.limit)
      /\ BurstCounted /\ BurstKept
      /\ InSlot \in Nat /\ InQueue \in Nat /\ Cardinality(Released) \in Nat
      /\ faults \in Nat /\ seen.peak \in Nat /\ \A e \in Ends : ended[e] \in Nat
      /\ LanePlaced(l) /\ lane[l] \in LaneStates
  BY OfBurst
<1>2. /\ lane[l].pc \in {"call", "queued", "sent"} /\ lane'[l] = After(l, end)
      /\ ended' = [ended EXCEPT ![end] = @ + 1] /\ lost' = lost
      /\ sent' = IF lane[l].pc = "call" THEN sent + 1 ELSE sent
  BY <1>1, EndingLane DEF Ending
<1>3. \A k \in Lanes \ {l} : lane'[k] = lane[k]
  BY <1>1, EndingLane
<1>4. end \in {"accepted", "busy", "late", "bare", "timeout", "unreachable", "error"}
  BY <1>1 DEF EndOf, LanePlaced, Ends, Mishaps, Refusals
<1>5. seen' = seen /\ slot' = slot
  BY <1>4 DEF Ending, FailedBy
<1>6. Busy' = Busy
  BY <1>2, <1>5, SlotsStay
<1>7. lane'[l].pc = IF end = "accepted" THEN "hold" ELSE "over"
  BY <1>1, <1>2, OtherCases, MovedTyped DEF Pcs
<1>8. \A e \in Ends : ended'[e] = IF e = end THEN ended[e] + 1 ELSE ended[e]
  BY <1>1, <1>2 DEF Base, Typed
<1>9. \A e \in {"accepted", "busy", "late", "bare", "timeout", "unreachable", "error", "complete"} : e \in Ends
  BY DEF Ends, Mishaps, Refusals
<1>10. /\ InSlot' = IF lane[l].pc = "sent" THEN InSlot - 1 ELSE InSlot
  <2>1. lane'[l].pc \notin {"sent"}
    BY <1>7
  <2> QED
    BY <1>1, <1>3, <2>1, OneMoves DEF InSlot
<1>11. /\ InQueue' = IF lane[l].pc = "queued" THEN InQueue - 1 ELSE InQueue
  <2>1. lane'[l].pc \notin {"queued"}
    BY <1>7
  <2> QED
    BY <1>1, <1>3, <2>1, OneMoves DEF InQueue
<1>12. sent' = Cardinality(Released')
  <2>1. lane'[l].pc \in Pcs \ {"idle", "call"}
    BY <1>7 DEF Pcs
  <2>2. (lane[l].pc \in Pcs \ {"idle", "call"}) <=> (lane[l].pc # "call")
    BY <1>2 DEF Pcs
  <2>3. Cardinality(Released') = IF lane[l].pc = "call" THEN Cardinality(Released) + 1 ELSE Cardinality(Released)
    BY <1>1, <1>3, <2>1, <2>2, OneMoves DEF Released
  <2> QED
    BY <1>1, <1>2, <2>3 DEF BurstCounted
<1>13. At("idle")' = {}
  <2>1. At("idle") = {}
    <3>1. l \notin At("idle")
      BY <1>2 DEF At
    <3> QED
      BY <1>1, <3>1 DEF BurstCounted
  <2>2. \A k \in Mine : k \in Lanes /\ lane[k].pc # "idle"
    BY <1>1, <2>1, Ours DEF At, Base
  <2>3. \A k \in Mine : lane'[k].pc # "idle"
    BY <1>3, <1>7, <2>2
  <2> QED
    BY <1>1, <2>3 DEF At
<1>14. end \in Mishaps => faults' > 0
  BY <1>1 DEF Ending
<1>15. ended'["complete"] = 0 /\ (server # "queues" => ended'["late"] = 0) /\ (server # "bare" => ended'["bare"] = 0)
  <2>1. /\ ended["complete"] = 0 /\ (server # "queues" => ended["late"] = 0) /\ (server # "bare" => ended["bare"] = 0)
    BY <1>1 DEF BurstCounted
  <2>2. (end = "late" => server = "queues") /\ (end = "bare" => server = "bare")
    BY <1>1, <1>2 DEF EndOf, LanePlaced
  <2> QED
    BY <1>4, <1>8, <1>9, <2>1, <2>2
<1>16. faults' = 0 => faults = 0 /\ end \notin Mishaps
  BY <1>1, <1>14 DEF Ending
<1>17. faults' = 0 => \A e \in Mishaps : ended'[e] = 0
  BY <1>1, <1>8, <1>16 DEF BurstCounted, Ends
<1>18. /\ Admitted = ended["accepted"] + InSlot /\ Admitted' = ended'["accepted"] + InSlot'
  BY DEF Admitted, InSlot
<1>19. /\ Busy' <= Admitted' + ended'["timeout"] /\ seen'.peak <= Admitted' + ended'["timeout"]
       /\ seen'.waited => ended'["late"] + InQueue' + Admitted' + ended'["timeout"] > T.limit
  <2>1. /\ Busy <= Admitted + ended["timeout"] /\ seen.peak <= Admitted + ended["timeout"]
        /\ seen.waited => ended["late"] + InQueue + Admitted + ended["timeout"] > T.limit
    BY <1>1 DEF BurstCounted, InQueue
  <2>2. /\ ended["accepted"] \in Nat /\ ended["late"] \in Nat /\ ended["timeout"] \in Nat
        /\ Busy \in Nat /\ seen.peak \in Nat /\ InSlot \in Nat /\ InQueue \in Nat /\ T.limit \in Nat
    BY <1>1, <1>9
  <2>3. /\ ended'["accepted"] = IF "accepted" = end THEN ended["accepted"] + 1 ELSE ended["accepted"]
        /\ ended'["late"] = IF "late" = end THEN ended["late"] + 1 ELSE ended["late"]
        /\ ended'["timeout"] = IF "timeout" = end THEN ended["timeout"] + 1 ELSE ended["timeout"]
    BY <1>8, <1>9
  <2>4. CASE end = "accepted"
    <3>1. lane[l].pc = "sent"
      BY <2>4 DEF EndOf
    <3> QED
      BY <1>5, <1>6, <1>10, <1>11, <1>18, <2>1, <2>2, <2>3, <2>4, <3>1
  <2>5. CASE end = "late"
    <3>1. lane[l].pc = "queued"
      BY <2>5 DEF EndOf
    <3> QED
      BY <1>5, <1>6, <1>10, <1>11, <1>18, <2>1, <2>2, <2>3, <2>5, <3>1
  <2>6. CASE end = "timeout"
    <3>1. lane[l].pc \in {"queued", "sent"}
      BY <2>6 DEF EndOf
    <3>2. CASE lane[l].pc = "queued"
      BY <1>5, <1>6, <1>10, <1>11, <1>18, <2>1, <2>2, <2>3, <2>6, <3>2
    <3>3. CASE lane[l].pc = "sent"
      BY <1>5, <1>6, <1>10, <1>11, <1>18, <2>1, <2>2, <2>3, <2>6, <3>3
    <3> QED
      BY <3>1, <3>2, <3>3
  <2>7. CASE end \in {"busy", "bare", "unreachable", "error"}
    <3>1. lane[l].pc = "call"
      BY <2>7 DEF EndOf
    <3> QED
      BY <1>5, <1>6, <1>10, <1>11, <1>18, <2>1, <2>2, <2>3, <2>7, <3>1
  <2> QED
    BY <1>4, <2>4, <2>5, <2>6, <2>7
<1>20. BurstCounted'
  BY <1>1, <1>12, <1>13, <1>15, <1>17, <1>19 DEF BurstCounted, InQueue
<1>21. ASSUME server = "keeps", faults' = 0, ~seen.early
       PROVE  Busy' = Admitted' /\ Admitted' <= T.limit /\ (ended'["busy"] > 0 => Admitted' >= T.limit)
  <2>1. end \in {"accepted", "busy"}
    BY <1>1, <1>4, <1>2, <1>16, <1>21 DEF EndOf, LanePlaced, Mishaps
  <2>2. l \in Awaited
    BY <1>2 DEF Awaited, Those
  <2>3. Busy = Admitted /\ Admitted <= T.limit /\ (ended["busy"] > 0 => Admitted >= T.limit)
    BY <1>1, <1>16, <1>21, <2>2 DEF BurstKept
  <2>4. /\ ended'["accepted"] = IF "accepted" = end THEN ended["accepted"] + 1 ELSE ended["accepted"]
        /\ ended'["busy"] = IF "busy" = end THEN ended["busy"] + 1 ELSE ended["busy"]
        /\ ended["accepted"] \in Nat /\ ended["busy"] \in Nat
    BY <1>1, <1>8, <1>9
  <2>5. CASE end = "accepted"
    <3>1. lane[l].pc = "sent"
      BY <2>5 DEF EndOf
    <3> QED
      BY <1>1, <1>6, <1>10, <1>18, <2>3, <2>4, <2>5, <3>1
  <2>6. CASE end = "busy"
    <3>1. lane[l].pc = "call" /\ ~(Busy < Capacity)
      BY <2>6 DEF EndOf, Room
    <3>2. Busy >= T.limit
      BY <1>1, <3>1
    <3> QED
      BY <1>1, <1>6, <1>10, <1>18, <2>3, <2>4, <2>6, <3>1, <3>2
  <2> QED
    BY <2>1, <2>5, <2>6
<1>22. BurstKept'
  BY <1>1, <1>5, <1>21 DEF BurstKept
<1> QED
  BY <1>20, <1>22

\* A call of a burst is admitted: one more is held.
LEMMA BurstAdmit ==
  ASSUME Sized, Staged, Bursts, [Next]_vars, T.shape = "burst",
         NEW l \in Mine, Admit(l)
  PROVE  BurstCounted' /\ BurstKept'
<1>1. /\ T' = T /\ Mine' = Mine /\ client' = client /\ server' = server /\ Base
      /\ sent \in Nat /\ Busy \in Nat /\ T.limit \in Nat /\ Capacity \in Nat
      /\ Capacity >= T.limit /\ (server # "over" => Capacity = T.limit)
      /\ BurstCounted /\ BurstKept /\ Mine \subseteq Lanes
      /\ InSlot \in Nat /\ InQueue \in Nat /\ Cardinality(Released) \in Nat
      /\ faults \in Nat /\ seen.peak \in Nat /\ \A e \in Ends : ended[e] \in Nat
      /\ LanePlaced(l) /\ lane[l] \in LaneStates
  BY OfBurst
<1>2. /\ lane[l].pc \in {"call", "queued"} /\ ended' = ended
      /\ sent' = IF lane[l].pc = "call" THEN sent + 1 ELSE sent
      /\ Busy < Capacity
      /\ seen' = [seen EXCEPT !.peak = IF Busy + 1 > @ THEN Busy + 1 ELSE @]
  BY DEF Admit, Room
<1>3. \A k \in Lanes \ {l} : lane'[k] = lane[k]
  BY AdmitSized
<1>4. lane'[l].pc = "sent" /\ Busy' = Busy + 1
  BY AdmitSized
<1>5. faults' = faults
  BY <1>1 DEF Admit, LanePlaced
<1>6. /\ seen'.peak = (IF Busy + 1 > seen.peak THEN Busy + 1 ELSE seen.peak)
      /\ seen'.waited = seen.waited /\ seen'.early = seen.early
  BY <1>1, <1>2 DEF Base, Typed
<1>7. InSlot' = InSlot + 1
  <2>1. lane'[l].pc \in {"sent"} /\ lane[l].pc \notin {"sent"}
    BY <1>2, <1>4
  <2> QED
    BY <1>1, <1>3, <2>1, OneMoves DEF InSlot
<1>8. InQueue' = IF lane[l].pc = "queued" THEN InQueue - 1 ELSE InQueue
  <2>1. lane'[l].pc \notin {"queued"}
    BY <1>4
  <2> QED
    BY <1>1, <1>3, <2>1, OneMoves DEF InQueue
<1>9. sent' = Cardinality(Released')
  <2>1. lane'[l].pc \in Pcs \ {"idle", "call"}
    BY <1>4 DEF Pcs
  <2>2. (lane[l].pc \in Pcs \ {"idle", "call"}) <=> (lane[l].pc # "call")
    BY <1>2 DEF Pcs
  <2>3. Cardinality(Released') = IF lane[l].pc = "call" THEN Cardinality(Released) + 1 ELSE Cardinality(Released)
    BY <1>1, <1>3, <2>1, <2>2, OneMoves DEF Released
  <2> QED
    BY <1>1, <1>2, <2>3 DEF BurstCounted
<1>10. At("idle")' = {}
  <2>1. At("idle") = {}
    <3>1. l \notin At("idle")
      BY <1>2 DEF At
    <3> QED
      BY <1>1, <3>1 DEF BurstCounted
  <2>2. \A k \in Mine : k \in Lanes /\ lane[k].pc # "idle"
    BY <1>1, <2>1 DEF At
  <2>3. \A k \in Mine : lane'[k].pc # "idle"
    BY <1>3, <1>4, <2>2
  <2> QED
    BY <1>1, <2>3 DEF At
<1>11. /\ Admitted = ended["accepted"] + InSlot /\ Admitted' = ended["accepted"] + InSlot'
  BY <1>2 DEF Admitted, InSlot
<1>12. /\ ended["accepted"] \in Nat /\ ended["late"] \in Nat /\ ended["timeout"] \in Nat
  BY <1>1 DEF Ends, Mishaps, Refusals
<1>13. Admitted \in Nat /\ Admitted' = Admitted + 1
  BY <1>1, <1>7, <1>11, <1>12
<1>14. /\ Busy' <= Admitted' + ended'["timeout"] /\ seen'.peak <= Admitted' + ended'["timeout"]
       /\ seen'.waited => ended'["late"] + InQueue' + Admitted' + ended'["timeout"] > T.limit
  <2>1. /\ Busy <= Admitted + ended["timeout"] /\ seen.peak <= Admitted + ended["timeout"]
        /\ seen.waited => ended["late"] + InQueue + Admitted + ended["timeout"] > T.limit
    BY <1>1 DEF BurstCounted, InQueue
  <2>2. Busy' <= Admitted' + ended'["timeout"] /\ seen'.peak <= Admitted' + ended'["timeout"]
    BY <1>1, <1>2, <1>4, <1>6, <1>12, <1>13, <2>1
  <2>3. seen'.waited => ended'["late"] + InQueue' + Admitted' + ended'["timeout"] > T.limit
    BY <1>1, <1>2, <1>6, <1>8, <1>12, <1>13, <2>1
  <2> QED
    BY <2>2, <2>3
<1>15. BurstCounted'
  BY <1>1, <1>2, <1>5, <1>9, <1>10, <1>14 DEF BurstCounted, InQueue
<1>16. ASSUME server = "keeps", faults = 0, ~seen.early
       PROVE  Busy' = Admitted' /\ Admitted' <= T.limit /\ (ended["busy"] > 0 => Admitted' >= T.limit)
  <2>1. l \in Awaited
    BY <1>2 DEF Awaited, Those
  <2>2. Busy = Admitted /\ Admitted <= T.limit /\ (ended["busy"] > 0 => Admitted >= T.limit)
    BY <1>1, <1>16, <2>1 DEF BurstKept
  <2> QED
    BY <1>1, <1>2, <1>4, <1>13, <1>16, <2>2
<1>17. BurstKept'
  BY <1>1, <1>2, <1>5, <1>6, <1>16 DEF BurstKept
<1> QED
  BY <1>15, <1>17

\* A call of a burst waits: the server was full, and the answers will show it.
LEMMA BurstQueue ==
  ASSUME Sized, Staged, Bursts, [Next]_vars, T.shape = "burst",
         NEW l \in Mine, Queue(l)
  PROVE  BurstCounted' /\ BurstKept'
<1>1. /\ T' = T /\ Mine' = Mine /\ client' = client /\ server' = server /\ Base
      /\ sent \in Nat /\ Busy \in Nat /\ T.limit \in Nat /\ Capacity \in Nat
      /\ Capacity >= T.limit
      /\ BurstCounted /\ Mine \subseteq Lanes
      /\ InSlot \in Nat /\ InQueue \in Nat /\ Cardinality(Released) \in Nat
      /\ \A e \in Ends : ended[e] \in Nat
  BY OfBurst
<1>2. /\ lane[l].pc = "call" /\ ended' = ended /\ sent' = sent + 1 /\ server = "queues"
      /\ ~(Busy < Capacity) /\ faults' = faults /\ UNCHANGED <<slot, lost>>
      /\ seen' = [seen EXCEPT !.waited = TRUE]
  BY DEF Queue, Room
<1>3. \A k \in Lanes \ {l} : lane'[k] = lane[k]
  BY QueueSized
<1>4. lane'[l].pc = "queued" /\ Busy' = Busy
  BY <1>2, QueueSized, SlotsStay
<1>5. seen'.peak = seen.peak
  BY <1>1, <1>2 DEF Base, Typed
<1>7. InSlot' = InSlot
  <2>1. lane'[l].pc \notin {"sent"} /\ lane[l].pc \notin {"sent"}
    BY <1>2, <1>4
  <2> QED
    BY <1>1, <1>3, <2>1, OneMoves DEF InSlot
<1>8. InQueue' = InQueue + 1
  <2>1. lane'[l].pc \in {"queued"} /\ lane[l].pc \notin {"queued"}
    BY <1>2, <1>4
  <2> QED
    BY <1>1, <1>3, <2>1, OneMoves DEF InQueue
<1>9. sent' = Cardinality(Released')
  <2>1. lane'[l].pc \in Pcs \ {"idle", "call"} /\ lane[l].pc \notin Pcs \ {"idle", "call"}
    BY <1>2, <1>4 DEF Pcs
  <2>2. Cardinality(Released') = Cardinality(Released) + 1
    BY <1>1, <1>3, <2>1, OneMoves DEF Released
  <2> QED
    BY <1>1, <1>2, <2>2 DEF BurstCounted
<1>10. At("idle")' = {}
  <2>1. At("idle") = {}
    <3>1. l \notin At("idle")
      BY <1>2 DEF At
    <3> QED
      BY <1>1, <3>1 DEF BurstCounted
  <2>2. \A k \in Mine : k \in Lanes /\ lane[k].pc # "idle"
    BY <1>1, <2>1 DEF At
  <2>3. \A k \in Mine : lane'[k].pc # "idle"
    BY <1>3, <1>4, <2>2
  <2> QED
    BY <1>1, <2>3 DEF At
<1>11. Admitted' = Admitted /\ Admitted = ended["accepted"] + InSlot
  BY <1>2, <1>7 DEF Admitted, InSlot
<1>12. /\ ended["accepted"] \in Nat /\ ended["late"] \in Nat /\ ended["timeout"] \in Nat
  BY <1>1 DEF Ends, Mishaps, Refusals
<1>13. Busy <= Admitted + ended["timeout"] /\ seen.peak <= Admitted + ended["timeout"] /\ Admitted \in Nat
  BY <1>1, <1>11, <1>12 DEF BurstCounted
<1>14. ended["late"] + InQueue' + Admitted + ended["timeout"] > T.limit
  BY <1>1, <1>2, <1>8, <1>12, <1>13
<1>15. BurstCounted'
  BY <1>1, <1>2, <1>4, <1>5, <1>9, <1>10, <1>11, <1>13, <1>14 DEF BurstCounted, InQueue
<1>16. BurstKept'
  BY <1>1, <1>2 DEF BurstKept
<1> QED
  BY <1>15, <1>16

\* A stream of a burst ends: early, or when all calls are answered.
LEMMA BurstRelease ==
  ASSUME Sized, Staged, Bursts, [Next]_vars, T.shape = "burst",
         NEW l \in Mine, Release(l)
  PROVE  BurstCounted' /\ BurstKept'
<1>1. /\ T' = T /\ Mine' = Mine /\ client' = client /\ server' = server /\ Base
      /\ sent \in Nat /\ Busy \in Nat
      /\ BurstCounted /\ BurstKept /\ Mine \subseteq Lanes
      /\ InSlot \in Nat /\ InQueue \in Nat /\ Cardinality(Released) \in Nat
      /\ \A e \in Ends : ended[e] \in Nat
  BY OfBurst
<1>2. /\ lane[l].pc = "hold" /\ UNCHANGED <<ended, sent, faults>> /\ seen' = Freed
  BY DEF Release
<1>3. \A k \in Lanes \ {l} : lane'[k] = lane[k]
  BY ReleaseSized
<1>4. lane'[l].pc = "over" /\ Busy' = Busy - 1
  BY ReleaseSized
<1>5. /\ seen'.peak = seen.peak /\ seen'.waited = seen.waited
      /\ ~seen'.early => ~seen.early /\ At("call") \cup At("sent") \cup At("queued") = {}
  BY <1>1, <1>2 DEF Base, Typed, Freed
<1>7. InSlot' = InSlot
  <2>1. lane'[l].pc \notin {"sent"} /\ lane[l].pc \notin {"sent"}
    BY <1>2, <1>4
  <2> QED
    BY <1>1, <1>3, <2>1, OneMoves DEF InSlot
<1>8. InQueue' = InQueue
  <2>1. lane'[l].pc \notin {"queued"} /\ lane[l].pc \notin {"queued"}
    BY <1>2, <1>4
  <2> QED
    BY <1>1, <1>3, <2>1, OneMoves DEF InQueue
<1>9. Cardinality(Released') = Cardinality(Released)
  <2>1. lane'[l].pc \in Pcs \ {"idle", "call"} /\ lane[l].pc \in Pcs \ {"idle", "call"}
    BY <1>2, <1>4 DEF Pcs
  <2> QED
    BY <1>1, <1>3, <2>1, OneMoves DEF Released
<1>10. \A k \in Mine : lane[k].pc # "idle" /\ lane'[k].pc # "idle" /\ (lane'[k].pc = lane[k].pc \/ k = l)
  <2>1. At("idle") = {}
    <3>1. l \notin At("idle")
      BY <1>2 DEF At
    <3> QED
      BY <1>1, <3>1 DEF BurstCounted
  <2>2. \A k \in Mine : k \in Lanes /\ lane[k].pc # "idle"
    BY <1>1, <2>1 DEF At
  <2> QED
    BY <1>3, <1>4, <2>2
<1>11. At("idle")' = {}
  BY <1>1, <1>10 DEF At
<1>12. Admitted' = Admitted /\ Admitted = ended["accepted"] + InSlot
  BY <1>2, <1>7 DEF Admitted, InSlot
<1>13. /\ ended["accepted"] \in Nat /\ ended["timeout"] \in Nat
  BY <1>1 DEF Ends, Mishaps, Refusals
<1>14. Busy' <= Admitted + ended["timeout"]
  BY <1>1, <1>4, <1>12, <1>13 DEF BurstCounted
<1>15. BurstCounted'
  BY <1>1, <1>2, <1>5, <1>8, <1>9, <1>11, <1>12, <1>14 DEF BurstCounted, InQueue
<1>16. ~seen'.early => Awaited' = {}
  <2>1. ASSUME ~seen'.early, NEW k \in Mine PROVE lane'[k].pc \notin {"idle", "call", "sent", "queued"}
    <3>1. lane[k].pc \notin {"call", "sent", "queued"}
      BY <1>5, <2>1 DEF At
    <3> QED
      BY <1>4, <1>10, <3>1
  <2> QED
    BY <1>1, <2>1 DEF Awaited, Those
<1>17. BurstKept'
  BY <1>1, <1>2, <1>5, <1>12, <1>16 DEF BurstKept
<1> QED
  BY <1>15, <1>17

\* The barrier opens: all lanes of the burst start together.
LEMMA BurstSilent ==
  ASSUME Sized, Staged, Bursts, [Next]_vars, T.shape = "burst",
         NEW l \in Mine, Silent(l)
  PROVE  BurstCounted' /\ BurstKept'
<1>1. /\ T' = T /\ Mine' = Mine /\ client' = client /\ server' = server /\ Base /\ Kind /\ 1 \in Mine
      /\ BurstCounted /\ BurstKept /\ Mine \subseteq Lanes /\ LanePlaced(l)
      /\ \A k \in Mine : lane[k] \in LaneStates
  BY OfBurst
<1>2. Launch(l)
  BY <1>1 DEF Silent, Leave, Leaves, Resume, LanePlaced
<1>3. stage = "run"
  BY <1>1, <1>2 DEF Launch, Running, Staged, Kind
<1>4. At("idle") = Mine /\ Launches(l) = Mine
  BY <1>2, <1>3 DEF Launch, Launches, BarrierOpens
<1>5. /\ lane' = [k \in Lanes |-> IF k \in Launches(l) THEN [lane[k] EXCEPT !.pc = "call"] ELSE lane[k]]
      /\ UNCHANGED <<ended, sent, faults, seen, slot, lost>>
  BY <1>2 DEF Launch
<1>6. \A k \in Mine : lane[k].pc = "idle" /\ lane'[k].pc = "call"
  BY <1>1, <1>4, <1>5 DEF At, LaneStates
<1>7. At("idle")' = {}
  BY <1>1, <1>6 DEF At
<1>8. /\ Those({"sent"}) = {} /\ Those({"sent"})' = {} /\ Those({"queued"}) = {} /\ Those({"queued"})' = {}
      /\ Released = {} /\ Released' = {}
  BY <1>1, <1>6 DEF Those, Released
<1>9. Admitted' = Admitted /\ Busy' = Busy
  BY <1>5, <1>8, SlotsStay DEF Admitted
<1>10. 1 \in Awaited
  BY <1>1, <1>6 DEF Awaited, Those
<1>11. BurstCounted'
  BY <1>1, <1>5, <1>7, <1>8, <1>9 DEF BurstCounted
<1>12. BurstKept'
  BY <1>1, <1>5, <1>9, <1>10 DEF BurstKept
<1> QED
  BY <1>11, <1>12

\* Of each kind of end there are at most as many as there are ends.
LEMMA EveryEnd ==
  ASSUME Typed
  PROVE  /\ Answered >= ended["accepted"]
         /\ (\A e \in Ends \ {"complete", "rejected"} : ended[e] = 0) =>
              Answered = ended["complete"] + ended["rejected"]
<1>1. /\ {"complete", "accepted", "rejected", "cut", "broken", "timeout", "unreachable", "error",
          "busy", "late", "bare"} = Ends
  BY DEF Ends, Mishaps, Refusals
<1>2. \A e \in Ends : ended[e] \in Nat
  BY DEF Typed
<1>3. /\ ended["complete"] \in Nat /\ ended["accepted"] \in Nat /\ ended["rejected"] \in Nat
      /\ ended["cut"] \in Nat /\ ended["broken"] \in Nat /\ ended["timeout"] \in Nat
      /\ ended["unreachable"] \in Nat /\ ended["error"] \in Nat
      /\ ended["busy"] \in Nat /\ ended["late"] \in Nat /\ ended["bare"] \in Nat
  BY <1>1, <1>2
<1>4. Answered >= ended["accepted"]
  BY <1>3 DEF Answered
<1>5. ASSUME \A e \in Ends \ {"complete", "rejected"} : ended[e] = 0
      PROVE  Answered = ended["complete"] + ended["rejected"]
  <2>1. /\ ended["accepted"] = 0 /\ ended["cut"] = 0 /\ ended["broken"] = 0 /\ ended["timeout"] = 0
        /\ ended["unreachable"] = 0 /\ ended["error"] = 0
        /\ ended["busy"] = 0 /\ ended["late"] = 0 /\ ended["bare"] = 0
    BY <1>1, <1>5
  <2> QED
    BY <1>3, <2>1 DEF Answered
<1> QED
  BY <1>4, <1>5

\* A slot that is given back while a call of the burst is out counts as early.
LEMMA BurstReaped ==
  ASSUME Sized, Staged, Counted, Bursts, [Next]_vars, T.shape = "burst",
         NEW l \in Lanes, Reaped(l)
  PROVE  BurstCounted' /\ BurstKept'
<1>1. /\ T' = T /\ Mine' = Mine /\ client' = client /\ server' = server /\ Base /\ Kind /\ 1 \in Mine
      /\ BurstCounted /\ BurstKept /\ Mine \subseteq Lanes /\ Busy \in Nat
      /\ InSlot \in Nat /\ InQueue \in Nat /\ \A e \in Ends : ended[e] \in Nat
  BY OfBurst
<1>2. /\ UNCHANGED <<lane, ended, sent, faults>> /\ Busy > 0
      /\ \/ Busy' = Busy - 1 /\ seen' = Freed
         \/ Busy' = Busy /\ seen' = seen
  BY ReapedSized
<1>3. /\ seen'.peak = seen.peak /\ seen'.waited = seen.waited /\ (~seen'.early => ~seen.early)
      /\ seen' = Freed /\ ~seen'.early => At("call") \cup At("sent") \cup At("queued") = {}
  BY <1>1, <1>2 DEF Base, Typed, Freed
<1>4. /\ At("idle")' = At("idle") /\ Released' = Released /\ Awaited' = Awaited
      /\ \A S : Those(S)' = Those(S)
  BY <1>1, <1>2 DEF At, Released, Awaited, Those
<1>5. Admitted' = Admitted /\ Admitted = ended["accepted"] + InSlot
  BY <1>2, <1>4 DEF Admitted, InSlot
<1>6. /\ ended["accepted"] \in Nat /\ ended["timeout"] \in Nat
  BY <1>1 DEF Ends, Mishaps, Refusals
<1>7. Busy' <= Admitted + ended["timeout"]
  BY <1>1, <1>2, <1>5, <1>6 DEF BurstCounted
<1>8. BurstCounted'
  <2>1. Cardinality(Those({"queued"}))' = Cardinality(Those({"queued"}))
    BY <1>4
  <2> QED
    BY <1>1, <1>2, <1>3, <1>4, <1>5, <1>7, <2>1 DEF BurstCounted
<1>9. ASSUME server = "keeps", faults = 0, ~seen'.early, Awaited # {}
      PROVE  Busy' = Admitted
  <2>1. Busy = Admitted
    BY <1>1, <1>3, <1>9 DEF BurstKept
  <2>2. CASE seen' = Freed
    <3>1. \A k \in Mine : lane[k].pc \notin {"call", "sent", "queued"}
      BY <1>3, <1>9, <2>2 DEF At
    <3>2. At("idle") # {}
      BY <1>9, <3>1 DEF Awaited, Those, At
    <3>3. \A k \in Mine : lane[k].pc = "idle"
      BY <1>1, <3>2 DEF BurstCounted, At
    <3>4. Released = {} /\ Pending = {} /\ Those({"sent"}) = {}
      BY <3>3 DEF Released, Pending, Those
    <3>5. sent = 0
      BY <1>1, <3>4, FS_EmptySet DEF BurstCounted
    <3>6. Answered = 0
      <4>1. Answered \in Nat
        BY Lasting
      <4> QED
        BY <3>4, <3>5, <4>1, FS_EmptySet DEF Counted
    <3>7. ended["accepted"] = 0
      BY <1>1, <1>6, <3>6, EveryEnd DEF Base
    <3>8. InSlot = 0
      BY <3>4, FS_EmptySet DEF InSlot
    <3> QED
      BY <1>2, <1>5, <2>1, <3>7, <3>8
  <2> QED
    BY <1>2, <2>1, <2>2
<1>10. BurstKept'
  BY <1>1, <1>2, <1>3, <1>4, <1>5, <1>9 DEF BurstKept
<1> QED
  BY <1>8, <1>10

\* What the answers to a burst say of the slots that were held.
LEMMA NextBursts == Sized /\ Staged /\ Counted /\ Bursts /\ [Next]_vars => Bursts'
<1> SUFFICES ASSUME Sized, Staged, Counted, Bursts, [Next]_vars, T.shape = "burst"
             PROVE  BurstCounted' /\ BurstKept'
  BY Lasting DEF Bursts
<1>1. /\ T' = T /\ Mine' = Mine /\ client' = client /\ server' = server /\ Base /\ Kind
      /\ BurstCounted /\ BurstKept /\ Mine \subseteq Lanes /\ faults \in Nat
      /\ \A k \in Mine : LanePlaced(k)
  BY OfBurst
<1>2. ASSUME NEW l \in Mine, Publish(l) PROVE FALSE
  BY <1>1, <1>2 DEF Publish, LanePlaced
<1>3. CASE Overall
  <2>1. UNCHANGED <<lane, slot, lost, seen>>
    BY <1>3, OverallSized
  <2>2. ~WarmedUp
    BY WarmIdle
  <2>3. UNCHANGED <<ended, sent>> /\ faults' \in {faults, faults + 1}
    BY <1>3, <2>2 DEF Overall, Begin, Tick, Judge, CleanUp, vars
  <2>4. /\ At("idle")' = At("idle") /\ Released' = Released /\ Awaited' = Awaited
        /\ Those({"sent"})' = Those({"sent"}) /\ Those({"queued"})' = Those({"queued"})
    BY <1>1, <2>1 DEF At, Released, Awaited, Those
  <2>5. Busy' = Busy /\ Admitted' = Admitted
    BY <2>1, <2>3, <2>4, SlotsStay DEF Admitted
  <2>6. faults' = 0 => faults = 0
    BY <1>1, <2>3
  <2>7. BurstCounted'
    BY <1>1, <2>1, <2>3, <2>4, <2>5, <2>6 DEF BurstCounted
  <2>8. BurstKept'
    BY <1>1, <2>1, <2>3, <2>4, <2>5, <2>6 DEF BurstKept
  <2> QED
    BY <2>7, <2>8
<1> QED
  BY <1>2, <1>3, Cases, BurstEnding, BurstAdmit, BurstQueue, BurstRelease, BurstSilent, BurstReaped

\* A sample posts at most four times with tools and four times without.
LEMMA NextRetries == Sized /\ Staged /\ Retries /\ [Next]_vars => Retries'
<1> SUFFICES ASSUME Sized, Staged, Retries, [Next]_vars, T.shape = "samples" PROVE Retries'
  BY Lasting DEF Retries
<1>1. /\ T' = T /\ Mine' = Mine /\ client' = client /\ server' = server /\ Base /\ Kind /\ 1 \in Mine
      /\ Mine \subseteq Lanes /\ sent \in Nat /\ Mine = {1} /\ 1 \in Lanes
      /\ lane[1] \in LaneStates /\ LanePlaced(1) /\ server = "keeps"
      /\ \A l \in Mine : LanePlaced(l)
  BY Lasting DEF Kind, Mine, Sized, Base, Placed
<1> DEFINE t == lane[1].turn
           p == PostsBefore(lane[1].step)
           r == lane[1].tries
<1>2. /\ t \in Nat /\ t >= 1 /\ r \in Nat /\ r >= 1 /\ r <= Attempts
      /\ lane[1].step \in {"tools", "plain", "stream"} /\ lane[1].pc # "queued"
  BY <1>1 DEF LanePlaced, LaneStates, Attempts
<1>3. /\ sent <= (2 * Attempts + 1) * t
      /\ lane[1].pc # "over" => sent <= (2 * Attempts + 1) * (t - 1) + p + r - (IF lane[1].pc = "sent" THEN 0 ELSE 1)
      /\ lane[1].step = "stream" => r = 1
  BY DEF Retries
<1>4. /\ lane[1].step = "tools" => p = 0
      /\ lane[1].step = "plain" => p = Attempts
      /\ lane[1].step = "stream" => p = 2 * Attempts
      /\ PostsBefore("tools") = 0 /\ PostsBefore("plain") = Attempts /\ PostsBefore("stream") = 2 * Attempts
  BY DEF PostsBefore
<1>5. ASSUME NEW l \in Mine, NEW end \in Ends, Ending(l, end), EndOf(l, end) PROVE Retries'
  <2>1. /\ l = 1 /\ lane[1].pc \in {"call", "sent"} /\ lane'[1] = After(1, end)
        /\ sent' = IF lane[1].pc = "call" THEN sent + 1 ELSE sent
    BY <1>1, <1>2, <1>5, EndingLane DEF Ending
  <2>2. sent' <= (2 * Attempts + 1) * (t - 1) + p + r
    BY <1>1, <1>2, <1>3, <1>4, <2>1 DEF Attempts
  <2>3. ASSUME lane'[1].pc # "sent", lane'[1].turn = t, lane[1].step \in {"tools", "plain"},
               PostsBefore(lane'[1].step) + lane'[1].tries - 1 >= p + r, lane'[1].tries \in Nat,
               lane'[1].tries <= Attempts, lane'[1].step \in {"tools", "plain", "stream"},
               lane'[1].step = "stream" => lane'[1].tries = 1
        PROVE  Retries'
    <3>1. PostsBefore(lane'[1].step) \in Nat
      BY <2>3 DEF PostsBefore, Attempts
    <3>2. sent' <= (2 * Attempts + 1) * (t - 1) + PostsBefore(lane'[1].step) + lane'[1].tries - 1
      BY <1>1, <1>2, <1>4, <2>1, <2>2, <2>3, <3>1 DEF Attempts
    <3>3. sent' <= (2 * Attempts + 1) * t
      BY <1>1, <1>2, <1>4, <2>1, <2>2, <2>3 DEF Attempts
    <3> QED
      BY <1>1, <2>3, <3>2, <3>3 DEF Retries
  <2>4. CASE /\ lane[1].step \in {"tools", "plain"} /\ r < Attempts
             /\ After(1, end) = [lane[1] EXCEPT !.pc = "pause", !.tries = @ + 1]
    <3>1. /\ lane'[1].pc = "pause" /\ lane'[1].turn = t /\ lane'[1].tries = r + 1
          /\ lane'[1].step = lane[1].step
      BY <1>1, <2>1, <2>4 DEF LaneStates
    <3>2. r + 1 \in Nat /\ r + 1 <= Attempts /\ p \in Nat /\ PostsBefore(lane'[1].step) = p
      BY <1>2, <1>4, <2>4, <3>1 DEF Attempts
    <3> QED
      BY <1>2, <2>3, <2>4, <3>1, <3>2
  <2>5. ASSUME NEW s \in {"plain", "stream"},
               lane[1].step = "tools" \/ (lane[1].step = "plain" /\ s = "stream"),
               After(1, end) = [lane[1] EXCEPT !.pc = "call", !.tries = 1, !.step = s]
        PROVE  Retries'
    <3>1. /\ lane'[1].pc = "call" /\ lane'[1].turn = t /\ lane'[1].tries = 1
          /\ lane'[1].step = s
      BY <1>1, <2>1, <2>5 DEF LaneStates
    <3>2. PostsBefore(s) >= p + r
      BY <1>2, <1>4, <2>5 DEF Attempts
    <3>3. PostsBefore(s) \in Nat
      BY <1>4, <2>5 DEF Attempts
    <3> QED
      BY <1>2, <2>3, <2>5, <3>1, <3>2, <3>3 DEF Attempts
  <2>6. CASE lane[1].step \in {"plain", "stream"} /\ After(1, end) = NextTurn(1)
    <3>1. sent' <= (2 * Attempts + 1) * t
      BY <1>1, <1>2, <1>3, <1>4, <2>1, <2>2, <2>6 DEF Attempts
    <3>2. T.calls \in Nat
      BY <1>1 DEF Kind
    <3>3. CASE t < T.calls
      <4>1. lane'[1].pc = "call" /\ lane'[1].turn = t + 1 /\ lane'[1].tries = 1 /\ lane'[1].step = "tools"
        BY <1>1, <2>1, <2>6, <3>3, ToNextTurn DEF FirstStep
      <4>2. sent' <= (2 * Attempts + 1) * (t + 1)
        BY <1>1, <1>2, <2>1, <3>1 DEF Attempts
      <4>3. sent' <= (2 * Attempts + 1) * ((t + 1) - 1) + 0 + 1 - 1
        BY <1>1, <1>2, <2>1, <3>1 DEF Attempts
      <4> QED
        BY <1>1, <1>4, <4>1, <4>2, <4>3 DEF Retries
    <3>4. CASE t >= T.calls
      <4>1. lane'[1].pc = "over" /\ lane'[1].turn = t /\ lane'[1].tries = r /\ lane'[1].step = lane[1].step
        BY <1>1, <2>1, <2>6, <3>4, ToNextTurn
      <4> QED
        BY <1>1, <1>3, <3>1, <4>1 DEF Retries
    <3> QED
      BY <1>2, <3>2, <3>3, <3>4
  <2> QED
    BY <1>1, <1>5, <2>1, <2>4, <2>5, <2>6, SampleCases
<1>6. ASSUME NEW l \in Mine, Admit(l) PROVE Retries'
  <2>1. l = 1 /\ lane[1].pc = "call" /\ sent' = sent + 1
    BY <1>1, <1>2, <1>6 DEF Admit
  <2>2. /\ lane'[1].pc = "sent" /\ lane'[1].turn = t /\ lane'[1].tries = r /\ lane'[1].step = lane[1].step
    BY <1>6, <2>1, AdmitSized
  <2>3. sent' <= (2 * Attempts + 1) * (t - 1) + p + r - 0
    BY <1>1, <1>2, <1>3, <1>4, <2>1 DEF Attempts
  <2>4. sent' <= (2 * Attempts + 1) * t
    BY <1>1, <1>2, <1>3, <1>4, <2>1, <2>3 DEF Attempts
  <2> QED
    BY <1>1, <1>3, <2>2, <2>3, <2>4 DEF Retries
<1>7. ASSUME NEW l \in Mine, Queue(l) \/ Release(l) \/ Publish(l) PROVE FALSE
  BY <1>1, <1>7 DEF Queue, Release, Publish, LanePlaced
<1>8. ASSUME NEW l \in Mine, Silent(l) PROVE Retries'
  <2>1. sent' = sent /\ Turned(1)
    BY <1>1, <1>8, SilentLanes
  <2>2. ~Leaves
    BY DEF Leaves
  <2>3. CASE lane'[1] = lane[1]
    BY <1>1, <2>1, <2>3 DEF Retries
  <2>4. CASE lane[1].pc \in {"idle", "pause"} /\ lane'[1] = Moved(1, "call")
    <3>1. lane'[1].pc = "call" /\ lane'[1].turn = t /\ lane'[1].tries = r /\ lane'[1].step = lane[1].step
      BY <1>1, <2>4, MovedTyped DEF Pcs
    <3> QED
      BY <1>1, <1>3, <2>1, <2>4, <3>1 DEF Retries
  <2> QED
    BY <2>1, <2>2, <2>3, <2>4 DEF Turned
<1>9. ASSUME UNCHANGED <<lane, sent>> PROVE Retries'
  BY <1>1, <1>9 DEF Retries
<1>10. ASSUME NEW l \in Lanes, Reaped(l) PROVE Retries'
  BY <1>9, <1>10, ReapedSized
<1>11. CASE Overall
  <2>1. ~WarmedUp
    BY WarmIdle
  <2>2. UNCHANGED <<lane, sent>>
    BY <1>11, <2>1 DEF Overall, Begin, Tick, Judge, CleanUp, vars
  <2> QED
    BY <1>9, <2>2
<1> QED
  BY <1>5, <1>6, <1>7, <1>8, <1>10, <1>11, Cases

\* No more lanes are at work than there are permits.
LEMMA NextWorking ==
  ASSUME Sized, Staged, Cardinality(Working) <= T.permits, [Next]_vars
  PROVE  Cardinality(Working') <= T.permits
<1>1. /\ T' = T /\ Mine' = Mine /\ client' = client /\ Base /\ Kind /\ Kind' /\ Mine \subseteq Lanes
      /\ T.permits \in Nat /\ T.lanes \in Nat
      /\ \A l \in Mine : lane[l] \in LaneStates /\ LanePlaced(l) /\ lane'[l] \in LaneStates
  BY Lasting, StillKind DEF Kind
<1>2. Cardinality(Working) \in Nat /\ Cardinality(Working') \in Nat /\ Cardinality(Working') <= T.lanes
  <2>1. Cardinality(Working) \in Nat
    BY <1>1, ThoseFinite DEF Working
  <2>2. IsFiniteSet(Mine) /\ Cardinality(Mine) = T.lanes /\ Working' \in SUBSET Mine
    BY <1>1, Ours DEF Working, Those
  <2>3. IsFiniteSet(Working') /\ Cardinality(Working') <= T.lanes
    BY <2>2, FS_Subset
  <2> QED
    BY <2>1, <2>3, FS_CardinalityType
<1>3. CASE T.shape # "sessions"
  BY <1>1, <1>2, <1>3 DEF Kind
<1>4. CASE T.shape = "sessions"
  <2> DEFINE Goal == Cardinality(Working') <= T.permits
  <2>1. ASSUME NEW l \in Mine, lane[l].pc \notin {"idle", "over"}, \A k \in Lanes \ {l} : lane'[k] = lane[k]
        PROVE  Goal
    <3>1. lane[l].pc \in Pcs \ {"idle", "over"}
      BY <1>1, <2>1 DEF LaneStates
    <3> QED
      BY <1>1, <1>2, <2>1, <3>1, OneMoves DEF Working
  <2>2. ASSUME NEW l \in Mine, NEW end \in Ends, Ending(l, end), EndOf(l, end) PROVE Goal
    <3>1. lane[l].pc \notin {"idle", "over"}
      BY <2>2 DEF Ending
    <3>2. \A k \in Lanes \ {l} : lane'[k] = lane[k]
      BY <1>1, <2>2, EndingLane
    <3> QED
      BY <2>1, <3>1, <3>2
  <2>3. ASSUME NEW l \in Mine, Admit(l) \/ Queue(l) \/ Release(l) PROVE Goal
    <3>1. lane[l].pc \notin {"idle", "over"}
      BY <2>3 DEF Admit, Queue, Release
    <3>2. \A k \in Lanes \ {l} : lane'[k] = lane[k]
      BY <2>3, AdmitSized, QueueSized, ReleaseSized
    <3> QED
      BY <2>1, <3>1, <3>2
  <2>4. ASSUME NEW l \in Mine, Publish(l) PROVE Goal
    BY <1>1, <1>4, <2>4, PublishLane
  <2>5. ASSUME NEW l \in Mine, Silent(l) PROVE Goal
    <3>1. Launch(l)
      BY <1>1, <1>4, <2>5 DEF Silent, Leave, Leaves, Resume, LanePlaced
    <3>2. stage # "warm"
      BY <1>1, <1>4 DEF Staged, Kind
    <3>3. /\ lane[l].pc = "idle" /\ Launches(l) # {}
          /\ lane' = [k \in Lanes |-> IF k \in Launches(l) THEN [lane[k] EXCEPT !.pc = "call"] ELSE lane[k]]
      BY <3>1 DEF Launch
    <3>4. {k \in Mine : lane[k].pc \notin {"idle", "over"}} = Working
      BY <1>1 DEF Working, Those, LaneStates
    <3>5. Cardinality(Working) < T.permits /\ Launches(l) = {l}
      BY <1>4, <3>2, <3>3, <3>4 DEF Launches
    <3>6. lane'[l].pc = "call" /\ \A k \in Lanes \ {l} : lane'[k] = lane[k]
      BY <1>1, <3>3, <3>5 DEF LaneStates
    <3>7. lane[l].pc \notin Pcs \ {"idle", "over"} /\ lane'[l].pc \in Pcs \ {"idle", "over"}
      BY <3>3, <3>6 DEF Pcs
    <3>8. \A k \in Lanes \ {l} : lane'[k] = lane[k]
      BY <3>6
    <3>9. Cardinality(Working') = Cardinality(Working) + 1
      BY <1>1, <3>7, <3>8, OneMoves DEF Working
    <3> QED
      BY <1>1, <1>2, <3>5, <3>9
  <2>6. ASSUME lane' = lane PROVE Goal
    BY <1>1, <2>6 DEF Working, Those
  <2>7. ASSUME NEW l \in Lanes, Reaped(l) PROVE Goal
    BY <2>6, <2>7, ReapedSized
  <2>8. ASSUME Overall PROVE Goal
    BY <2>6, <2>8, OverallSized
  <2> HIDE DEF Goal
  <2>9. Goal
    BY <2>2, <2>3, <2>4, <2>5, <2>7, <2>8, Cases
  <2> QED
    BY <2>9 DEF Goal
<1> QED
  BY <1>3, <1>4

\* Every generation is of a call that is waited for, or of one that timed out.
LEMMA NextLoads == Sized /\ Staged /\ NothingBad /\ Loads /\ [Next]_vars => Loads'
<1> SUFFICES ASSUME Sized, Staged, NothingBad, Loads, [Next]_vars PROVE Loads'
  OBVIOUS
<1> DEFINE Held == Cardinality(Those({"sent", "hold"}))
           Failed == stage = "end" /\ T.warm > 0
           Goal == Busy' <= Held' + ended'["timeout"] \/ Failed'
<1>1. /\ T' = T /\ Mine' = Mine /\ client' = client /\ Base /\ Kind /\ Mine \subseteq Lanes
      /\ Busy \in Nat /\ Typed /\ Typed' /\ T.warm \in Nat
      /\ \A l \in Mine : lane[l] \in LaneStates /\ LanePlaced(l)
  BY Lasting, BusyTyped DEF Sized, Base, Kind
<1>2. /\ Held \in Nat /\ ended["timeout"] \in Nat
  BY <1>1, ThoseFinite DEF Typed, Ends, Mishaps
<1>3. Busy <= Held + ended["timeout"] \/ Failed
  BY DEF Loads, Attended
<1>4. ASSUME NEW l \in Mine, NEW end \in Ends, Ending(l, end), EndOf(l, end) PROVE Goal
  <2>1. /\ lane[l].pc \in {"call", "queued", "sent"} /\ lost' = lost /\ stage' = stage
        /\ slot' = IF end \in {"complete", "cut", "broken"} THEN [slot EXCEPT ![l] = @ - 1] ELSE slot
        /\ ended' = [ended EXCEPT ![end] = @ + 1]
    BY <1>1, <1>4, EndingLane DEF Ending
  <2>2. \A k \in Lanes \ {l} : lane'[k] = lane[k]
    BY <1>1, <1>4, EndingLane
  <2>3. lane'[l].pc # "sent" /\ ((lane'[l].pc = "hold") <=> (end = "accepted"))
    BY <1>1, <1>4, AfterLanded DEF Landed
  <2>4. Busy' = IF end \in {"complete", "cut", "broken"} THEN Busy - 1 ELSE Busy
    <3>1. CASE end \in {"complete", "cut", "broken"}
      <4>1. slot[l] > 0 /\ l \in Lanes /\ lost' = lost + 0
        BY <1>1, <1>4, <2>1, <3>1 DEF EndOf, LanePlaced, Typed
      <4>2. Busy' = Busy - 1 + 0
        BY <1>1, <2>1, <3>1, <4>1, Given
      <4> QED
        BY <1>1, <3>1, <4>2
    <3>2. CASE end \notin {"complete", "cut", "broken"}
      BY <2>1, <3>2, SlotsStay
    <3> QED
      BY <3>1, <3>2
  <2>5. ended'["timeout"] = IF end = "timeout" THEN ended["timeout"] + 1 ELSE ended["timeout"]
    BY <1>1, <2>1 DEF Typed, Ends, Mishaps
  <2>6. Failed' = Failed
    BY <1>1, <2>1
  <2>7. CASE end = "accepted"
    <3>1. lane'[l].pc \in {"sent", "hold"} /\ lane[l].pc \in {"sent", "hold"}
      BY <1>4, <2>3, <2>7 DEF EndOf
    <3>2. Held' = Held
      BY <1>1, <2>2, <3>1, OneMoves
    <3> QED
      BY <1>3, <2>4, <2>5, <2>6, <2>7, <3>2
  <2>8. CASE end # "accepted"
    <3>1. lane'[l].pc \notin {"sent", "hold"}
      BY <2>3, <2>8
    <3>2. Held' = IF lane[l].pc = "sent" THEN Held - 1 ELSE Held
      <4>1. (lane[l].pc \in {"sent", "hold"}) <=> (lane[l].pc = "sent")
        BY <2>1
      <4> QED
        BY <1>1, <2>2, <3>1, <4>1, OneMoves
    <3>3. lane[l].pc = "sent" => end \in {"complete", "cut", "broken", "timeout"}
      BY <1>1, <1>4, <2>8 DEF EndOf, Ends, Mishaps, Refusals
    <3>4. end \in {"complete", "cut", "broken"} => lane[l].pc = "sent"
      BY <1>4 DEF EndOf
    <3>5. CASE Failed
      BY <2>6, <3>5
    <3>6. CASE Busy <= Held + ended["timeout"]
      <4>1. Busy' <= Held' + ended'["timeout"]
        <5>1. CASE end \in {"complete", "cut", "broken"}
          BY <1>1, <1>2, <2>4, <2>5, <3>2, <3>4, <3>6, <5>1
        <5>2. CASE end \notin {"complete", "cut", "broken"}
          BY <1>1, <1>2, <2>4, <2>5, <3>2, <3>3, <3>6, <5>2
        <5> QED
          BY <5>1, <5>2
      <4> QED
        BY <4>1
    <3> QED
      BY <1>3, <3>5, <3>6
  <2> QED
    BY <2>7, <2>8
<1>5. ASSUME NEW l \in Mine, Admit(l) PROVE Goal
  <2>1. lane[l].pc \notin {"sent", "hold"} /\ UNCHANGED <<ended, stage>>
    BY <1>5 DEF Admit
  <2>2. lane'[l].pc \in {"sent", "hold"} /\ Busy' = Busy + 1
    BY <1>5, AdmitSized
  <2>3. \A k \in Lanes \ {l} : lane'[k] = lane[k]
    BY <1>5, AdmitSized
  <2>4. Held' = Held + 1
    BY <1>1, <2>1, <2>2, <2>3, OneMoves
  <2> QED
    BY <1>1, <1>2, <1>3, <2>1, <2>2, <2>4
<1>6. ASSUME NEW l \in Mine, Queue(l) \/ Publish(l) PROVE Goal
  <2>1. lane[l].pc \notin {"sent", "hold"} /\ UNCHANGED <<ended, stage, slot, lost>>
    BY <1>6 DEF Queue, Publish
  <2>2. lane'[l].pc \notin {"sent", "hold"}
    BY <1>1, <1>6, QueueSized, PublishLane
  <2>3. \A k \in Lanes \ {l} : lane'[k] = lane[k]
    BY <1>1, <1>6, QueueSized, PublishLane
  <2>4. Held' = Held /\ Busy' = Busy
    BY <1>1, <2>1, <2>2, <2>3, OneMoves, SlotsStay
  <2> QED
    BY <1>1, <1>3, <2>1, <2>4
<1>7. ASSUME NEW l \in Mine, Release(l) PROVE Goal
  <2>1. lane[l].pc \in {"sent", "hold"} /\ UNCHANGED <<ended, stage>>
    BY <1>7 DEF Release
  <2>2. lane'[l].pc \notin {"sent", "hold"} /\ Busy' = Busy - 1
    BY <1>7, ReleaseSized
  <2>3. \A k \in Lanes \ {l} : lane'[k] = lane[k]
    BY <1>7, ReleaseSized
  <2>4. Held' = Held - 1
    BY <1>1, <2>1, <2>2, <2>3, OneMoves
  <2> QED
    BY <1>1, <1>2, <1>3, <2>1, <2>2, <2>4
<1>8. ASSUME NEW l \in Mine, Silent(l) PROVE Goal
  <2>1. Those({"sent", "hold"})' = Those({"sent", "hold"})
    BY <1>1, <1>8, NoneMoves
  <2>2. UNCHANGED <<ended, stage, slot, lost>>
    BY <1>1, <1>8, SilentLanes
  <2>3. Held' = Held /\ Busy' = Busy
    BY <2>1, <2>2, SlotsStay
  <2> QED
    BY <1>1, <1>3, <2>2, <2>3
<1>9. ASSUME NEW l \in Lanes, Reaped(l) PROVE Goal
  <2>1. UNCHANGED <<lane, ended, stage>> /\ Busy' \in {Busy, Busy - 1}
    BY <1>9, ReapedSized
  <2>2. Held' = Held
    BY <1>1, <2>1, SameSums
  <2> QED
    BY <1>1, <1>2, <1>3, <2>1, <2>2
<1>10. ASSUME Overall PROVE Goal
  <2>1. UNCHANGED <<lane, slot, lost>>
    BY <1>10, OverallSized
  <2>2. Held' = Held /\ Busy' = Busy
    BY <1>1, <2>1, SameSums, SlotsStay
  <2>3. CASE ~WarmedUp
    <3>1. ended' = ended /\ (stage = "end" => stage' = "end")
      BY <1>10, <2>3 DEF Overall, Begin, Tick, Judge, CleanUp, Running, vars
    <3> QED
      BY <1>1, <1>3, <2>2, <3>1
  <2>4. CASE WarmedUp /\ rows.bad = 0
    <3>1. T.shape = "batches" /\ stage = "warm"
      BY <2>4, WarmIdle DEF WarmedUp
    <3>2. ended["timeout"] = 0
      BY <2>4, <3>1 DEF NothingBad, Ends, Mishaps
    <3>3. ended'["timeout"] = 0
      BY <2>4 DEF WarmedUp, Ends, Mishaps
    <3> QED
      BY <1>3, <2>2, <3>1, <3>2, <3>3
  <2>5. CASE WarmedUp /\ rows.bad # 0
    <3>1. T.warm > 0 /\ stage' = "end"
      BY <2>5, WarmIdle DEF WarmedUp, Base, Kind, Sized
    <3> QED
      BY <1>1, <3>1
  <2> QED
    BY <2>3, <2>4, <2>5
<1> HIDE DEF Goal
<1>11. Goal
  BY <1>4, <1>5, <1>6, <1>7, <1>8, <1>9, <1>10, Cases
<1>12. Cardinality(Working') <= T.permits
  BY NextWorking DEF Loads
<1> QED
  BY <1>1, <1>11, <1>12 DEF Goal, Loads, Attended

\* A figure is set to the turn of its probe, and the first failure after it takes success away.
LEMMA NextFresh == Sized /\ Staged /\ Fresh /\ [Next]_vars => Fresh'
<1> SUFFICES ASSUME Sized, Staged, Fresh, [Next]_vars PROVE Fresh'
  OBVIOUS
<1>1. /\ T' = T /\ Mine' = Mine /\ Base /\ Kind /\ Mine \subseteq Lanes /\ Typed /\ 1 \in Mine
      /\ \A l \in Mine : lane[l] \in LaneStates /\ LanePlaced(l)
      /\ T.shape = "probe" => Mine = {1}
  BY Lasting DEF Sized, Base, Kind, Mine
<1>2. /\ gauge \in [ttft : Nat, latency : Nat, throughput : Nat, last : Nat, success : Nat]
      /\ seen \in [peak : Nat, waited : BOOLEAN, early : BOOLEAN, failed : Nat]
      /\ lane[1].turn \in Nat /\ lane[1].tries \in 1..5
  BY <1>1 DEF Typed, LaneStates, Attempts
<1>3. ASSUME gauge' = gauge, seen'.failed = seen.failed,
             T.shape = "probe" => /\ lane'[1].turn = lane[1].turn /\ lane'[1].tries = lane[1].tries
                                  /\ (lane'[1].pc = "publish") <=> (lane[1].pc = "publish")
      PROVE  Fresh'
  BY <1>1, <1>3 DEF Fresh
<1>4. ASSUME NEW l \in Mine, NEW end \in Ends, Ending(l, end), EndOf(l, end) PROVE Fresh'
  <2>1. /\ lane[l].pc # "publish" /\ lane'[l] = After(l, end) /\ gauge' = GaugeAfter(l, end)
        /\ seen' = FailedBy(l, end)
    BY <1>1, <1>4, EndingLane DEF Ending
  <2>2. CASE T.shape # "probe"
    BY <1>3, <2>1, <2>2 DEF GaugeAfter, FailedBy
  <2>3. CASE T.shape = "probe" /\ Good(l, end)
    <3>1. gauge' = gauge /\ seen' = seen /\ l = 1 /\ lane[1].tries = 1
      BY <1>1, <2>1, <2>3 DEF GaugeAfter, FailedBy, Fresh
    <3>2. lane'[1].pc = "publish" /\ lane'[1].turn = lane[1].turn /\ lane'[1].tries = 1
      BY <1>1, <2>1, <2>3, <3>1, OtherCases, MovedTyped DEF Pcs
    <3> QED
      BY <1>1, <3>1, <3>2 DEF Fresh
  <2>4. CASE T.shape = "probe" /\ ~Good(l, end)
    <3>1. /\ gauge' = [gauge EXCEPT !.success = 0] /\ seen' = [seen EXCEPT !.failed = lane[1].turn]
          /\ l = 1 /\ lane[1].tries = 1
      BY <1>1, <2>1, <2>4 DEF GaugeAfter, FailedBy, Fresh
    <3>2. lane'[1] = [Moved(1, "idle") EXCEPT !.turn = @ + 1]
      BY <1>1, <2>1, <2>4, <3>1, OtherCases
    <3>3. lane'[1].pc = "idle" /\ lane'[1].turn = lane[1].turn + 1 /\ lane'[1].tries = 1
      BY <1>1, <3>1, <3>2, MovedTyped DEF LaneStates, Pcs
    <3>4. gauge'.success = 0 /\ seen'.failed = lane[1].turn
      BY <1>2, <3>1
    <3> QED
      BY <1>1, <1>2, <2>4, <3>3, <3>4 DEF Fresh
  <2> QED
    BY <2>2, <2>3, <2>4
<1>5. ASSUME NEW l \in Mine, Admit(l) \/ Queue(l) \/ Release(l) PROVE Fresh'
  <2>1. gauge' = gauge /\ seen'.failed = seen.failed /\ lane[l].pc # "publish"
    BY <1>2, <1>5 DEF Admit, Queue, Release, Freed
  <2>2. T.shape = "probe" => l = 1 /\ ~Release(l)
    BY <1>1 DEF Release, LanePlaced
  <2>3. T.shape = "probe" => /\ lane'[1].turn = lane[1].turn /\ lane'[1].tries = lane[1].tries
                             /\ lane'[1].pc # "publish"
    BY <1>5, <2>2, AdmitSized, QueueSized
  <2> QED
    BY <1>3, <2>1, <2>2, <2>3
<1>6. ASSUME NEW l \in Mine, Silent(l) PROVE Fresh'
  <2>1. gauge' = gauge /\ seen' = seen /\ Turned(1)
    BY <1>1, <1>6, SilentLanes
  <2>2. T.shape = "probe" => ~Leaves /\ lane[1].pc # "pause"
    BY <1>1 DEF Leaves, LanePlaced
  <2>3. T.shape = "probe" => /\ lane'[1].turn = lane[1].turn /\ lane'[1].tries = lane[1].tries
                             /\ (lane'[1].pc = "publish") <=> (lane[1].pc = "publish")
    BY <1>1, <2>1, <2>2, MovedTyped DEF Turned, Pcs
  <2> QED
    BY <1>3, <2>1, <2>3
<1>7. ASSUME NEW l \in Mine, Publish(l) PROVE Fresh'
  <2>1. seen' = seen /\ T.shape = "probe" /\ l = 1 /\ lane[1].pc = "publish"
    BY <1>1, <1>7, PublishLane
  <2>2. /\ seen.failed < lane[1].turn
        /\ \A i \in 1..4 : i < lane[1].tries => gauge[Figures[i]] = lane[1].turn
        /\ gauge.success = 1 => \A i \in 1..4 : gauge[Figures[i]] > seen.failed
    BY <2>1 DEF Fresh
  <2>3. CASE lane[1].tries < 5
    <3>1. /\ lane'[1].pc = "publish" /\ lane'[1].turn = lane[1].turn
          /\ lane'[1].tries = lane[1].tries + 1
          /\ gauge' = [gauge EXCEPT ![Gauges[lane[1].tries]] = lane[1].turn]
      BY <1>1, <1>7, <2>1, <2>3, PublishLane
    <3>2. \A i \in 1..4 : /\ gauge'[Figures[i]] = IF i = lane[1].tries THEN lane[1].turn ELSE gauge[Figures[i]]
                          /\ gauge'.success = gauge.success
      <4>1. lane[1].tries \in {1, 2, 3, 4}
        BY <1>2, <2>3
      <4>2. \A i \in 1..4 : i = 1 \/ i = 2 \/ i = 3 \/ i = 4
        OBVIOUS
      <4>3. CASE lane[1].tries = 1
        <5>1. Gauges[lane[1].tries] = "ttft"
          BY <4>3 DEF Gauges
        <5>2. gauge' = [gauge EXCEPT !["ttft"] = lane[1].turn]
          BY ONLY <3>1, <5>1
        <5> QED
          BY <1>2, <4>2, <4>3, <5>2 DEF Figures
      <4>4. CASE lane[1].tries = 2
        <5>1. Gauges[lane[1].tries] = "latency"
          BY <4>4 DEF Gauges
        <5>2. gauge' = [gauge EXCEPT !["latency"] = lane[1].turn]
          BY ONLY <3>1, <5>1
        <5> QED
          BY <1>2, <4>2, <4>4, <5>2 DEF Figures
      <4>5. CASE lane[1].tries = 3
        <5>1. Gauges[lane[1].tries] = "throughput"
          BY <4>5 DEF Gauges
        <5>2. gauge' = [gauge EXCEPT !["throughput"] = lane[1].turn]
          BY ONLY <3>1, <5>1
        <5> QED
          BY <1>2, <4>2, <4>5, <5>2 DEF Figures
      <4>6. CASE lane[1].tries = 4
        <5>1. Gauges[lane[1].tries] = "last"
          BY <4>6 DEF Gauges
        <5>2. gauge' = [gauge EXCEPT !["last"] = lane[1].turn]
          BY ONLY <3>1, <5>1
        <5> QED
          BY <1>2, <4>2, <4>6, <5>2 DEF Figures
      <4> QED
        BY <4>1, <4>3, <4>4, <4>5, <4>6
    <3>3. gauge'.success = 1 => \A i \in 1..4 : gauge'[Figures[i]] > seen.failed
      BY <1>2, <2>2, <3>2
    <3>4. \A i \in 1..4 : i < lane[1].tries + 1 => gauge'[Figures[i]] = lane[1].turn
      BY <1>2, <2>2, <3>2
    <3> QED
      BY <1>1, <2>1, <2>2, <3>1, <3>3, <3>4 DEF Fresh
  <2>4. CASE lane[1].tries = 5
    <3>1. /\ lane'[1].pc = "idle" /\ lane'[1].turn = lane[1].turn + 1 /\ lane'[1].tries = 1
          /\ gauge' = [gauge EXCEPT !.success = 1]
      BY <1>1, <1>7, <2>1, <2>4, PublishLane
    <3>2. \A i \in 1..4 : gauge'[Figures[i]] = gauge[Figures[i]]
      BY <1>2, <3>1 DEF Figures
    <3>3. \A i \in 1..4 : gauge'[Figures[i]] > seen.failed
      BY <1>2, <2>2, <2>4, <3>2
    <3>4. seen.failed < lane[1].turn + 1
      BY <1>2, <2>2
    <3> QED
      BY <1>1, <2>1, <3>1, <3>3, <3>4 DEF Fresh
  <2> QED
    BY <1>2, <2>3, <2>4
<1>8. ASSUME NEW l \in Lanes, Reaped(l) PROVE Fresh'
  <2>1. UNCHANGED <<lane, gauge>> /\ (seen' = Freed \/ seen' = seen)
    BY <1>8, ReapedSized
  <2>2. seen'.failed = seen.failed
    BY <1>2, <2>1 DEF Freed
  <2> QED
    BY <1>3, <2>1, <2>2
<1>9. CASE Overall
  BY <1>3, <1>9, OverallSized
<1> QED
  BY <1>4, <1>5, <1>6, <1>7, <1>8, <1>9, Cases

\* What has been counted on the way.
Followed == Counted /\ Rowed /\ TurnsRowed /\ NothingBad /\ Judged /\ Bursts /\ Retries /\ Loads /\ Fresh

\* At the start nothing has been counted.
LEMMA InitFollowed == Init => Followed
<1> SUFFICES ASSUME Init PROVE Followed
  OBVIOUS
<1>1. Sized /\ Base /\ Kind /\ Typed /\ Staged
  BY InitSized DEF Sized, Base
<1>2. /\ Mine \subseteq Lanes /\ 1 \in Mine /\ T.calls \in Nat \ {0} /\ T.limit \in Nat /\ T.permits \in Nat
  BY <1>1, Ours DEF Kind
<1>3. /\ \A l \in Mine : lane[l].pc = "idle" /\ lane[l].turn = 1 /\ lane[l].tries = 1
                         /\ lane[l].step = FirstStep(1)
  BY <1>2 DEF Init
<1>4. /\ sent = 0 /\ lost = 0 /\ rows.ok = 0 /\ rows.bad = 0 /\ report = NoReport
      /\ gauge.success = 0 /\ seen.failed = 0 /\ seen.peak = 0 /\ ~seen.waited
      /\ \A e \in Ends : ended[e] = 0
  BY DEF Init
<1>5. /\ Recorded = 0 /\ Answered = 0
  <2>1. /\ ended["complete"] = 0 /\ ended["accepted"] = 0 /\ ended["rejected"] = 0
        /\ ended["cut"] = 0 /\ ended["broken"] = 0 /\ ended["timeout"] = 0
        /\ ended["unreachable"] = 0 /\ ended["error"] = 0
        /\ ended["busy"] = 0 /\ ended["late"] = 0 /\ ended["bare"] = 0
    BY <1>4 DEF Ends, Mishaps, Refusals
  <2> QED
    BY <1>4, <2>1 DEF Recorded, Answered
<1>6. Busy = 0
  <2>1. GenerationsOf(slot) = {}
    BY DEF Init, GenerationsOf
  <2>2. Generations = {}
    BY <2>1 DEF Generations, GenerationsOf
  <2> QED
    BY <1>4, <2>2, FS_EmptySet DEF Busy
<1>7. \A S : "idle" \notin S => Those(S) = {} /\ Cardinality(Those(S)) = 0
  BY <1>3, FS_EmptySet DEF Those
<1>8. /\ Cardinality(Pending) = 0 /\ Cardinality(Those({"publish"})) = 0
      /\ Cardinality(Those({"sent"})) = 0 /\ Cardinality(Those({"queued"})) = 0
      /\ Cardinality(Released) = 0 /\ Cardinality(Working) = 0 /\ Cardinality(Attended) = 0
  BY <1>7 DEF Pending, Released, Working, Attended
<1>9. Counted /\ Rowed
  BY <1>4, <1>5, <1>8 DEF Counted, Rowed
<1>10. TurnsRowed
  <2>1. \A l \in Mine : Past(l) = {}
    BY <1>2, <1>3 DEF Past
  <2>2. Past(1) = {} /\ RejectsPast = {}
    BY <1>2, <2>1 DEF RejectsPast
  <2> QED
    BY <1>4, <1>5, <2>2, FS_EmptySet DEF TurnsRowed, Ends
<1>11. NothingBad
  BY <1>2, <1>3, <1>4 DEF NothingBad, Ends
<1>12. Judged
  BY <1>4 DEF Judged, NoReport
<1>13. Bursts
  <2>1. At("idle") = Mine
    BY <1>3 DEF At
  <2>2. /\ ended["complete"] = 0 /\ ended["accepted"] = 0 /\ ended["timeout"] = 0
        /\ ended["busy"] = 0 /\ ended["late"] = 0 /\ ended["bare"] = 0
    BY <1>4 DEF Ends, Mishaps, Refusals
  <2>3. Admitted = 0
    BY <1>8, <2>2 DEF Admitted
  <2>4. BurstCounted
    <3>1. Busy <= Admitted + ended["timeout"] /\ seen.peak <= Admitted + ended["timeout"]
      BY <1>4, <1>6, <2>2, <2>3
    <3>2. \A e \in Mishaps : ended[e] = 0
      BY <1>4 DEF Ends
    <3> QED
      BY <1>4, <1>8, <2>1, <2>2, <3>1, <3>2 DEF BurstCounted
  <2>5. BurstKept
    BY <1>2, <1>6, <2>2, <2>3 DEF BurstKept
  <2> QED
    BY <2>4, <2>5 DEF Bursts
<1>14. Retries
  <2>1. T.shape = "samples" => lane[1].step = "tools"
    BY <1>2, <1>3 DEF FirstStep
  <2> QED
    BY <1>2, <1>3, <1>4, <2>1 DEF Retries, PostsBefore, Attempts
<1>15. Loads
  <2>1. ended["timeout"] = 0
    BY <1>4 DEF Ends, Mishaps
  <2> QED
    BY <1>2, <1>6, <1>8, <2>1 DEF Loads
<1>16. Fresh
  BY <1>2, <1>3, <1>4 DEF Fresh
<1> QED
  BY <1>9, <1>10, <1>11, <1>12, <1>13, <1>14, <1>15, <1>16 DEF Followed

\* The inductive invariant.
IInv == Sized /\ Staged /\ Followed

\* The inductive invariant holds at the start.
LEMMA InitIInv == Init => IInv
BY InitSized, InitFollowed DEF IInv

\* Every step keeps the inductive invariant.
LEMMA NextIInv == IInv /\ [Next]_vars => IInv'
<1> SUFFICES ASSUME IInv, [Next]_vars PROVE IInv'
  OBVIOUS
<1>1. /\ Sized /\ Staged /\ Counted /\ Rowed /\ TurnsRowed /\ NothingBad /\ Judged /\ Bursts
      /\ Retries /\ Loads /\ Fresh
  BY DEF IInv, Followed
<1>2. Sized' /\ Staged'
  BY <1>1, NextSized, NextStaged
<1>3. Counted' /\ Rowed' /\ TurnsRowed' /\ NothingBad' /\ Judged' /\ Bursts' /\ Retries' /\ Loads' /\ Fresh'
  BY <1>1, NextCounted, NextRowed, NextTurnsRowed, NextNothingBad, NextJudged, NextBursts,
     NextRetries, NextLoads, NextFresh
<1> QED
  BY <1>2, <1>3 DEF IInv, Followed

\* The inductive invariant holds always.
LEMMA Invariance == Spec => []IInv
<1>1. Init => IInv
  BY InitIInv
<1>2. IInv /\ [Next]_vars => IInv'
  BY NextIInv
<1> QED
  BY <1>1, <1>2, PTL DEF Spec

\* When there is a report, every lane is over and every call has ended.
LEMMA Reported ==
  ASSUME IInv, report # NoReport
  PROVE  /\ Base /\ Kind /\ Typed /\ Mine \subseteq Lanes /\ 1 \in Mine
         /\ \A l \in Mine : lane[l].pc = "over"
         /\ \A S : "over" \notin S => Those(S) = {} /\ Cardinality(Those(S)) = 0
         /\ sent = Answered /\ Answered \in Nat /\ Recorded \in Nat
         /\ T.shape # "samples" => Recorded = Answered
         /\ \A l \in Mine : Past(l) = 1..T.calls
<1>1. Base /\ Kind /\ Typed /\ Mine \subseteq Lanes /\ 1 \in Mine
  BY Ours DEF IInv, Sized, Base
<1>2. \A l \in Mine : lane[l].pc = "over"
  BY <1>1 DEF IInv, Staged
<1>3. \A S : "over" \notin S => Those(S) = {} /\ Cardinality(Those(S)) = 0
  BY <1>2, FS_EmptySet DEF Those
<1>4. Cardinality(Pending) = 0 /\ Cardinality(Those({"publish"})) = 0
  BY <1>3 DEF Pending
<1>5. \A e \in Ends : ended[e] \in Nat
  BY <1>1 DEF Typed
<1>6. Answered \in Nat /\ Recorded \in Nat
  <2>1. Answered \in Nat
    BY <1>5 DEF Answered, Ends, Mishaps, Refusals
  <2> QED
    BY <1>1, <2>1 DEF Recorded, Typed
<1>7. sent = Answered /\ (T.shape # "samples" => Recorded = Answered)
  BY <1>4, <1>6 DEF IInv, Followed, Counted, Rowed
<1>8. \A l \in Mine : Past(l) = 1..T.calls
  BY <1>2 DEF Past
<1> QED
  BY <1>1, <1>2, <1>3, <1>6, <1>7, <1>8

\* The load a report names, from the permits and the calls that timed out.
LEMMA LoadsOfReport == IInv => LoadAsReported
<1> SUFFICES ASSUME IInv PROVE LoadAsNamed /\ RetriesBounded
  BY DEF LoadAsReported
<1>1. /\ Kind /\ Base /\ Typed /\ Fits /\ Loads /\ Retries /\ Placed
  BY DEF IInv, Followed, Sized, Base
<1>2. /\ Busy \in Nat /\ T.permits \in Nat /\ T.limit \in Nat /\ ended["timeout"] \in Nat
  <2>1. T.permits \in Nat /\ T.limit \in Nat
    BY <1>1 DEF Kind
  <2>2. "timeout" \in Ends /\ ended \in [Ends -> Nat]
    BY <1>1 DEF Typed, Ends, Mishaps
  <2> QED
    BY <1>1, <2>1, <2>2, BusyTyped
<1>3. Cardinality(Attended) <= Cardinality(Working) /\ Cardinality(Attended) \in Nat /\ Cardinality(Working) \in Nat
  <2>1. IsFiniteSet(Working) /\ Attended \in SUBSET Working
    BY <1>1, ThoseFinite DEF Working, Attended, Those, Pcs
  <2> QED
    BY <2>1, FS_Subset, FS_CardinalityType
<1>4. LoadAsNamed
  <2>1. CASE Busy <= Cardinality(Attended) + ended["timeout"]
    BY <1>1, <1>2, <1>3, <2>1 DEF LoadAsNamed, Loads
  <2>2. CASE stage = "end" /\ T.warm > 0
    <3>1. T.shape = "batches" /\ T.limit = T.permits
      BY <1>1, <2>2 DEF Kind
    <3>2. Capacity = T.permits
      BY <1>1, <3>1 DEF Capacity, Placed
    <3> QED
      BY <1>1, <1>2, <3>2 DEF Fits, LoadAsNamed
  <2> QED
    BY <1>1, <2>1, <2>2 DEF Loads
<1>5. RetriesBounded
  BY <1>1 DEF Retries, RetriesBounded
<1> QED
  BY <1>4, <1>5

\* The figures beside a success, from the order of the publication.
LEMMA FiguresOfReport == IInv => FiguresFresh
<1> SUFFICES ASSUME IInv, gauge.success = 1
             PROVE  \A f \in {"ttft", "latency", "throughput", "last"} : gauge[f] > seen.failed
  BY DEF FiguresFresh
<1>1. \A i \in 1..4 : gauge[Figures[i]] > seen.failed
  BY DEF IInv, Followed, Fresh
<1>2. gauge["ttft"] > seen.failed /\ gauge["latency"] > seen.failed
  <2>1. 1 \in 1..4 /\ 2 \in 1..4 /\ Figures[1] = "ttft" /\ Figures[2] = "latency"
    BY DEF Figures
  <2> QED
    BY <1>1, <2>1
<1>3. gauge["throughput"] > seen.failed /\ gauge["last"] > seen.failed
  <2>1. 3 \in 1..4 /\ 4 \in 1..4 /\ Figures[3] = "throughput" /\ Figures[4] = "last"
    BY DEF Figures
  <2> QED
    BY <1>1, <2>1
<1> QED
  BY <1>2, <1>3

\* What a verdict was given on.
LEMMA VerdictOn ==
  ASSUME IInv, report \in {"passed", "failed"}
  PROVE  /\ report # NoReport /\ client \in Verdicts /\ ((report = "passed") <=> Passed)
         /\ T.shape = "burst" =>
              Passed = IF client = "portal" THEN EvaluatePortal ELSE EvaluateEarly429
         /\ T.shape # "burst" /\ Passed => rows.bad = 0 /\ (T.shape = "serial" => Recorded > 0)
         /\ T.shape \in {"burst", "serial", "once", "batches", "cases"}
<1>1. report # NoReport /\ client \in Verdicts /\ ((report = "passed") <=> Passed) /\ Kind
  BY DEF IInv, Followed, Judged, NoReport, Sized, Base
<1>2. client = "early429" => T.shape = "burst"
  BY DEF T, Traits, Early429, Client
<1>3. client = "monitor" => T.shape = "serial"
  BY DEF T, Traits, MonitorProvider, Client
<1>4. CASE T.shape = "burst"
  <2>1. client \in {"early429", "portal"}
    BY <1>1, <1>4 DEF Kind
  <2> QED
    BY <1>1, <1>4, <2>1 DEF Passed
<1>5. CASE T.shape # "burst"
  <2>1. client \notin {"early429", "portal"}
    BY <1>1, <1>2, <1>5 DEF Kind
  <2>2. CASE client = "monitor"
    <3>1. Passed = (rows.bad = 0 /\ Recorded > 0)
      BY <2>1, <2>2 DEF Passed
    <3> QED
      BY <1>1, <1>5, <3>1 DEF Kind
  <2>3. CASE client # "monitor" /\ T.shape = "serial"
    <3>1. Passed = (rows.bad = 0 /\ Recorded > 0 /\ clock >= Deadline)
      BY <2>1, <2>3 DEF Passed
    <3> QED
      BY <1>1, <1>5, <2>3, <3>1
  <2>4. CASE client # "monitor" /\ T.shape # "serial"
    <3>1. Passed = (rows.bad = 0)
      BY <2>1, <2>4 DEF Passed
    <3> QED
      BY <1>1, <1>5, <2>4, <3>1 DEF Kind
  <2> QED
    BY <2>2, <2>3, <2>4
<1> QED
  BY <1>4, <1>5

\* A verdict that is no burst's: all calls were served.
LEMMA ServedIfPassed == IInv => PassedMeansServed
<1> SUFFICES ASSUME IInv, report = "passed", T.shape # "burst"
             PROVE  /\ ended["complete"] + ended["rejected"] = sent /\ sent > 0
                    /\ ended["rejected"] = Cardinality({i \in DOMAIN T.cases : T.cases[i] = "reject"})
                    /\ T.shape = "cases" => sent = Len(T.cases)
                    /\ T.shape \in {"serial", "batches"} => clock >= Deadline
                    /\ T.shape = "batches" => sent >= Requests
  BY DEF PassedMeansServed
<1>1. /\ report # NoReport /\ rows.bad = 0 /\ (T.shape = "serial" => Recorded > 0)
      /\ T.shape \in {"serial", "once", "batches", "cases"}
  BY VerdictOn
<1>2. /\ Kind /\ Typed /\ sent = Answered /\ Recorded = Answered /\ 1 \in Mine /\ sent \in Nat
      /\ lane[1].pc = "over" /\ Past(1) = 1..T.calls
  BY <1>1, Reported
<1>3. NothingBad /\ TurnsRowed
  BY DEF IInv, Followed
<1>4. \A e \in Ends \ {"complete", "rejected"} : ended[e] = 0
  BY <1>1, <1>3 DEF NothingBad
<1>5. ended["complete"] + ended["rejected"] = sent
  BY <1>2, <1>4, EveryEnd
<1>6. CASE T.shape = "cases"
  <2>1. T.calls \in Nat \ {0} /\ DOMAIN T.cases = 1..T.calls /\ Len(T.cases) = T.calls
    BY <1>2, <1>6 DEF Kind
  <2>2. Recorded = Cardinality(Past(1)) /\ ended["rejected"] = Cardinality(RejectsPast)
    BY <1>1, <1>3, <1>6 DEF TurnsRowed
  <2>3. Cardinality(1..T.calls) = T.calls
    <3>1. T.calls \in Int /\ 1 \in Int /\ T.calls >= 1
      BY <2>1
    <3>2. Cardinality(1..T.calls) = IF 1 > T.calls THEN 0 ELSE T.calls - 1 + 1
      BY ONLY <3>1, FS_Interval
    <3> QED
      BY <3>1, <3>2
  <2>4. sent = T.calls /\ T.calls > 0
    BY <1>2, <2>1, <2>2, <2>3
  <2>5. RejectsPast = {i \in DOMAIN T.cases : T.cases[i] = "reject"}
    BY <1>2, <2>1 DEF RejectsPast
  <2> QED
    BY <1>5, <1>6, <2>1, <2>2, <2>4, <2>5
<1>7. CASE T.shape # "cases"
  <2>1. ended["rejected"] = 0 /\ DOMAIN T.cases = {}
    BY <1>2, <1>3, <1>7 DEF NothingBad, Kind
  <2>2. ended["rejected"] = Cardinality({i \in DOMAIN T.cases : T.cases[i] = "reject"})
    <3>1. {i \in DOMAIN T.cases : T.cases[i] = "reject"} = {}
      BY <2>1
    <3> QED
      BY <2>1, <3>1, FS_EmptySet
  <2>3. T.shape = "batches" => sent >= Requests /\ clock >= Deadline
    BY <1>1, <1>2, <1>3 DEF NothingBad, BatchesOver
  <2>4. T.shape = "serial" => clock >= Deadline
    <3>1. ~(rows.bad > 0)
      BY <1>1
    <3> QED
      BY <1>2, <1>3, <3>1 DEF NothingBad
  <2>5. sent > 0
    <3>1. CASE T.shape = "batches"
      BY <1>2, <2>3, <3>1, ClientsAssumption
    <3>2. CASE T.shape \in {"serial", "once"}
      BY <1>1, <1>2, <1>3, <3>2 DEF NothingBad
    <3> QED
      BY <1>1, <1>7, <3>1, <3>2
  <2> QED
    BY <1>5, <1>7, <2>2, <2>3, <2>4, <2>5
<1> QED
  BY <1>6, <1>7

\* What is known of a burst when it has been judged.
LEMMA BurstAtEnd ==
  ASSUME IInv, report \in {"passed", "failed"}, T.shape = "burst"
  PROVE  /\ BurstCounted /\ BurstKept /\ T.lanes \in Nat /\ T.limit \in Nat /\ T.limit >= 1
         /\ T.lanes > T.limit /\ (client = "portal" => T.limit = 1)
         /\ Admitted = ended["accepted"] /\ Cardinality(Those({"queued"})) = 0
         /\ \A e \in Ends : ended[e] \in Nat
         /\ ended["complete"] = 0 /\ ended["rejected"] = 0
         /\ ended["accepted"] + ended["cut"] + ended["broken"] + ended["timeout"] + ended["unreachable"]
              + ended["error"] + ended["busy"] + ended["late"] + ended["bare"] = T.lanes
<1>1. report # NoReport
  BY VerdictOn
<1>2. /\ Kind /\ Typed /\ sent = Answered /\ Mine = Those(Pcs \ {"idle", "call"})
      /\ \A S : "over" \notin S => Cardinality(Those(S)) = 0
  BY <1>1, Reported DEF Those, Pcs
<1>3. BurstCounted /\ BurstKept /\ NothingBad
  BY DEF IInv, Followed, Bursts
<1>4. \A e \in Ends : ended[e] \in Nat
  BY <1>2 DEF Typed
<1>5. /\ T.lanes \in Nat /\ T.limit \in Nat /\ T.limit >= 1 /\ T.lanes > T.limit
      /\ (client = "portal" => T.limit = 1)
  BY <1>2 DEF Kind
<1>6. Cardinality(Those({"sent"})) = 0 /\ Cardinality(Those({"queued"})) = 0
  BY <1>2
<1>7. /\ ended["complete"] \in Nat /\ ended["accepted"] \in Nat /\ ended["rejected"] \in Nat
      /\ ended["cut"] \in Nat /\ ended["broken"] \in Nat /\ ended["timeout"] \in Nat
      /\ ended["unreachable"] \in Nat /\ ended["error"] \in Nat
      /\ ended["busy"] \in Nat /\ ended["late"] \in Nat /\ ended["bare"] \in Nat
  BY <1>4 DEF Ends, Mishaps, Refusals
<1>8. Admitted = ended["accepted"]
  BY <1>6, <1>7 DEF Admitted
<1>9. ended["complete"] = 0 /\ ended["rejected"] = 0
  BY <1>3 DEF BurstCounted, NothingBad
<1>10. Answered = T.lanes
  BY <1>2, <1>3, Ours DEF BurstCounted, Released
<1> QED
  BY <1>3, <1>4, <1>5, <1>6, <1>7, <1>8, <1>9, <1>10 DEF Answered

\* If one call was accepted and all others were rejected, none timed out.
LEMMA NoOthers ==
  ASSUME NEW x, \A e \in Ends : x[e] \in Nat, NEW n \in Nat,
         x["accepted"] + x["cut"] + x["broken"] + x["timeout"] + x["unreachable"]
           + x["error"] + x["busy"] + x["late"] + x["bare"] = n,
         x["accepted"] = 1, x["busy"] + x["late"] + x["bare"] = n - 1
  PROVE  x["timeout"] = 0
<1>1. /\ x["accepted"] \in Nat
      /\ x["cut"] \in Nat /\ x["broken"] \in Nat /\ x["timeout"] \in Nat
      /\ x["unreachable"] \in Nat /\ x["error"] \in Nat
      /\ x["busy"] \in Nat /\ x["late"] \in Nat /\ x["bare"] \in Nat
  BY DEF Ends, Mishaps, Refusals
<1> QED
  BY <1>1

\* A passed burst: no more than the limit was held, and nothing waited.
LEMMA SoundIfPassed == IInv => BurstSound
<1> SUFFICES ASSUME IInv, report = "passed", T.shape = "burst"
             PROVE  seen.peak <= T.limit /\ (client = "portal" \/ Rejected < 20 => ~seen.waited)
  BY DEF BurstSound
<1>1. /\ BurstCounted /\ T.lanes \in Nat /\ T.limit \in Nat /\ (client = "portal" => T.limit = 1)
      /\ Admitted = ended["accepted"] /\ Cardinality(Those({"queued"})) = 0
      /\ \A e \in Ends : ended[e] \in Nat
      /\ ended["accepted"] + ended["cut"] + ended["broken"] + ended["timeout"] + ended["unreachable"]
           + ended["error"] + ended["busy"] + ended["late"] + ended["bare"] = T.lanes
  BY BurstAtEnd
<1>2. IF client = "portal" THEN EvaluatePortal ELSE EvaluateEarly429
  BY VerdictOn
<1>3. /\ ended["accepted"] \in Nat
      /\ ended["cut"] \in Nat /\ ended["broken"] \in Nat /\ ended["timeout"] \in Nat
      /\ ended["unreachable"] \in Nat /\ ended["error"] \in Nat
      /\ ended["busy"] \in Nat /\ ended["late"] \in Nat /\ ended["bare"] \in Nat
  BY <1>1 DEF Ends, Mishaps, Refusals
<1>4. /\ ended["accepted"] <= T.limit /\ ended["timeout"] = 0
      /\ client = "portal" \/ Rejected < 20 => ended["late"] = 0
  <2>1. CASE client = "portal"
    <3>1. ended["accepted"] = 1 /\ Rejected = T.lanes - 1 /\ ended["late"] = 0
      BY <1>2, <2>1 DEF EvaluatePortal
    <3>2. ended["busy"] + ended["late"] + ended["bare"] = T.lanes - 1
      BY <3>1 DEF Rejected
    <3>3. /\ ended["accepted"] + ended["cut"] + ended["broken"] + ended["timeout"] + ended["unreachable"]
               + ended["error"] + ended["busy"] + ended["late"] + ended["bare"] = T.lanes
          /\ T.lanes \in Nat
      BY <1>1
    <3>4. ended["timeout"] = 0
      BY <1>1, <3>1, <3>2, <3>3, NoOthers
    <3> QED
      BY <1>1, <2>1, <3>1, <3>4
  <2>2. CASE client # "portal"
    <3>1. ended["accepted"] <= T.limit /\ ended["timeout"] = 0 /\ 20 * ended["late"] <= Rejected
      BY <1>1, <1>2, <2>2 DEF EvaluateEarly429, Mishaps
    <3>2. Rejected \in Nat
      BY <1>3 DEF Rejected
    <3>3. Rejected < 20 => ended["late"] = 0
      BY <1>3, <3>1, <3>2
    <3> QED
      BY <2>2, <3>1, <3>3
  <2> QED
    BY <2>1, <2>2
<1>5. seen.peak <= ended["accepted"] + ended["timeout"] /\ seen.peak \in Nat
  BY <1>1 DEF BurstCounted, IInv, Sized, Base, Typed
<1>6. seen.waited => ended["late"] + 0 + ended["accepted"] + ended["timeout"] > T.limit
  BY <1>1 DEF BurstCounted
<1> QED
  BY <1>1, <1>3, <1>4, <1>5, <1>6

\* A server that kept its limit cannot fail: its answers are the ones asked for.
LEMMA CompleteIfKept == IInv => BurstComplete
<1> SUFFICES ASSUME IInv, report = "failed", T.shape = "burst", server = "keeps", faults = 0, ~seen.early
             PROVE  FALSE
  BY DEF BurstComplete
<1>1. /\ BurstCounted /\ BurstKept /\ T.lanes \in Nat /\ T.limit \in Nat /\ (client = "portal" => T.limit = 1)
      /\ T.limit >= 1 /\ T.lanes > T.limit
      /\ Admitted = ended["accepted"]
      /\ \A e \in Ends : ended[e] \in Nat
      /\ ended["accepted"] + ended["cut"] + ended["broken"] + ended["timeout"] + ended["unreachable"]
           + ended["error"] + ended["busy"] + ended["late"] + ended["bare"] = T.lanes
  BY BurstAtEnd
<1>2. ~(IF client = "portal" THEN EvaluatePortal ELSE EvaluateEarly429)
  BY VerdictOn
<1>3. ended["accepted"] \in Nat /\ ended["busy"] \in Nat
  BY <1>1 DEF Ends, Refusals
<1>4. (\A e \in Mishaps : ended[e] = 0) /\ ended["late"] = 0 /\ ended["bare"] = 0
  BY <1>1 DEF BurstCounted
<1>5. ended["cut"] = 0 /\ ended["broken"] = 0 /\ ended["timeout"] = 0 /\ ended["unreachable"] = 0 /\ ended["error"] = 0
  BY <1>4 DEF Mishaps
<1>6. ended["accepted"] + ended["busy"] = T.lanes
  BY <1>1, <1>3, <1>4, <1>5
<1>7. ended["accepted"] <= T.limit /\ (ended["busy"] > 0 => ended["accepted"] >= T.limit)
  BY <1>1 DEF BurstKept
<1>8. ended["busy"] > 0 /\ ended["accepted"] = T.limit
  BY <1>1, <1>3, <1>6, <1>7
<1>9. Rejected = ended["busy"]
  BY <1>3, <1>4 DEF Rejected
<1>10. EvaluateEarly429
  <2>1. 20 * ended["late"] <= Rejected
    BY <1>3, <1>4, <1>9
  <2> QED
    BY <1>1, <1>4, <1>8, <1>9, <2>1 DEF EvaluateEarly429
<1>11. client = "portal" => EvaluatePortal
  BY <1>1, <1>3, <1>4, <1>6, <1>8, <1>9 DEF EvaluatePortal
<1> QED
  BY <1>2, <1>10, <1>11

\* The types, from the invariant.
LEMMA TypesOfReport == IInv => TypeOK
<1> SUFFICES ASSUME IInv PROVE TypeOK
  OBVIOUS
<1>1. Typed /\ Fits
  BY DEF IInv, Sized, Base
<1>2. \A l \in Lanes :
        /\ lane[l].pc \in {"idle", "call", "pause", "queued", "sent", "hold", "publish", "over"}
        /\ lane[l].tries \in 1..(Attempts + 1) /\ lane[l].step \in {"stream", "tools", "plain", "reject"}
        /\ slot[l] \in Nat
  BY <1>1 DEF Typed, LaneStates, Pcs, Steps
<1> QED
  BY <1>1, <1>2 DEF TypeOK, Typed, Fits

\* A client that passes served all it claims, and an admission check passes exactly
\* the servers that kept the limit: the checks, suites and watchers judge rightly.
THEOREM Verdict == Spec => []VerdictRight
<1>1. IInv => VerdictRight
  BY TypesOfReport, ServedIfPassed, SoundIfPassed, CompleteIfKept DEF VerdictRight
<1> QED
  BY <1>1, Invariance, PTL

\* No more generations run at once than the permits a report names, but for calls that
\* timed out, and a sample of the tool call scenario posts a bounded number of times.
THEOREM Load == Spec => []LoadAsReported
BY LoadsOfReport, Invariance, PTL

\* While the monitor's success gauge reads 1, every figure beside it is of a probe after
\* the latest failure, even between two gauges of one publication.
THEOREM Freshness == Spec => []FiguresFresh
BY FiguresOfReport, Invariance, PTL

\* The tenant of the portal check is disabled by its last step, and not before.
KeyKept ==
  /\ key \in [state : {"none", "live", "revoked"}, tenant : {"none", "enabled", "disabled"}]
  /\ client = "portal" /\ stage # "end" => key.tenant # "disabled"
  /\ KeyRevoked

\* Only the client as a whole touches its stage, its report and its key.
LEMMA KeyStays ==
  ASSUME Sized, [Next]_vars
  PROVE  \/ Begin \/ WarmedUp \/ Judge \/ CleanUp
         \/ UNCHANGED <<client, stage, report, key>> /\ (faults' = faults \/ faults' = faults + 1)
<1> DEFINE Stays == UNCHANGED <<client, stage, report, key>> /\ (faults' = faults \/ faults' = faults + 1)
<1>1. ASSUME NEW l \in Mine, NEW end \in Ends, Ending(l, end) PROVE Stays
  <2>1. UNCHANGED <<client, stage, report, key>>
    BY <1>1, EndingLane DEF Sized
  <2>2. faults' = faults \/ faults' = faults + 1
    BY <1>1 DEF Ending
  <2> QED
    BY <2>1, <2>2
<1>2. ASSUME NEW l \in Mine, Admit(l) \/ Queue(l) \/ Release(l) PROVE Stays
  BY <1>2 DEF Admit, Queue, Release
<1>3. ASSUME NEW l \in Mine, Silent(l) PROVE Stays
  BY <1>3, SilentLanes DEF Sized
<1>4. ASSUME NEW l \in Mine, Publish(l) PROVE Stays
  BY <1>4, PublishLane DEF Sized
<1>5. ASSUME NEW l \in Lanes, Reaped(l) PROVE Stays
  BY <1>5, ReapedSized
<1>6. ASSUME Tick \/ UNCHANGED vars PROVE Stays
  BY <1>6 DEF Tick, vars
<1> HIDE DEF Stays
<1>7. Stays \/ Begin \/ WarmedUp \/ Judge \/ CleanUp
  BY <1>1, <1>2, <1>3, <1>4, <1>5, <1>6, Cases DEF Overall
<1> QED
  BY <1>7 DEF Stays

\* The clean-up disables the tenant after the key, or leaves no report.
LEMMA NextKeyKept == IInv /\ KeyKept /\ [Next]_vars => KeyKept'
<1> SUFFICES ASSUME IInv, KeyKept, [Next]_vars PROVE KeyKept'
  OBVIOUS
<1>1. Sized /\ Staged /\ faults \in Nat /\ faults' \in Nat
  <2>1. Sized /\ Staged /\ Typed
    BY DEF IInv, Sized, Base
  <2>2. Typed'
    BY <2>1, NextSized DEF Sized, Base
  <2>3. faults \in 0..MaxFaults /\ faults' \in 0..MaxFaults
    BY <2>1, <2>2 DEF Typed
  <2> QED
    BY <2>1, <2>3
<1>2. CASE Begin
  <2>1. /\ client' = client /\ stage' # "end" /\ (client = "portal" => key'.tenant = "enabled")
        /\ key' \in [state : {"none", "live", "revoked"}, tenant : {"none", "enabled", "disabled"}]
    BY <1>2 DEF Begin, KeyKept
  <2> QED
    BY <2>1 DEF KeyKept, KeyRevoked
<1>3. CASE WarmedUp
  <2>1. client # "portal"
    BY <1>1, <1>3, WarmIdle, KindOf DEF Kind, Sized, Base, Typed
  <2>2. client' = client /\ key' = key
    BY <1>3 DEF WarmedUp
  <2> QED
    BY <2>1, <2>2 DEF KeyKept, KeyRevoked
<1>4. CASE Judge
  <2>1. /\ stage = "run" /\ UNCHANGED <<client, key>>
        /\ client = "portal" => stage' = "clean"
    BY <1>4 DEF Judge
  <2> QED
    BY <2>1 DEF KeyKept, KeyRevoked
<1>5. CASE CleanUp
  <2>1. /\ stage = "clean" /\ stage' = "end" /\ client' = client
    BY <1>5 DEF CleanUp
  <2>2. CASE key' = [state |-> IF key.state = "live" THEN "revoked" ELSE key.state, tenant |-> "disabled"]
    <3>1. /\ key'.tenant = "disabled" /\ key'.state # "live"
          /\ key' \in [state : {"none", "live", "revoked"}, tenant : {"none", "enabled", "disabled"}]
      BY <2>2 DEF KeyKept
    <3> QED
      BY <2>1, <3>1 DEF KeyKept, KeyRevoked
  <2>3. CASE /\ faults' = faults + 1 /\ report' = NoReport
             /\ \/ UNCHANGED key
                \/ key' = [key EXCEPT !.state = IF @ = "live" THEN "revoked" ELSE @]
    <3>1. /\ key'.tenant = key.tenant
          /\ key' \in [state : {"none", "live", "revoked"}, tenant : {"none", "enabled", "disabled"}]
      BY <2>3 DEF KeyKept
    <3>2. faults' # 0 /\ report' = NoReport
      BY <1>1, <2>3
    <3>3. client = "portal" => key'.tenant # "disabled"
      BY <2>1, <3>1 DEF KeyKept
    <3> QED
      BY <2>1, <3>1, <3>2, <3>3 DEF KeyKept, KeyRevoked
  <2> QED
    BY <1>5, <2>2, <2>3 DEF CleanUp
<1>6. CASE UNCHANGED <<client, stage, report, key>> /\ (faults' = faults \/ faults' = faults + 1)
  <2>1. faults' = 0 => faults = 0
    BY <1>1, <1>6
  <2> QED
    BY <1>6, <2>1 DEF KeyKept, KeyRevoked
<1> QED
  BY <1>1, <1>2, <1>3, <1>4, <1>5, <1>6, KeyStays

\* The portal check leaves no live key and no enabled tenant behind, unless its
\* clean-up failed, and then it leaves no report.
THEOREM Revocation == Spec => []KeyRevoked
<1>1. Init => KeyKept
  BY DEF Init, KeyKept, KeyRevoked
<1>2. KeyKept => KeyRevoked
  BY DEF KeyKept
<1> QED
  BY <1>1, <1>2, NextKeyKept, Invariance, PTL DEF Spec

\* A failed lane of a soak is over; the failures of a batch are among its answers.
Stopping ==
  /\ T.shape = "serial" => rows.bad <= Cardinality(Those({"over"}))
  /\ T.shape = "batches" /\ stage = "run" =>
       /\ \E k \in Nat : Recorded + Cardinality(Working) = k * T.lanes
       /\ Working # {} => rows.bad + Cardinality(Working) <= T.lanes

\* A soak stops lane by lane.
LEMMA SerialStops ==
  ASSUME IInv, Stopping, [Next]_vars, T.shape = "serial"
  PROVE  rows'.bad <= Cardinality(Those({"over"})')
<1> DEFINE Goal == rows'.bad <= Cardinality(Those({"over"})')
           C == Cardinality(Those({"over"}))
           D == Cardinality(Those({"over"})')
<1>1. /\ Sized /\ Staged /\ Base /\ Kind /\ Kind' /\ T' = T /\ Mine' = Mine /\ client' = client /\ Mine \subseteq Lanes
      /\ \A l \in Mine : lane[l] \in LaneStates /\ LanePlaced(l) /\ lane'[l] \in LaneStates
  <2>1. Sized /\ Staged
    BY DEF IInv
  <2> QED
    BY <2>1, Lasting, StillKind DEF Sized
<1>2. rows.bad \in Nat /\ C \in Nat /\ D \in Nat /\ rows.bad <= C
  <2>1. C \in Nat
    BY <1>1, ThoseFinite
  <2>2. D \in Nat
    <3>1. IsFiniteSet(Mine) /\ Those({"over"})' \in SUBSET Mine
      BY <1>1, Ours DEF Those
    <3>2. IsFiniteSet(Those({"over"})')
      BY <3>1, FS_Subset
    <3> QED
      BY <3>2, FS_CardinalityType
  <2>3. rows.bad \in Nat
    BY <1>1 DEF Base, Typed
  <2> QED
    BY <2>1, <2>2, <2>3 DEF Stopping
<1>3. ASSUME NEW l \in Mine, NEW end \in Ends, Ending(l, end), EndOf(l, end) PROVE Goal
  <2>1. lane[l].pc \notin {"over"} /\ \A k \in Lanes \ {l} : lane'[k] = lane[k]
    BY <1>1, <1>3, EndingLane DEF Ending
  <2>2. CASE Good(l, end)
    <3>1. rows'.bad = rows.bad
      BY <1>1, <1>3, <2>2, OneRow
    <3>2. D = C \/ D = C + 1
      BY <1>1, <2>1, OneMoves
    <3> QED
      BY <1>2, <3>1, <3>2
  <2>3. CASE ~Good(l, end)
    <3>1. rows'.bad = rows.bad + 1
      BY <1>1, <1>3, <2>3, OneRow
    <3>2. After(l, end) = Moved(l, "over")
      BY <1>1, <2>3, OtherCases
    <3>3. lane'[l] = Moved(l, "over")
      BY <1>1, <1>3, <3>2, EndingLane
    <3>4. lane'[l].pc \in {"over"}
      BY <1>1, <3>3, MovedTyped DEF Pcs
    <3>5. D = C + 1
      BY <1>1, <2>1, <3>4, OneMoves
    <3> QED
      BY <1>2, <3>1, <3>5
  <2> QED
    BY <2>2, <2>3
<1>4. ASSUME NEW l \in Mine, Admit(l) \/ Queue(l) \/ Release(l) PROVE Goal
  <2>1. lane[l].pc \notin {"over"} /\ rows' = rows
    BY <1>4 DEF Admit, Queue, Release
  <2>2. \A k \in Lanes \ {l} : lane'[k] = lane[k]
    BY <1>1, <1>4, AdmitSized, QueueSized, ReleaseSized
  <2>3. D = C \/ D = C + 1
    BY <1>1, <2>1, <2>2, OneMoves
  <2> QED
    BY <1>2, <2>1, <2>3
<1>5. ASSUME NEW l \in Mine, Silent(l) PROVE Goal
  <2>1. rows' = rows /\ \A k \in Lanes : Turned(k)
    BY <1>1, <1>5, SilentLanes
  <2>2. \A k \in Mine : lane[k].pc = "over" => lane'[k].pc = "over"
    BY <1>1, <2>1 DEF Turned
  <2>3. Those({"over"}) \in SUBSET Those({"over"})' /\ Those({"over"})' \in SUBSET Mine
    BY <1>1, <2>2 DEF Those
  <2>4. IsFiniteSet(Those({"over"})')
    BY <1>1, <2>3, Ours, FS_Subset
  <2>5. C <= D
    BY <2>3, <2>4, FS_Subset
  <2> QED
    BY <1>2, <2>1, <2>5
<1>6. ASSUME NEW l \in Mine, Publish(l) PROVE Goal
  BY <1>1, <1>6, PublishLane
<1>7. ASSUME lane' = lane, rows' = rows PROVE Goal
  <2>1. D = C
    BY <1>1, <1>7 DEF Those
  <2> QED
    BY <1>2, <1>7, <2>1
<1>8. ASSUME NEW l \in Lanes, Reaped(l) PROVE Goal
  BY <1>1, <1>7, <1>8, ReapedSized
<1>9. ASSUME Overall PROVE Goal
  <2>1. ~WarmedUp
    BY <1>1, WarmIdle
  <2>2. lane' = lane /\ rows' = rows
    BY <1>9, <2>1 DEF Overall, Begin, Tick, Judge, CleanUp, vars
  <2> QED
    BY <1>7, <2>2
<1> HIDE DEF Goal
<1>10. Goal
  BY <1>1, <1>3, <1>4, <1>5, <1>6, <1>8, <1>9, Cases
<1> QED
  BY <1>10 DEF Goal

\* A batch is sent whole, when all answers of the one before are there and good.
LEMMA BatchStops ==
  ASSUME IInv, Stopping, [Next]_vars, T.shape = "batches", stage' = "run"
  PROVE  /\ \E k \in Nat : Recorded' + Cardinality(Working') = k * T.lanes
         /\ Working' # {} => rows'.bad + Cardinality(Working') <= T.lanes
<1> DEFINE W == Cardinality(Working)
           V == Cardinality(Working')
           Goal == /\ \E k \in Nat : Recorded' + V = k * T.lanes
                   /\ Working' # {} => rows'.bad + V <= T.lanes
<1>1. /\ Sized /\ Staged /\ Base /\ Kind /\ Kind' /\ T' = T /\ Mine' = Mine /\ client' = client /\ Mine \subseteq Lanes
      /\ \A l \in Mine : lane[l] \in LaneStates /\ LanePlaced(l) /\ lane'[l] \in LaneStates
      /\ Recorded \in Nat /\ Recorded' \in Nat
  <2>1. Sized /\ Staged
    BY DEF IInv
  <2> QED
    BY <2>1, Lasting, StillKind DEF Sized
<1>2. /\ rows.bad \in Nat /\ rows'.bad \in Nat /\ W \in Nat /\ V \in Nat
      /\ T.lanes \in Nat /\ (Working = {} => W = 0) /\ (Working # {} => W > 0)
      /\ V <= T.lanes /\ (Working' = {} => V = 0)
  <2>1. W \in Nat /\ (Working = {} => W = 0) /\ (Working # {} => W > 0)
    BY <1>1, ThoseFinite DEF Working
  <2>2. IsFiniteSet(Mine) /\ Working' \in SUBSET Mine /\ Cardinality(Mine) = T.lanes /\ T.lanes \in Nat
    BY <1>1, Ours DEF Working, Those, Kind
  <2>3. V \in Nat /\ V <= T.lanes
    BY <2>2, FS_Subset, FS_CardinalityType
  <2>4. Typed /\ Typed'
    BY <1>1, NextSized DEF Sized, Base
  <2>5. rows.bad \in Nat /\ rows'.bad \in Nat
    BY <2>4 DEF Typed
  <2> QED
    BY <2>1, <2>2, <2>3, <2>5, FS_EmptySet
<1>3. ASSUME stage = "run" PROVE Goal
  <2>1. PICK k \in Nat : Recorded + W = k * T.lanes
    BY <1>3 DEF Stopping
  <2>2. Working # {} => rows.bad + W <= T.lanes
    BY <1>3 DEF Stopping
  <2>3. ASSUME Recorded' + V = Recorded + W, rows'.bad + V <= rows.bad + W, W > 0 PROVE Goal
    BY <1>2, <2>1, <2>2, <2>3
  <2>4. ASSUME NEW l \in Mine, NEW end \in Ends, Ending(l, end), EndOf(l, end) PROVE Goal
    <3>1. lane[l].pc \in Pcs \ {"idle", "over"} /\ \A j \in Lanes \ {l} : lane'[j] = lane[j]
      BY <1>1, <2>4, EndingLane DEF Ending, Pcs
    <3>2. lane'[l] = Moved(l, "idle")
      <4>1. After(l, end) = Moved(l, "idle")
        BY <1>1, OtherCases
      <4> QED
        BY <1>1, <2>4, <4>1, EndingLane
    <3>3. lane'[l].pc \notin Pcs \ {"idle", "over"}
      BY <1>1, <3>2, MovedTyped DEF Pcs
    <3>4. V = W - 1 /\ W > 0
      BY <1>1, <3>1, <3>3, OneMoves DEF Working
    <3>5. Recorded' = Recorded + 1 /\ (rows'.bad = rows.bad \/ rows'.bad = rows.bad + 1)
      BY <1>1, <2>4, OneRow
    <3> QED
      BY <1>1, <1>2, <2>3, <3>4, <3>5
  <2>5. ASSUME NEW l \in Mine, Admit(l) \/ Queue(l) PROVE Goal
    <3>1. lane[l].pc \in Pcs \ {"idle", "over"} /\ rows' = rows
      BY <2>5 DEF Admit, Queue, Pcs
    <3>2. lane'[l].pc \in Pcs \ {"idle", "over"} /\ \A j \in Lanes \ {l} : lane'[j] = lane[j]
      BY <1>1, <2>5, AdmitSized, QueueSized DEF Pcs
    <3>3. V = W /\ W > 0
      BY <1>1, <3>1, <3>2, OneMoves DEF Working
    <3>4. Recorded' = Recorded
      BY <3>1 DEF Recorded
    <3> QED
      BY <1>1, <1>2, <2>3, <3>1, <3>3, <3>4
  <2>6. ASSUME NEW l \in Mine, Release(l) \/ Publish(l) PROVE Goal
    BY <1>1, <2>6 DEF Release, Publish, LanePlaced
  <2>7. ASSUME Working' = Working, rows' = rows PROVE Goal
    <3>1. V = W /\ Recorded' = Recorded
      BY <2>7 DEF Recorded
    <3> QED
      BY <1>2, <2>1, <2>2, <2>7, <3>1
  <2>8. ASSUME NEW l \in Mine, Launch(l) PROVE Goal
    <3>1. /\ At("idle") = Mine /\ ~BatchesOver /\ Launches(l) = Mine
          /\ lane' = [j \in Lanes |-> IF j \in Launches(l) THEN [lane[j] EXCEPT !.pc = "call"] ELSE lane[j]]
          /\ rows' = rows
      BY <1>3, <2>8 DEF Launch, Launches
    <3>2. Working = {} /\ rows.bad = 0
      <4>1. ~ (rows.bad > 0)
        BY <3>1 DEF BatchesOver
      <4>2. Working = {}
        BY <3>1 DEF Working, Those, At
      <4> QED
        BY <1>2, <4>1, <4>2
    <3>3. \A j \in Mine : lane'[j].pc = "call"
      BY <1>1, <3>1 DEF LaneStates
    <3>4. Working' = Mine
      BY <1>1, <3>3 DEF Working, Those, Pcs
    <3>5. V = T.lanes
      BY <1>1, <3>4, Ours
    <3>6. W = 0 /\ Recorded' = Recorded
      BY <1>2, <3>1, <3>2 DEF Recorded
    <3>7. Recorded' + V = (k + 1) * T.lanes
      <4>1. Recorded' + V = k * T.lanes + T.lanes
        BY <1>1, <1>2, <2>1, <3>5, <3>6
      <4>2. \A n \in Nat : k * n + n = (k + 1) * n
        OBVIOUS
      <4> QED
        BY <1>2, <4>1, <4>2
    <3>8. k + 1 \in Nat
      OBVIOUS
    <3> QED
      BY <1>2, <3>1, <3>2, <3>5, <3>7, <3>8
  <2>9. ASSUME NEW l \in Mine, Silent(l) PROVE Goal
    <3>1. CASE Launch(l)
      BY <2>8, <3>1
    <3>2. CASE Leave(l)
      <4>1. At("idle") = Mine /\ rows' = rows
        BY <3>2 DEF Leave, Leaves
      <4>2. \A j \in Mine : lane'[j].pc = "over"
        BY <1>1, <3>2, <4>1 DEF Leave, At, LaneStates
      <4>3. Working = {} /\ Working' = {}
        BY <1>1, <4>1, <4>2 DEF Working, Those, At
      <4> QED
        BY <2>7, <4>1, <4>3
    <3>3. CASE Resume(l)
      BY <1>1, <3>3 DEF Resume, LanePlaced
    <3> QED
      BY <2>9, <3>1, <3>2, <3>3 DEF Silent
  <2>10. ASSUME lane' = lane, rows' = rows PROVE Goal
    <3>1. Working' = Working
      BY <1>1, <2>10 DEF Working, Those
    <3> QED
      BY <2>7, <2>10, <3>1
  <2>11. ASSUME NEW l \in Lanes, Reaped(l) PROVE Goal
    BY <1>1, <2>10, <2>11, ReapedSized
  <2>12. ASSUME Overall PROVE Goal
    <3>1. lane' = lane /\ rows' = rows
      BY <1>3, <2>12 DEF Overall, Begin, Tick, WarmedUp, Judge, CleanUp, vars
    <3> QED
      BY <2>10, <3>1
  <2> HIDE DEF Goal
  <2> QED
    BY <1>1, <2>4, <2>5, <2>6, <2>9, <2>11, <2>12, Cases
<1>4. ASSUME stage # "run" PROVE Goal
  <2>1. Begin \/ WarmedUp
    <3>1. stage' # stage
      BY <1>4
    <3>2. Begin \/ WarmedUp \/ Judge \/ CleanUp
      BY <1>1, <3>1, KeyStays
    <3> QED
      BY <1>4, <3>2 DEF Judge, CleanUp
  <2>2. T.warm = 2 /\ client # "portal"
    BY <1>1, KindOf DEF Kind
  <2>3. WarmedUp
    BY <2>1, <2>2 DEF Begin
  <2>4. /\ \A l \in Mine : lane[l].pc = "idle"
        /\ lane' = lane /\ rows' = [ok |-> 0, bad |-> 0]
    BY <1>1, <2>3, WarmIdle DEF WarmedUp
  <2>5. Working' = {} /\ Recorded' = 0
    BY <1>1, <2>4 DEF Working, Those, Recorded
  <2>6. Recorded' + V = 0 * T.lanes
    BY <1>2, <2>5
  <2> QED
    BY <2>5, <2>6
<1> HIDE DEF Goal
<1>5. Goal
  BY <1>3, <1>4
<1> QED
  BY <1>5 DEF Goal

\* What is not a whole number of batches is the answers of the last one.
LEMMA Remainder ==
  ASSUME NEW k \in Nat, NEW n \in Nat, NEW w \in 1..n, NEW r \in Nat, r + w = k * n
  PROVE  r % n = n - w
<1> DEFINE q == r \div n
           m == r % n
<1>1. n > 0 /\ q \in Int /\ m \in 0..(n - 1) /\ r = n * q + m
  OBVIOUS
<1> HIDE DEF q, m
<1>2. n * (k - q) = m + w
  BY <1>1
<1>3. k - q = 1
  <2>1. ASSUME k - q <= 0 PROVE FALSE
    <3>1. n * (k - q) <= 0
      BY <1>1, <2>1
    <3> QED
      BY <1>1, <1>2, <3>1
  <2>2. ASSUME k - q >= 2 PROVE FALSE
    <3>1. n * (k - q) >= n * 2
      BY <1>1, <2>2
    <3> QED
      BY <1>1, <1>2, <3>1
  <2> QED
    BY <1>1, <2>1, <2>2
<1>4. n * 1 = m + w
  BY <1>2, <1>3
<1> QED
  BY <1>1, <1>4 DEF m

\* Every step keeps the failures where they are to be.
LEMMA NextStopping == IInv /\ Stopping /\ [Next]_vars => Stopping'
<1> SUFFICES ASSUME IInv, Stopping, [Next]_vars PROVE Stopping'
  OBVIOUS
<1>1. T' = T
  <2>1. Sized
    BY DEF IInv
  <2> QED
    BY <2>1, Lasting
<1>2. T.shape = "serial" => rows'.bad <= Cardinality(Those({"over"})')
  BY SerialStops
<1>3. T.shape = "batches" /\ stage' = "run" =>
        /\ \E k \in Nat : Recorded' + Cardinality(Working') = k * T.lanes
        /\ Working' # {} => rows'.bad + Cardinality(Working') <= T.lanes
  BY BatchStops
<1> QED
  BY <1>1, <1>2, <1>3 DEF Stopping

\* A call is only sent by a lane that is to call.
LEMMA Senders ==
  ASSUME IInv, [Next]_vars, sent' > sent
  PROVE  \E l \in Mine : lane[l].pc = "call"
<1>1. Sized /\ Base /\ sent \in Nat
  BY Lasting DEF IInv, Sized
<1>2. sent' # sent
  BY <1>1
<1>3. ASSUME NEW l \in Mine, NEW end \in Ends, Ending(l, end) PROVE lane[l].pc = "call"
  BY <1>2, <1>3 DEF Ending
<1>4. ASSUME NEW l \in Mine, Admit(l) \/ Queue(l) PROVE lane[l].pc = "call"
  BY <1>2, <1>4 DEF Admit, Queue
<1>5. ASSUME NEW l \in Mine, Release(l) \/ Silent(l) \/ Publish(l) PROVE FALSE
  BY <1>2, <1>5 DEF Release, Silent, Launch, Leave, Resume, Publish
<1>6. ASSUME NEW l \in Lanes, Reaped(l) PROVE FALSE
  BY <1>2, <1>6 DEF Reaped, Reap, DropUnstarted
<1>7. ASSUME Overall PROVE FALSE
  <2>1. ~ (sent' = 0)
    BY <1>1
  <2> QED
    BY <1>2, <1>7, <2>1 DEF Overall, Begin, Tick, WarmedUp, Judge, CleanUp, vars
<1> QED
  BY <1>1, <1>3, <1>4, <1>5, <1>6, <1>7, Cases

\* What is sent is sent by a lane, or in a batch, without a failure.
LEMMA SendsUnfailed ==
  ASSUME IInv, Stopping, [Next]_vars, sent' > sent, stage = "run"
  PROVE  /\ T.shape = "serial" => rows.bad + Cardinality(Mine \ At("over")) <= T.lanes
         /\ T.shape = "batches" => rows.bad <= Recorded % T.lanes
<1>1. Base /\ Kind /\ T.lanes \in Nat /\ rows.bad \in Nat /\ Recorded \in Nat
  <2>1. Sized /\ Base /\ Kind /\ Recorded \in Nat
    BY Lasting DEF IInv, Sized
  <2>2. T.lanes \in Nat
    BY <2>1, ClientsAssumption DEF Kind
  <2>3. rows \in [ok : Nat, bad : Nat]
    BY <2>1 DEF Base, Typed
  <2> QED
    BY <2>1, <2>2, <2>3
<1>2. IsFiniteSet(Mine) /\ Cardinality(Mine) = T.lanes
  BY <1>1, Ours
<1>3. ASSUME T.shape = "serial" PROVE rows.bad + Cardinality(Mine \ At("over")) <= T.lanes
  <2>1. At("over") = Those({"over"}) /\ At("over") \subseteq Mine
    BY DEF At, Those
  <2>2. IsFiniteSet(At("over")) /\ Cardinality(At("over")) \in Nat
    BY <1>1, <2>1, ThoseFinite
  <2>3. Cardinality(Mine \ At("over")) = Cardinality(Mine) - Cardinality(Mine \cap At("over"))
    BY <1>2, <2>2, FS_Difference
  <2>4. Mine \cap At("over") = At("over")
    BY <2>1
  <2>5. Cardinality(Mine \ At("over")) = T.lanes - Cardinality(At("over"))
    BY <1>2, <2>3, <2>4
  <2>6. rows.bad <= Cardinality(At("over"))
    BY <1>3, <2>1 DEF Stopping
  <2> QED
    BY <1>1, <2>2, <2>5, <2>6
<1>4. ASSUME T.shape = "batches" PROVE rows.bad <= Recorded % T.lanes
  <2> DEFINE W == Cardinality(Working)
  <2>1. PICK k \in Nat : Recorded + W = k * T.lanes
    BY <1>4 DEF Stopping
  <2>2. Working # {}
    BY Senders DEF Working, Those, Pcs
  <2>3. rows.bad + W <= T.lanes
    BY <1>4, <2>2 DEF Stopping
  <2>4. W \in 1..T.lanes
    <3>1. W \in Nat /\ W <= T.lanes /\ W > 0
      BY <1>1, <2>2, ThoseFinite DEF Working
    <3> QED
      BY <1>1, <3>1
  <2> HIDE DEF W
  <2>5. Recorded % T.lanes = T.lanes - W
    <3> DEFINE n == T.lanes
               r == Recorded
    <3>1. n \in Nat /\ W \in 1..n /\ r \in Nat /\ r + W = k * n
      BY <1>1, <2>1, <2>4
    <3> HIDE DEF n, r
    <3>2. r % n = n - W
      BY ONLY <3>1, k \in Nat, Remainder
    <3> QED
      BY <3>2 DEF n, r
  <2> QED
    BY <1>1, <2>3, <2>4, <2>5
<1> QED
  BY <1>3, <1>4

\* A lane of a soak sends nothing after its own failure, and no batch is sent after
\* one with a failure, in any run of any client.
THEOREM Halting == Spec => StopsAtFailure
<1> DEFINE Guarded ==
      sent' > sent /\ stage = "run" =>
        CASE T.shape = "serial" -> rows.bad + Cardinality(Mine \ At("over")) <= T.lanes
          [] T.shape = "batches" -> rows.bad <= Recorded % T.lanes
          [] OTHER -> TRUE
<1>1. Init => Stopping
  <2> SUFFICES ASSUME Init PROVE Stopping
    OBVIOUS
  <2>1. Kind
    BY InitSized DEF Sized, Base
  <2>2. stage # "run" /\ rows.bad = 0
    BY DEF Init
  <2>3. Cardinality(Those({"over"})) \in Nat
    BY <2>1, ThoseFinite
  <2> QED
    BY <2>2, <2>3 DEF Stopping
<1>2. IInv /\ Stopping /\ [Next]_vars => [Guarded]_vars
  BY SendsUnfailed
<1>3. Spec => []IInv
  BY Invariance
<1>4. IInv /\ Stopping /\ [Next]_vars => Stopping'
  BY NextStopping
<1> QED
  BY <1>1, <1>2, <1>3, <1>4, PTL DEF Spec, StopsAtFailure

=============================================================================
