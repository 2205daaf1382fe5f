---------------------------- MODULE IncidentHarness ----------------------------
(***************************************************************************)
(* The incident harness: Alertmanager posts groups of alerts, each group   *)
(* becomes the background tasks of one response, and each task drives one  *)
(* incident through enrich, classify, act and notify.  The tasks of one    *)
(* response run one after the other, those of different responses          *)
(* interleave at every await: while Loki and Prometheus, then the LLM,     *)
(* then Slack are waited for.  From the LLM's answer to the call of Slack  *)
(* nothing awaits, restart_pod included.                                   *)
(*                                                                         *)
(* The pods are the successive pods of one Deployment, by number: a new    *)
(* pod has a new name.  Pod 0 stands for an alert that names no pod.       *)
(***************************************************************************)
EXTENDS Naturals, Sequences, SequencesExt

CONSTANTS Webhooks,     \* the webhook requests Alertmanager makes
          MaxPods,      \* bound: the pods of the Deployment, one at a time
          AutoRestart   \* cfg.auto_restart

ASSUME HarnessAssumption ==
  MaxPods \in Nat \ {0} /\ AutoRestart \in BOOLEAN

VARIABLES
  queue,      \* per webhook, its tasks: the pod of each alert and its number
  state,      \* per webhook, the State in which the head incident awaits
  severity,   \* per webhook, the severity of that incident once classified
  live,       \* the pod that runs
  \* history
  received,   \* the webhooks that were answered
  accepted,   \* the tasks that were added, as webhook and number
  posted,     \* those for which Slack was called
  lost,       \* those that a restart of the harness has dropped
  unreadable, \* those whose severity is no string
  deleted     \* the deletions: the pod gone and the pod alerted

history == <<received, accepted, posted, lost, unreadable, deleted>>
harnessVars == <<queue, state, severity, live, history>>

\* What matters of an answer.  The LLM may write any JSON value for a field.
Severities == {"high", "low", "not a string"}
Diagnoses == [category : {"crash", "other"}, severity : Severities, auto_restartable : BOOLEAN]
\* The fallback of classify: unreachable, or an answer without usable JSON.
Unavailable == [category |-> "other", severity |-> "low", auto_restartable |-> FALSE]

HarnessInit ==
  /\ queue = [w \in Webhooks |-> <<>>]
  /\ state = [w \in Webhooks |-> "ENRICH"]
  /\ severity = [w \in Webhooks |-> "low"]
  /\ live = 1
  /\ received = {} /\ accepted = {} /\ posted = {} /\ lost = {}
  /\ unreadable = {} /\ deleted = {}

Task(w) == <<w, Head(queue[w]).n>>
Queued(w) == {<<w, queue[w][i].n>> : i \in DOMAIN queue[w]}
At(w, s) == queue[w] # <<>> /\ state[w] = s

-----------------------------------------------------------------------------
\* alertmanager_webhook: one task for each alert that is not resolved, in their
\* order; kept holds the positions of these alerts.
Receive(w) ==
  /\ w \notin received
  /\ received' = received \union {w}
  /\ \E alerts \in BoundedSeq([pod : 0..live, status : {"firing", "resolved"}], 2),
        kept \in BoundedSeq(1..2, 2) :
       /\ Range(kept) = {i \in DOMAIN alerts : alerts[i].status = "firing"}
       /\ \A i, j \in DOMAIN kept : i < j => kept[i] < kept[j]
       /\ queue' = [queue EXCEPT ![w] =
                       [i \in DOMAIN kept |-> [pod |-> alerts[kept[i]].pod, n |-> kept[i]]]]
       /\ accepted' = accepted \union {<<w, i>> : i \in Range(kept)}
  /\ UNCHANGED <<state, severity, live, posted, lost, unreadable, deleted>>

\* Loki and Prometheus have answered, failed or timed out: all the same.
Enriched(w) ==
  /\ At(w, "ENRICH")
  /\ state' = [state EXCEPT ![w] = "CLASSIFY"]
  /\ UNCHANGED <<queue, severity, live, history>>

\* The safety gate of _act.
Gate(d) == AutoRestart /\ d.auto_restartable /\ d.category = "crash"

RestartPod_Running(w) ==
  /\ live' = live + 1
  /\ deleted' = deleted \union {[pod |-> live, alerted |-> Head(queue[w]).pod]}

\* Deletes by name; a pod that is gone is an error the report mentions.
RestartPod(w) ==
  IF Head(queue[w]).pod = live
  THEN live' = live + 1 /\ deleted' = deleted \union {[pod |-> live, alerted |-> live]}
  ELSE UNCHANGED <<live, deleted>>

\* The LLM has answered, or 30 s are over: ACT follows at once, then NOTIFY
\* calls Slack, unless post_triage cannot take upper() of the severity.
\* Slack's answer is only awaited.
Classified(w) ==
  /\ At(w, "CLASSIFY")
  /\ state' = [state EXCEPT ![w] = "NOTIFY"]
  /\ \E d \in Diagnoses \union {Unavailable} :
       /\ severity' = [severity EXCEPT ![w] = d.severity]
       /\ IF Gate(d) /\ live < MaxPods THEN RestartPod(w) ELSE UNCHANGED <<live, deleted>>
       /\ IF d.severity = "not a string"
          THEN unreadable' = unreadable \union {Task(w)} /\ UNCHANGED posted
          ELSE posted' = posted \union {Task(w)} /\ UNCHANGED unreadable
  /\ UNCHANGED <<queue, received, accepted, lost>>

EndTask_StopsBatch(w) ==
  /\ queue' = [queue EXCEPT ![w] = IF severity[w] = "low" THEN Tail(@) ELSE <<>>]
  /\ state' = [state EXCEPT ![w] = "ENRICH"]
  /\ severity' = [severity EXCEPT ![w] = "low"]

\* _run_triage catches whatever a task raises; the next one begins.
EndTask(w) ==
  /\ queue' = [queue EXCEPT ![w] = Tail(@)]
  /\ state' = [state EXCEPT ![w] = "ENRICH"]
  /\ severity' = [severity EXCEPT ![w] = "low"]

\* Slack has answered, failed or was not called.  The page for a high
\* severity raises: build_pagerduty_payload is not implemented.
Reported(w) ==
  /\ At(w, "NOTIFY")
  /\ EndTask(w)
  /\ UNCHANGED <<live, history>>

Triage(w) == Enriched(w) \/ Classified(w) \/ Reported(w)

\* The pod of the harness restarts: tasks are only in memory.
Restart ==
  /\ \E w \in Webhooks : queue[w] # <<>>
  /\ lost' = lost \union UNION {Queued(w) : w \in Webhooks}
  /\ queue' = [w \in Webhooks |-> <<>>]
  /\ state' = [w \in Webhooks |-> "ENRICH"]
  /\ severity' = [w \in Webhooks |-> "low"]
  /\ UNCHANGED <<live, received, accepted, posted, unreadable, deleted>>

\* The Deployment replaces its pod for reasons of its own.
PodReplaced ==
  /\ live < MaxPods /\ live' = live + 1
  /\ UNCHANGED <<queue, state, severity, history>>

HarnessNext == (\E w \in Webhooks : Receive(w) \/ Triage(w)) \/ Restart \/ PodReplaced
HarnessSpec == HarnessInit /\ [][HarnessNext]_harnessVars

\* Every call of a triage has a timeout: 10 s for Loki, for each query of
\* Prometheus and for Slack, 30 s for the LLM.
FairHarnessSpec == HarnessSpec /\ \A w \in Webhooks : WF_harnessVars(Triage(w))

-----------------------------------------------------------------------------
(* Properties.                                                             *)

Tasks == Webhooks \X (1..2)

HarnessTypeOK ==
  /\ queue \in [Webhooks -> BoundedSeq([pod : 0..MaxPods, n : 1..2], 2)]
  /\ state \in [Webhooks -> {"ENRICH", "CLASSIFY", "NOTIFY"}]
  /\ severity \in [Webhooks -> Severities]
  /\ live \in 1..MaxPods
  /\ received \subseteq Webhooks /\ accepted \subseteq Tasks /\ posted \subseteq Tasks
  /\ lost \subseteq Tasks /\ unreadable \subseteq Tasks
  /\ deleted \subseteq [pod : 1..MaxPods, alerted : 0..MaxPods]

\* The pod that a triage deletes is the one its alert fired for, not one that
\* has replaced it while the triage waited for Loki and the LLM.
DeletesWhatFired == \A d \in deleted : d.pod = d.alerted

\* At any moment an accepted alert has been taken to Slack, or had an unreadable
\* severity, or was lost in a restart, or is still in its queue: no end of another
\* triage, and no webhook, makes a task vanish.
NoneVanishes ==
  accepted \subseteq posted \union unreadable \union lost \union UNION {Queued(w) : w \in Webhooks}

\* The safety of the triages: their state keeps its type, they delete only what
\* fired, and none of them vanishes.
TriageSound == HarnessTypeOK /\ DeletesWhatFired /\ NoneVanishes

\* Every accepted alert whose severity can be read reaches Slack, whatever
\* else fails, for it and for the other alerts of its group; only a restart
\* of the harness drops one.
Notified == \A t \in Tasks : (t \in accepted) ~> (t \in posted \union lost \union unreadable)

\* "No state failure blocks the Slack message."
\* An LLM answer whose severity is no string does.
AlwaysNotified == \A t \in Tasks : (t \in accepted) ~> (t \in posted \union lost)
=============================================================================
