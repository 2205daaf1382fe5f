---------------------------- MODULE OpenLoopMeasure ----------------------------
(***************************************************************************)
(* One open-loop measurement (measure in run_batching_open_loop.py): a     *)
(* launcher that creates one task per request at scheduled times, however  *)
(* many are outstanding; the tasks; a monitor that stops the run when the  *)
(* server or the host is in trouble.  All run in one event loop: a step    *)
(* below goes from one await to the next.                                  *)
(***************************************************************************)
EXTENDS Naturals

CONSTANT Count  \* the requests asked for
ASSUME CountAssumption == Count \in Nat \ {0}

Requests == 1..Count

VARIABLES
  main,      \* the launcher: launching, waiting for the tasks, cancelling, gathering, finished
  launched,  \* how many requests have been launched
  task,      \* per request: none, created, running, cancelling, ended, dropped
  record,    \* per request, the status of its line in requests.jsonl, or "none"
  stop,      \* the event
  reasons,   \* who is in stop_reasons
  monitor    \* the monitor: "polling", "judging" or "ended"

measureVars == <<main, launched, task, record, stop, reasons, monitor>>

MeasureInit ==
  /\ main = "launching" /\ launched = 0
  /\ task = [r \in Requests |-> "none"]
  /\ record = [r \in Requests |-> "none"]
  /\ stop = FALSE /\ reasons = {}
  /\ monitor = "polling"

\* The set that done callbacks empty.
Outstanding == {r \in Requests : task[r] \in {"created", "running", "cancelling"}}

Stopped(who) == stop' = TRUE /\ reasons' = reasons \union {who}

-----------------------------------------------------------------------------
(* The launcher.                                                           *)

\* After k launches without an await: the launcher sleeps until the next
\* arrival is due only if it is not late already.  A task does not begin
\* before the launcher awaits.
Created(k) == [r \in Requests |-> IF r \in (launched + 1)..(launched + k) THEN "created" ELSE task[r]]

Launch(k) ==
  /\ main = "launching" /\ ~stop
  /\ launched + k <= Count
  /\ launched' = launched + k
  /\ task' = Created(k)

\* On time, then asleep or at the end of the list.
LaunchOnTime ==
  /\ \E k \in 1..Count : Launch(k)
  /\ main' = IF launched' = Count THEN "waiting" ELSE "launching"
  /\ UNCHANGED <<record, stop, reasons, monitor>>

\* The last one more than 250 ms late: the run is stopped, and nothing awaits
\* before the cancellations.
Cancelled(ts) == [r \in Requests |-> CASE ts[r] = "created" -> "dropped"
                                       [] ts[r] = "running" -> "cancelling"
                                       [] OTHER -> ts[r]]
LaunchLate_Unbounded ==
  /\ main = "launching" /\ ~stop
  /\ \E k \in 1..(Count + 1) : launched' = launched + k /\ task' = Cancelled(Created(k))
  /\ Stopped("dispatch")
  /\ main' = "gathering"
  /\ UNCHANGED <<record, monitor>>

LaunchLate ==
  /\ main = "launching" /\ ~stop
  /\ \E k \in 1..Count : /\ launched + k <= Count
                         /\ launched' = launched + k
                         /\ task' = Cancelled(Created(k))
  /\ Stopped("dispatch")
  /\ main' = "gathering"
  /\ UNCHANGED <<record, monitor>>

\* stop is set while the launcher sleeps or waits for the tasks.  A task that
\* is cancelled before its first step never runs a line of its body.
CancelAll ==
  /\ main \in {"launching", "waiting"} /\ stop
  /\ task' = Cancelled(task)
  /\ main' = "gathering"
  /\ UNCHANGED <<launched, record, stop, reasons, monitor>>

Finish_Ungathered ==
  /\ \/ main = "waiting" /\ ~stop /\ Outstanding = {}
     \/ main = "gathering"
  /\ main' = "finished"
  /\ stop' = TRUE /\ monitor' = "ended"
  /\ UNCHANGED <<launched, task, record, reasons>>

Finish_AllLaunched ==
  /\ main \in {"waiting", "gathering"}
  /\ Outstanding = {} /\ launched = Count
  /\ main' = "finished"
  /\ stop' = TRUE /\ monitor' = "ended"
  /\ UNCHANGED <<launched, task, record, reasons>>

\* gather, then the monitor is cancelled, and the summary is made.
Finish ==
  /\ \/ main = "waiting" /\ ~stop
     \/ main = "gathering"
  /\ Outstanding = {}
  /\ main' = "finished"
  /\ stop' = TRUE /\ monitor' = "ended"
  /\ UNCHANGED <<launched, task, record, reasons>>

-----------------------------------------------------------------------------
(* A request.                                                              *)

Begin(r) ==
  /\ task[r] = "created"
  /\ task' = [task EXCEPT ![r] = "running"]
  /\ UNCHANGED <<main, launched, record, stop, reasons, monitor>>

Write_Quiet(r, status) ==
  /\ record' = [record EXCEPT ![r] = status]
  /\ task' = [task EXCEPT ![r] = "ended"]
  /\ IF status \in {"completed", "invalid"} THEN UNCHANGED <<stop, reasons>> ELSE Stopped("request")
  /\ UNCHANGED <<main, launched, monitor>>

\* The finally block.  Anything but a complete answer of the right length
\* stops the run.
Write(r, status) ==
  /\ record' = [record EXCEPT ![r] = status]
  /\ task' = [task EXCEPT ![r] = "ended"]
  /\ IF status = "completed" THEN UNCHANGED <<stop, reasons>> ELSE Stopped("request")
  /\ UNCHANGED <<main, launched, monitor>>

\* Answered, answered with a wrong length, failed, or 60 s are over.  A
\* cancelled request may have run into its timeout first.
End(r) ==
  \/ task[r] = "running" /\ \E status \in {"completed", "invalid", "error", "timeout"} : Write(r, status)
  \/ task[r] = "cancelling" /\ \E status \in {"cancelled", "timeout"} : Write(r, status)

-----------------------------------------------------------------------------
(* The monitor: polls the endpoints, then judges what it has seen.         *)

Poll ==
  /\ monitor = "polling"
  /\ monitor' = IF stop THEN "ended" ELSE "judging"
  /\ UNCHANGED <<main, launched, task, record, stop, reasons>>

Judge ==
  /\ monitor = "judging"
  /\ monitor' = "polling"
  /\ (UNCHANGED <<stop, reasons>>) \/ Stopped("monitor")
  /\ UNCHANGED <<main, launched, task, record>>

MeasureNext ==
  \/ LaunchOnTime \/ LaunchLate \/ CancelAll \/ Finish
  \/ (\E r \in Requests : Begin(r) \/ End(r)) \/ Poll \/ Judge
MeasureSpec == MeasureInit /\ [][MeasureNext]_measureVars

\* The event loop runs what is ready; every request has its total timeout.
FairMeasureSpec ==
  /\ MeasureSpec
  /\ WF_measureVars(LaunchOnTime \/ LaunchLate)
  /\ WF_measureVars(CancelAll) /\ WF_measureVars(Finish)
  /\ \A r \in Requests : WF_measureVars(Begin(r)) /\ WF_measureVars(End(r))

\* summary['valid'], with the lengths and timings of completed requests.
Valid ==
  /\ {r \in Requests : record[r] = "completed"} = Requests
  /\ reasons = {}

-----------------------------------------------------------------------------
(* Properties.                                                             *)

Statuses == {"completed", "invalid", "error", "timeout", "cancelled"}

MeasureTypeOK ==
  /\ main \in {"launching", "waiting", "gathering", "finished"}
  /\ launched \in 0..Count
  /\ task \in [Requests -> {"none", "created", "running", "cancelling", "ended", "dropped"}]
  /\ record \in [Requests -> Statuses \union {"none"}]
  /\ stop \in BOOLEAN /\ reasons \subseteq {"request", "dispatch", "monitor"}
  /\ monitor \in {"polling", "judging", "ended"}

\* When a measurement returns, nothing of it is still running against the
\* server that the next one measures, and every request whose task ever ran
\* has its line in the file, however the run was stopped.
FinishedIsSettled ==
  main = "finished" =>
    /\ Outstanding = {}
    /\ \A r \in 1..launched : record[r] # "none" \/ task[r] = "dropped"

\* A measurement that is not valid says why, unless it is for its timings: a
\* request that failed, or was not even launched, leaves a stop reason.
InvalidHasReason == main = "finished" => (Valid \/ reasons # {})

\* A measurement ends, with the monitor dead or alive.
MeasureEnds == <>(main = "finished")

\* "All launched requests, including cancellations and timeouts, are written
\* to JSONL."
\* Those that are cancelled before their first step are not.
RecordsAllLaunched ==
  main = "finished" => \A r \in 1..launched : record[r] # "none"
=============================================================================
