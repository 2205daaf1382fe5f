--------------------------- MODULE ModelAggregator ---------------------------
(***************************************************************************)
(* The chat side of the model aggregator (aggregator.py): admission, the   *)
(* proxied upstream exchange, and the way a slot is handed from the        *)
(* handler to the generator of a streaming response.                       *)
(*                                                                         *)
(* One asyncio event loop runs every handler, so an action is what runs    *)
(* between two awaits that can suspend.  `admit' and `release' take        *)
(* _admission_lock, but nothing inside either critical section awaits: the *)
(* lock is always free when it is asked for and acquiring it does not      *)
(* suspend, so both are parts of the action of their caller.               *)
(*                                                                         *)
(* The life of a client's request, and who owns its slot:                  *)
(*                                                                         *)
(*   idle -> refused -> idle                      no slot                  *)
(*   idle -> sending -> reading -> closing -> idle     the handler's       *)
(*   idle -> sending -> handed -> streaming -> closing -> idle   from      *)
(*        handed on, the generator's (slot_owned is False)                 *)
(*   streaming -> abandoned -> closing      the response task was          *)
(*        cancelled at a yield: the event loop closes the generator later  *)
(*   handed -> lost           the response was dropped before the          *)
(*        generator's first step: its finally block never runs             *)
(*                                                                         *)
(* A definition whose name has the form X_Fault is X with a plausible bug. *)
(* No action uses it: it is there to be put in X's place, to see that the  *)
(* properties notice.                                                      *)
(***************************************************************************)
EXTENDS Naturals, FiniteSets

CONSTANTS Clients,    \* clients, each with one request at a time
          Models,     \* the model IDs that backends may report
          Capacity,   \* OPENROUTER_CONCURRENCY
          Limits,     \* MODEL_CONCURRENCY_LIMITS, a partial function
          NoModel     \* no model: the `model' of a client without a slot

VARIABLES phase,           \* phase[c]: where the handler of c is suspended
          model,           \* model[c]: its local variable `model'
          streamed,        \* clients whose payload asked for a stream
          upstream,        \* clients with an open upstream response
          gone,            \* clients that have disconnected
          stalled,         \* connected clients whose connection takes no more data
          finished,        \* clients whose backend has nothing more to send
          inflight,        \* _inflight
          model_inflight,  \* _model_inflight, a partial function
          ready            \* the keys of _model_backends

requests == <<phase, model, streamed, upstream, gone, stalled, finished>>
counters == <<inflight, model_inflight>>
chatVars == <<requests, counters>>
vars == <<chatVars, ready>>

\* The clients are finitely many, the limit is an int.
ASSUME ClientsAssumption == IsFiniteSet(Clients)
ASSUME CapacityAssumption == Capacity \in Nat
\* The import-time check of MODEL_CONCURRENCY_LIMITS (positive integers).
ASSUME LimitsAssumption ==
  /\ Limits \in [DOMAIN Limits -> Nat \ {0}]
  /\ DOMAIN Limits \subseteq Models
ASSUME NoModelAssumption == NoModel \notin Models

HandlerOwned == {"sending", "reading", "closing"}
GeneratorOwned == {"handed", "streaming", "abandoned", "lost"}
Holding == HandlerOwned \union GeneratorOwned
Phases == {"idle", "refused"} \union Holding

Holders == {c \in Clients : phase[c] \in Holding}
HoldersOf(m) == {c \in Holders : model[c] = m}

Init ==
  /\ phase = [c \in Clients |-> "idle"]
  /\ model = [c \in Clients |-> NoModel]
  /\ streamed = {} /\ upstream = {} /\ gone = {} /\ stalled = {} /\ finished = {}
  /\ inflight = 0
  /\ model_inflight = [m \in {} |-> 0]
  /\ ready = {}

\* _model_inflight.get(m, 0)
ModelInflight(m) == IF m \in DOMAIN model_inflight THEN model_inflight[m] ELSE 0

Room_OffByOne(m) ==
  /\ inflight <= Capacity
  /\ m \in DOMAIN Limits => ModelInflight(m) < Limits[m]

Room_GlobalOnly(m) == inflight < Capacity

\* The two conditions under which admit returns True.
Room(m) ==
  /\ inflight < Capacity
  /\ m \in DOMAIN Limits => ModelInflight(m) < Limits[m]

Admit(m) ==
  /\ inflight' = inflight + 1
  /\ model_inflight' = [k \in DOMAIN model_inflight \union {m} |->
                          IF k = m THEN ModelInflight(m) + 1 ELSE model_inflight[k]]

Release_KeepsZero(m) ==
  /\ inflight' = inflight - 1
  /\ model_inflight' = [model_inflight EXCEPT ![m] = @ - 1]

Release_Twice(m) ==
  /\ inflight' = inflight - 2
  /\ model_inflight' =
       IF model_inflight[m] = 1
       THEN [k \in DOMAIN model_inflight \ {m} |-> model_inflight[k]]
       ELSE [model_inflight EXCEPT ![m] = @ - 1]

\* A count that falls to zero loses its key.
Release(m) ==
  /\ inflight' = inflight - 1
  /\ model_inflight' =
       IF model_inflight[m] = 1
       THEN [k \in DOMAIN model_inflight \ {m} |-> model_inflight[k]]
       ELSE [model_inflight EXCEPT ![m] = @ - 1]

\* The handler, or the generator, of c returns: what it kept is gone.
Done(c) ==
  /\ phase' = [phase EXCEPT ![c] = "idle"]
  /\ model' = [model EXCEPT ![c] = NoModel]
  /\ streamed' = streamed \ {c}
  /\ upstream' = upstream \ {c}
  /\ gone' = gone \ {c}
  /\ stalled' = stalled \ {c}
  /\ finished' = finished \ {c}

-----------------------------------------------------------------------------
(* proxy_chat_completions up to `await _http_client.send'.  The body has   *)
(* been read; the lookup, the payload translation and the admission follow *)
(* without a suspension.  A request that is answered 400 or 404 (or 401 or *)
(* 503 on the OpenRouter route) leaves no trace and is no step here.       *)

Accept(c, m, stream) ==
  /\ phase[c] = "idle" /\ m \in ready /\ Room(m)
  /\ Admit(m)
  /\ phase' = [phase EXCEPT ![c] = "sending"]
  /\ model' = [model EXCEPT ![c] = m]
  /\ streamed' = IF stream THEN streamed \union {c} ELSE streamed
  /\ UNCHANGED <<upstream, gone, stalled, finished>>

\* HTTP 429 with Retry-After.
Refuse(c, m) ==
  /\ phase[c] = "idle" /\ m \in ready /\ ~Room(m)
  /\ phase' = [phase EXCEPT ![c] = "refused"]
  /\ UNCHANGED <<model, streamed, upstream, gone, stalled, finished, counters>>

\* The 429 has been delivered.
Refused(c) == phase[c] = "refused" /\ Done(c) /\ UNCHANGED counters

\* The backend's status line and headers: a stream is handed over, any
\* other body is read by the handler itself.
SendAnswered(c) ==
  /\ phase[c] = "sending"
  /\ upstream' = upstream \union {c}
  /\ phase' = [phase EXCEPT ![c] = IF c \in streamed THEN "handed" ELSE "reading"]
  /\ UNCHANGED <<model, streamed, gone, stalled, finished, counters>>

\* send raises (connect, write or pool timeout, connection reset), or the
\* handler is cancelled inside it: upstream is still None.
SendFailed(c) ==
  /\ phase[c] = "sending"
  /\ Done(c) /\ Release(model[c])

\* aread ended, or failed, or its JSON is bad, or the handler was cancelled:
\* every way out goes through the finally block and its aclose.
ReadEnded(c) ==
  /\ phase[c] = "reading" /\ c \in finished
  /\ phase' = [phase EXCEPT ![c] = "closing"]
  /\ UNCHANGED <<model, streamed, upstream, gone, stalled, finished, counters>>

ReadCancelled(c) ==
  /\ phase[c] = "reading"
  /\ phase' = [phase EXCEPT ![c] = "closing"]
  /\ UNCHANGED <<model, streamed, upstream, gone, stalled, finished, counters>>

\* aclose returned, or raised: release follows either way.
Closed(c) ==
  /\ phase[c] = "closing"
  /\ Done(c) /\ Release(model[c])

-----------------------------------------------------------------------------
(* The streaming response and its generator.                               *)

StreamStarted_IfPresent(c) ==
  /\ phase[c] = "handed" /\ c \notin gone \union stalled
  /\ phase' = [phase EXCEPT ![c] = "streaming"]
  /\ UNCHANGED <<model, streamed, upstream, gone, stalled, finished, counters>>

\* The response headers are written, then the generator is asked for a chunk.
StreamStarted(c) ==
  /\ phase[c] = "handed" /\ c \notin stalled
  /\ phase' = [phase EXCEPT ![c] = "streaming"]
  /\ UNCHANGED <<model, streamed, upstream, gone, stalled, finished, counters>>

\* The response task is cancelled while it still waits to send the response
\* headers: nothing ever steps the generator.
StreamDropped(c) ==
  /\ phase[c] = "handed" /\ c \in gone
  /\ phase' = [phase EXCEPT ![c] = "lost"]
  /\ UNCHANGED <<model, streamed, upstream, gone, stalled, finished, counters>>

\* aiter_raw is exhausted or raises: the generator is asked for its next chunk
\* only when the connection to the client has taken the last one.
StreamEnded(c) ==
  /\ phase[c] = "streaming" /\ c \in finished /\ c \notin stalled
  /\ phase' = [phase EXCEPT ![c] = "closing"]
  /\ UNCHANGED <<model, streamed, upstream, gone, stalled, finished, counters>>

StreamCancelled_OnNextChunk(c) ==
  /\ phase[c] = "streaming" /\ c \in gone /\ c \in finished
  /\ phase' = [phase EXCEPT ![c] = "closing"]
  /\ UNCHANGED <<model, streamed, upstream, gone, stalled, finished, counters>>

\* The disconnect cancels the response task: inside the generator, which
\* then runs its finally block, or at a yield, which leaves the generator
\* suspended until the event loop's finalizer closes it.
StreamCancelled(c) ==
  /\ phase[c] = "streaming" /\ c \in gone
  /\ \E next \in {"closing", "abandoned"} : phase' = [phase EXCEPT ![c] = next]
  /\ UNCHANGED <<model, streamed, upstream, gone, stalled, finished, counters>>

GeneratorFinalized(c) ==
  /\ phase[c] = "abandoned"
  /\ phase' = [phase EXCEPT ![c] = "closing"]
  /\ UNCHANGED <<model, streamed, upstream, gone, stalled, finished, counters>>

-----------------------------------------------------------------------------
(* The clients and the backends.                                           *)

Disconnect(c) ==
  /\ phase[c] \in Holding /\ c \notin gone
  /\ gone' = gone \union {c}
  /\ stalled' = stalled \ {c}
  /\ UNCHANGED <<phase, model, streamed, upstream, finished, counters>>

\* The client stops reading, or reads again.  While its connection takes no
\* data the server's send waits, with no timeout, and the generator stays
\* suspended at its yield.
Stall(c) ==
  /\ phase[c] \in {"handed", "streaming"} /\ c \notin gone \union stalled
  /\ stalled' = stalled \union {c}
  /\ UNCHANGED <<phase, model, streamed, upstream, gone, finished, counters>>

ReadsAgain(c) ==
  /\ phase[c] \in {"handed", "streaming"} /\ c \in stalled
  /\ stalled' = stalled \ {c}
  /\ UNCHANGED <<phase, model, streamed, upstream, gone, finished, counters>>

\* The backend has sent its last byte, or the connection to it broke.
BackendFinished(c) ==
  /\ c \in upstream /\ c \notin finished
  /\ finished' = finished \union {c}
  /\ UNCHANGED <<phase, model, streamed, upstream, gone, stalled, counters>>

\* Discovery replaces _model_backends while requests are in flight.
Rediscovered ==
  /\ ready' \in SUBSET Models
  /\ UNCHANGED chatVars

\* The pod is killed and started again: all of this is memory.
Restart ==
  /\ phase' = [c \in Clients |-> "idle"]
  /\ model' = [c \in Clients |-> NoModel]
  /\ streamed' = {} /\ upstream' = {} /\ gone' = {} /\ stalled' = {} /\ finished' = {}
  /\ inflight' = 0
  /\ model_inflight' = [m \in {} |-> 0]

\* What a step of c's handler, generator, connection or backend may be.
ClientStep(c) ==
  \/ \E m \in Models, stream \in BOOLEAN : Accept(c, m, stream)
  \/ \E m \in Models : Refuse(c, m)
  \/ Refused(c) \/ SendAnswered(c) \/ SendFailed(c)
  \/ ReadEnded(c) \/ ReadCancelled(c) \/ Closed(c)
  \/ StreamStarted(c) \/ StreamDropped(c) \/ StreamEnded(c)
  \/ StreamCancelled(c) \/ GeneratorFinalized(c)
  \/ Disconnect(c) \/ Stall(c) \/ ReadsAgain(c) \/ BackendFinished(c)

Next ==
  \/ \E c \in Clients : ClientStep(c) /\ UNCHANGED ready
  \/ Rediscovered
  \/ Restart /\ ready' = {}

Spec == Init /\ [][Next]_vars

\* The event loop runs what is ready to run.  Nothing is assumed of clients
\* and backends: not that a backend ever finishes (the client of the backends
\* has no read timeout), and not that a client ever reads (a send to it has no
\* timeout either).
HandlerStep(c) ==
  /\ \/ Refused(c) \/ ReadEnded(c) \/ Closed(c) \/ StreamStarted(c)
     \/ StreamEnded(c) \/ StreamCancelled(c) \/ GeneratorFinalized(c)
  /\ UNCHANGED ready

Fairness == \A c \in Clients : WF_vars(HandlerStep(c))
FairSpec == Spec /\ Fairness

-----------------------------------------------------------------------------
(* Properties.                                                             *)

TypeOK ==
  /\ phase \in [Clients -> Phases]
  /\ model \in [Clients -> Models \union {NoModel}]
  /\ streamed \subseteq Clients /\ upstream \subseteq Clients
  /\ gone \subseteq Clients /\ stalled \subseteq Clients /\ finished \subseteq Clients
  /\ inflight \in Nat
  /\ DOMAIN model_inflight \subseteq Models
  /\ model_inflight \in [DOMAIN model_inflight -> Nat]
  /\ ready \subseteq Models

\* The counters that admit and release keep are the slots really held, over
\* every interleaving of admissions, hand-overs, cancellations and failures:
\* in all, and per model, with no key left at zero (release deletes it).
SlotAccounting ==
  /\ inflight = Cardinality(Holders)
  /\ \A m \in Models : ModelInflight(m) = Cardinality(HoldersOf(m))
  /\ \A m \in DOMAIN model_inflight : model_inflight[m] > 0

\* "The chat route admits at most OPENROUTER_MAX_CONCURRENCY requests", and
\* a limited model at most its limit: the exchanges in progress with the
\* backends, counted from the exchanges and not from the counters.
Exchanges == {c \in Clients : phase[c] = "sending" \/ c \in upstream}
ExchangeBound ==
  /\ Cardinality(Exchanges) <= Capacity
  /\ \A m \in DOMAIN Limits :
       Cardinality({c \in Exchanges : model[c] = m}) <= Limits[m]

\* Once the client of a running stream is gone, or its backend has finished,
\* the slot comes back.  One thing can prevent it, a client that stays connected
\* and does not read; and a client that is gone is none of these.
EndedStreamReleases ==
  \A c \in Clients :
    (phase[c] \in {"streaming", "abandoned", "closing"}
       /\ c \in gone \union finished) ~> (phase[c] \notin Holding \/ c \in stalled \ gone)

\* A slot outlives the answer of its backend in two ways only: the response was
\* dropped before its generator ran, or its client is connected and does not
\* read.  Any other exchange whose backend has finished gives it back.
FinishedReleasesOrLost ==
  \A c \in Clients :
    (c \in finished) ~> (phase[c] \notin Holding \/ phase[c] = "lost" \/ c \in stalled \ gone)

\* The pool that admission implements: what each client holds, and what it
\* has been told.
SlotOf == [c \in Clients |-> IF phase[c] \in Holding THEN model[c] ELSE NoModel]
VerdictOf == [c \in Clients |-> IF phase[c] = "idle" THEN "none"
                                ELSE IF phase[c] = "refused" THEN "out" ELSE "in"]
Pool == INSTANCE SlotPool WITH holding <- SlotOf, verdict <- VerdictOf

\* The handler with its counters behaves as the pool: a slot is granted, and
\* a 429 sent, exactly when the slots really held say so.
PoolSpec == Pool!Spec
=============================================================================
