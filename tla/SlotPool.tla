------------------------------ MODULE SlotPool ------------------------------
(***************************************************************************)
(* What admission promises, without counters: a pool of Capacity slots, of *)
(* which a limited model may occupy at most its own limit.  A client that  *)
(* asks is told at once whether it got a slot ("in") or not ("out"), and   *)
(* is told "out" only when the slots really held leave no room.  No client *)
(* ever waits for a slot.                                                  *)
(***************************************************************************)
EXTENDS Naturals, FiniteSets

CONSTANTS Clients,     \* who asks for slots
          Models,      \* what a slot is asked for
          Capacity,    \* how many slots there are
          Limits,      \* the limited models and their limits
          NoModel      \* not a model: what a client without a slot holds

VARIABLES holding,     \* holding[c]: the model c has a slot for, or NoModel
          verdict      \* verdict[c]: what c was told of its latest request

Holders == {c \in Clients : holding[c] # NoModel}
HoldersOf(m) == {c \in Clients : holding[c] = m}

Room(m) ==
  /\ Cardinality(Holders) < Capacity
  /\ m \in DOMAIN Limits => Cardinality(HoldersOf(m)) < Limits[m]

Init ==
  /\ holding = [c \in Clients |-> NoModel]
  /\ verdict = [c \in Clients |-> "none"]

Grant(c, m) ==
  /\ verdict[c] = "none" /\ Room(m)
  /\ holding' = [holding EXCEPT ![c] = m]
  /\ verdict' = [verdict EXCEPT ![c] = "in"]

Refuse(c, m) ==
  /\ verdict[c] = "none" /\ ~Room(m)
  /\ verdict' = [verdict EXCEPT ![c] = "out"]
  /\ UNCHANGED holding

\* The client goes back to having asked for nothing; a slot it held is free.
Finish(c) ==
  /\ verdict[c] # "none"
  /\ holding' = [holding EXCEPT ![c] = NoModel]
  /\ verdict' = [verdict EXCEPT ![c] = "none"]

\* The process that keeps the pool restarts and has forgotten every client.
Forget ==
  /\ holding' = [c \in Clients |-> NoModel]
  /\ verdict' = [c \in Clients |-> "none"]

Next ==
  \/ \E c \in Clients, m \in Models : Grant(c, m) \/ Refuse(c, m)
  \/ \E c \in Clients : Finish(c)
  \/ Forget

Spec == Init /\ [][Next]_<<holding, verdict>>
=============================================================================
