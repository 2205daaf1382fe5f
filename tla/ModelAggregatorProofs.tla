------------------------ MODULE ModelAggregatorProofs ------------------------
(***************************************************************************)
(* Theorems about ModelAggregator, for any finite set of clients, any      *)
(* models and any limits.                                                  *)
(*                                                                         *)
(* The inductive invariant Inv says which clients own a slot and that the  *)
(* two counters are the exact sizes of the sets of owners.  SlotAccounting *)
(* alone is not inductive: a release is right only if the model it is      *)
(* given is the one the slot was taken for (Owned), and the bound on the   *)
(* open exchanges follows only if every open upstream has a slot           *)
(* (UpstreamHeld).                                                         *)
(***************************************************************************)
EXTENDS ModelAggregator, FiniteSetTheorems, TLAPS

Shape ==
  /\ phase \in [Clients -> Phases]
  /\ model \in [Clients -> Models \union {NoModel}]
  /\ streamed \subseteq Clients /\ upstream \subseteq Clients
  /\ gone \subseteq Clients /\ stalled \subseteq Clients /\ finished \subseteq Clients
  /\ ready \subseteq Models

\* `model' is a model exactly while the request owns a slot.
Owned == \A c \in Clients : phase[c] \in Holding <=> model[c] # NoModel

UpstreamHeld == upstream \subseteq Holders

\* The counters, exactly.
Occupied == {m \in Models : HoldersOf(m) # {}}
Counts ==
  /\ inflight = Cardinality(Holders)
  /\ model_inflight = [m \in Occupied |-> Cardinality(HoldersOf(m))]

Bounds ==
  /\ inflight <= Capacity
  /\ \A m \in DOMAIN Limits : ModelInflight(m) <= Limits[m]

Inv == Shape /\ Owned /\ UpstreamHeld /\ Counts /\ Bounds

-----------------------------------------------------------------------------
(* Sets of owners.                                                         *)

LEMMA FiniteHolders ==
  /\ IsFiniteSet(Holders) /\ Cardinality(Holders) \in Nat
  /\ \A m : IsFiniteSet(HoldersOf(m)) /\ Cardinality(HoldersOf(m)) \in Nat
<1>1. Holders \subseteq Clients /\ \A m : HoldersOf(m) \subseteq Clients
  BY DEF Holders, HoldersOf
<1> QED
  BY <1>1, ClientsAssumption, FS_Subset, FS_CardinalityType

\* The .get(m, 0) of the code is the number of m's owners.
LEMMA ModelInflightCounts ==
  ASSUME Counts, NEW m \in Models
  PROVE  ModelInflight(m) = Cardinality(HoldersOf(m))
<1>1. CASE m \in Occupied
  BY <1>1 DEF Counts, ModelInflight
<1>2. CASE m \notin Occupied
  <2>1. HoldersOf(m) = {} BY <1>2 DEF Occupied
  <2>2. Cardinality(HoldersOf(m)) = 0 BY <2>1, FS_EmptySet
  <2> QED BY <1>2, <2>2 DEF Counts, ModelInflight
<1> QED BY <1>1, <1>2

-----------------------------------------------------------------------------
(* The three ways a step can treat the owners.                             *)

\* A step that leaves every owner and both counters alone.
Keeps ==
  /\ Holders' = Holders
  /\ \A m \in Models : HoldersOf(m)' = HoldersOf(m)
  /\ UNCHANGED counters

LEMMA KeepsCounts ==
  ASSUME Counts, Bounds, Keeps
  PROVE  Counts' /\ Bounds'
<1>1. Occupied' = Occupied BY DEF Keeps, Occupied
<1>2. Counts' BY <1>1 DEF Keeps, Counts, counters, Occupied
<1>3. Bounds' BY DEF Keeps, Bounds, counters, ModelInflight
<1> QED BY <1>2, <1>3

\* admit: c becomes an owner of m, and there was room.
LEMMA AdmitCounts ==
  ASSUME NEW c \in Clients, NEW m \in Models,
         Counts, Bounds, Room(m), Admit(m), c \notin Holders,
         Holders' = Holders \cup {c},
         \A k \in Models : HoldersOf(k)' = IF k = m THEN HoldersOf(k) \cup {c}
                                                    ELSE HoldersOf(k)
  PROVE  Counts' /\ Bounds'
<1>1. c \notin HoldersOf(m) BY DEF HoldersOf
<1>2. Cardinality(Holders') = Cardinality(Holders) + 1
  BY FiniteHolders, FS_AddElement
<1>3. Cardinality(HoldersOf(m)') = Cardinality(HoldersOf(m)) + 1
  BY <1>1, FiniteHolders, FS_AddElement
<1>4. ModelInflight(m) = Cardinality(HoldersOf(m)) BY ModelInflightCounts
<1>5. Occupied' = Occupied \cup {m}
  BY DEF Occupied
<1>6. inflight' = Cardinality(Holders')
  BY <1>2 DEF Counts, Admit
<1>7. DOMAIN model_inflight = Occupied BY DEF Counts
<1>8. model_inflight' = [k \in Occupied' |-> Cardinality(HoldersOf(k)')]
  <2>1. model_inflight' = [k \in Occupied' |->
                             IF k = m THEN ModelInflight(m) + 1 ELSE model_inflight[k]]
    BY <1>5, <1>7 DEF Admit
  <2>2. ASSUME NEW k \in Occupied', k # m
        PROVE  model_inflight[k] = Cardinality(HoldersOf(k)')
    <3>1. k \in Occupied /\ k \in Models BY <1>5, <2>2 DEF Occupied
    <3>2. HoldersOf(k)' = HoldersOf(k) BY <3>1, <2>2
    <3> QED BY <3>1, <3>2 DEF Counts
  <2>3. \A k \in Occupied' :
          (IF k = m THEN ModelInflight(m) + 1 ELSE model_inflight[k])
            = Cardinality(HoldersOf(k)')
    BY <1>3, <1>4, <2>2
  <2> QED BY <2>1, <2>3
<1>9. Counts' BY <1>6, <1>8 DEF Counts
<1>10. inflight' <= Capacity
  <2>1. inflight \in Nat BY FiniteHolders DEF Counts
  <2> QED BY <2>1, CapacityAssumption DEF Room, Admit
<1>11. ASSUME NEW k \in DOMAIN Limits PROVE ModelInflight(k)' <= Limits[k]
  <2>1. k \in Models /\ Limits[k] \in Nat BY <1>11, LimitsAssumption
  <2>2. ModelInflight(k)' = Cardinality(HoldersOf(k)')
    <3>1. CASE k \in Occupied'
      BY <3>1, <1>8 DEF ModelInflight
    <3>2. CASE k \notin Occupied'
      <4>1. HoldersOf(k)' = {} BY <2>1, <3>2 DEF Occupied
      <4>2. Cardinality(HoldersOf(k)') = 0 BY <4>1, FS_EmptySet
      <4>3. k \notin DOMAIN model_inflight' BY <1>8, <3>2
      <4> QED BY <4>2, <4>3 DEF ModelInflight
    <3> QED BY <3>1, <3>2
  <2>3. CASE k = m
    <3>1. ModelInflight(m) < Limits[m] BY <1>11, <2>3 DEF Room
    <3>2. Cardinality(HoldersOf(m)) \in Nat BY FiniteHolders
    <3> QED BY <2>1, <2>2, <2>3, <3>1, <3>2, <1>3, <1>4
  <2>4. CASE k # m
    <3>1. ModelInflight(k)' = ModelInflight(k)
      BY <2>1, <2>2, <2>4, ModelInflightCounts
    <3> QED BY <1>11, <3>1 DEF Bounds
  <2> QED BY <2>3, <2>4
<1> QED BY <1>9, <1>10, <1>11 DEF Bounds

\* release: c stops being an owner of m.
LEMMA ReleaseCounts ==
  ASSUME NEW c \in Clients, NEW m \in Models,
         Counts, Bounds, Release(m), c \in HoldersOf(m),
         Holders' = Holders \ {c},
         \A k \in Models : HoldersOf(k)' = IF k = m THEN HoldersOf(k) \ {c}
                                                    ELSE HoldersOf(k)
  PROVE  Counts' /\ Bounds'
<1>1. c \in Holders BY DEF HoldersOf
<1>2. Cardinality(Holders') = Cardinality(Holders) - 1
  BY <1>1, FiniteHolders, FS_RemoveElement
<1>3. Cardinality(HoldersOf(m)') = Cardinality(HoldersOf(m)) - 1
  BY FiniteHolders, FS_RemoveElement
<1>4. m \in Occupied /\ DOMAIN model_inflight = Occupied
  BY DEF Occupied, Counts
<1>5. model_inflight[m] = Cardinality(HoldersOf(m))
  BY <1>4 DEF Counts
<1>6. inflight' = Cardinality(Holders')
  BY <1>2 DEF Counts, Release
\* The key is deleted exactly when the last owner leaves.
<1>7. HoldersOf(m)' = {} <=> model_inflight[m] = 1
  <2>1. IsFiniteSet(HoldersOf(m)') BY FiniteHolders, FS_RemoveElement
  <2>2. HoldersOf(m)' = {} <=> Cardinality(HoldersOf(m)') = 0
    BY <2>1, FS_EmptySet
  <2>3. Cardinality(HoldersOf(m)) \in Nat BY FiniteHolders
  <2> QED BY <2>2, <2>3, <1>3, <1>5
<1>8. Occupied' = IF model_inflight[m] = 1 THEN Occupied \ {m} ELSE Occupied
  BY <1>4, <1>7 DEF Occupied
<1>9. ASSUME NEW k \in Occupied, k # m
      PROVE  model_inflight[k] = Cardinality(HoldersOf(k)')
  <2>1. HoldersOf(k)' = HoldersOf(k) BY <1>9 DEF Occupied
  <2> QED BY <2>1, <1>9 DEF Counts
<1>10. model_inflight' = [k \in Occupied' |-> Cardinality(HoldersOf(k)')]
  <2>1. CASE model_inflight[m] = 1
    BY <2>1, <1>4, <1>8, <1>9 DEF Release
  <2>2. CASE model_inflight[m] # 1
    <3>1. Occupied' = Occupied BY <2>2, <1>8
    <3>2. model_inflight' = [k \in Occupied |-> IF k = m THEN model_inflight[m] - 1
                                                        ELSE model_inflight[k]]
      BY <2>2, <1>4 DEF Release, Counts
    <3>3. \A k \in Occupied :
            (IF k = m THEN model_inflight[m] - 1 ELSE model_inflight[k])
              = Cardinality(HoldersOf(k)')
      BY <1>3, <1>5, <1>9
    <3> QED BY <3>1, <3>2, <3>3
  <2> QED BY <2>1, <2>2
<1>11. Counts' BY <1>6, <1>10 DEF Counts
<1>12. inflight' <= Capacity
  <2>1. inflight \in Nat BY FiniteHolders DEF Counts
  <2> QED BY <2>1, CapacityAssumption DEF Release, Bounds
<1>13. ASSUME NEW k \in DOMAIN Limits PROVE ModelInflight(k)' <= Limits[k]
  <2>1. k \in Models /\ Limits[k] \in Nat BY <1>13, LimitsAssumption
  <2>2. ModelInflight(k) \in Nat /\ ModelInflight(k) <= Limits[k]
    BY <1>13, <2>1, ModelInflightCounts, FiniteHolders DEF Bounds
  <2>3. ModelInflight(k)' <= ModelInflight(k)
    <3>1. CASE k \notin Occupied'
      <4>1. ModelInflight(k)' = 0 BY <3>1, <1>10 DEF ModelInflight
      <4> QED BY <4>1, <2>2
    <3>2. CASE k \in Occupied'
      <4>1. ModelInflight(k)' = Cardinality(HoldersOf(k)')
        BY <3>2, <1>10 DEF ModelInflight
      <4>2. Cardinality(HoldersOf(k)) \in Nat BY FiniteHolders
      <4>3. Cardinality(HoldersOf(k)') <= Cardinality(HoldersOf(k))
        BY <4>2, <1>3, <2>1
      <4> QED BY <4>1, <4>3, <2>1, ModelInflightCounts
    <3> QED BY <3>1, <3>2
  <2>4. ModelInflight(k)' \in Nat
    <3>1. CASE k \notin Occupied'
      BY <3>1, <1>10 DEF ModelInflight
    <3>2. CASE k \in Occupied'
      <4>1. ModelInflight(k)' = Cardinality(HoldersOf(k)')
        BY <3>2, <1>10 DEF ModelInflight
      <4>2. IsFiniteSet(HoldersOf(k)') BY <2>1, FiniteHolders, FS_RemoveElement
      <4> QED BY <4>1, <4>2, FS_CardinalityType
    <3> QED BY <3>1, <3>2
  <2> QED BY <2>1, <2>2, <2>3, <2>4
<1> QED BY <1>11, <1>12, <1>13 DEF Bounds

-----------------------------------------------------------------------------
(* What the actions do to the owners.                                      *)

\* Steps of a request that has a slot and keeps it.
Carries(c) ==
  /\ phase[c] \in Holding
  /\ \E p \in Holding : phase' = [phase EXCEPT ![c] = p]
  /\ UNCHANGED <<model, counters>>

LEMMA CarriesKeeps ==
  ASSUME Shape, NEW c \in Clients, Carries(c)
  PROVE  Keeps
<1>1. \A d \in Clients : phase'[d] \in Holding <=> phase[d] \in Holding
  BY DEF Carries, Shape
<1>2. Holders' = Holders BY <1>1 DEF Holders
<1>3. \A m \in Models : HoldersOf(m)' = HoldersOf(m)
  BY <1>2 DEF HoldersOf, Carries
<1> QED BY <1>2, <1>3 DEF Keeps, Carries

\* Steps of a request that has no slot and gets none.
LEMMA WithoutSlotKeeps ==
  ASSUME Shape, NEW c \in Clients, phase[c] \notin Holding,
         NEW p \in {"idle", "refused"}, phase' = [phase EXCEPT ![c] = p],
         \A d \in Clients \ {c} : model'[d] = model[d],
         UNCHANGED counters
  PROVE  Keeps
<1>1. p \notin Holding BY DEF Holding, HandlerOwned, GeneratorOwned
<1>2. \A d \in Clients : phase'[d] \in Holding <=> phase[d] \in Holding
  BY <1>1 DEF Shape
<1>3. Holders' = Holders BY <1>2 DEF Holders
<1>4. \A d \in Holders : model'[d] = model[d] BY DEF Holders
<1>5. \A m \in Models : HoldersOf(m)' = HoldersOf(m)
  BY <1>3, <1>4 DEF HoldersOf
<1> QED BY <1>3, <1>5 DEF Keeps

LEMMA AcceptOwners ==
  ASSUME Shape, NEW c \in Clients, NEW m \in Models, NEW stream \in BOOLEAN,
         Accept(c, m, stream)
  PROVE  /\ c \notin Holders
         /\ Holders' = Holders \cup {c}
         /\ \A k \in Models : HoldersOf(k)' = IF k = m THEN HoldersOf(k) \cup {c}
                                                       ELSE HoldersOf(k)
<1>1. c \notin Holders
  BY DEF Accept, Holders, Holding, HandlerOwned, GeneratorOwned
<1>2. \A d \in Clients : phase'[d] \in Holding <=> (phase[d] \in Holding \/ d = c)
  BY DEF Accept, Shape, Holding, HandlerOwned
<1>3. Holders' = Holders \cup {c} BY <1>2 DEF Holders
<1>4. \A d \in Clients : model'[d] = IF d = c THEN m ELSE model[d]
  BY DEF Accept, Shape
<1>5. ASSUME NEW k \in Models
      PROVE  HoldersOf(k)' = IF k = m THEN HoldersOf(k) \cup {c} ELSE HoldersOf(k)
  <2>1. HoldersOf(k)' = {d \in Holders' : model'[d] = k} BY DEF HoldersOf
  <2>2. HoldersOf(k) = {d \in Holders : model[d] = k} BY DEF HoldersOf
  <2>3. Holders \subseteq Clients BY DEF Holders
  <2> QED BY <2>1, <2>2, <2>3, <1>1, <1>3, <1>4
<1> QED BY <1>1, <1>3, <1>5

\* SendFailed and Closed end the request of an owner.
LEMMA DoneOwners ==
  ASSUME Shape, NEW c \in Clients, Owned, phase[c] \in Holding, Done(c)
  PROVE  /\ model[c] \in Models
         /\ c \in HoldersOf(model[c])
         /\ Holders' = Holders \ {c}
         /\ \A k \in Models :
              HoldersOf(k)' = IF k = model[c] THEN HoldersOf(k) \ {c} ELSE HoldersOf(k)
<1>1. model[c] \in Models BY DEF Shape, Owned
<1>2. c \in HoldersOf(model[c]) BY DEF HoldersOf, Holders
<1>3. \A d \in Clients : phase'[d] \in Holding <=> (phase[d] \in Holding /\ d # c)
  BY DEF Done, Shape, Holding, HandlerOwned, GeneratorOwned
<1>4. Holders' = Holders \ {c} BY <1>3 DEF Holders
<1>5. \A d \in Clients \ {c} : model'[d] = model[d] BY DEF Done, Shape
<1>6. ASSUME NEW k \in Models
      PROVE  HoldersOf(k)' = IF k = model[c] THEN HoldersOf(k) \ {c} ELSE HoldersOf(k)
  <2>1. HoldersOf(k)' = {d \in Holders' : model'[d] = k} BY DEF HoldersOf
  <2>2. HoldersOf(k) = {d \in Holders : model[d] = k} BY DEF HoldersOf
  <2>3. Holders \subseteq Clients BY DEF Holders
  <2> QED BY <2>1, <2>2, <2>3, <1>4, <1>5
<1> QED BY <1>1, <1>2, <1>4, <1>6

-----------------------------------------------------------------------------
(* The invariant.                                                          *)

LEMMA InitInv == Init => Inv
<1> SUFFICES ASSUME Init PROVE Inv OBVIOUS
<1>1. Holders = {} /\ \A m : HoldersOf(m) = {}
  BY DEF Init, Holders, HoldersOf, Holding, HandlerOwned, GeneratorOwned
<1>2. Cardinality({}) = 0 BY FS_EmptySet
<1>3. Shape BY DEF Init, Shape, Phases
<1>4. Owned
  BY NoModelAssumption DEF Init, Owned, Holding, HandlerOwned, GeneratorOwned
<1>5. UpstreamHeld BY DEF Init, UpstreamHeld
<1>6. Occupied = {} BY <1>1 DEF Occupied
<1>7. Counts BY <1>1, <1>2, <1>6 DEF Init, Counts
<1>8. Bounds
  <2>1. \A m : ModelInflight(m) = 0 BY DEF Init, ModelInflight
  <2> QED BY <2>1, CapacityAssumption, LimitsAssumption DEF Init, Bounds
<1> QED BY <1>3, <1>4, <1>5, <1>7, <1>8 DEF Inv

\* A step by which a request carries its slot on.  The upstream response
\* may be opened by it (SendAnswered).
LEMMA CarriesInv ==
  ASSUME Inv, NEW c \in Clients, Carries(c), UNCHANGED <<streamed, ready>>,
         upstream' \in {upstream, upstream \union {c}},
         gone' \in SUBSET Clients, stalled' \in SUBSET Clients, finished' \in SUBSET Clients
  PROVE  Inv'
<1> USE DEF Inv
<1>1. Keeps BY CarriesKeeps
<1>2. Shape' BY DEF Carries, Shape, Phases
<1>3. Owned'
  BY DEF Carries, Shape, Owned
<1>4. UpstreamHeld'
  <2>1. c \in Holders BY DEF Carries, Holders
  <2> QED BY <1>1, <2>1 DEF UpstreamHeld, Keeps
<1>5. Counts' /\ Bounds' BY <1>1, KeepsCounts
<1> QED BY <1>2, <1>3, <1>4, <1>5

\* A step that ends the request of an owner.
LEMMA EndsInv ==
  ASSUME Inv, NEW c \in Clients, phase[c] \in Holding,
         Done(c), Release(model[c]), UNCHANGED ready
  PROVE  Inv'
<1> USE DEF Inv
<1>1. model[c] \in Models /\ c \in HoldersOf(model[c]) /\ Holders' = Holders \ {c}
  BY DoneOwners
<1>2. Counts' /\ Bounds' BY DoneOwners, ReleaseCounts
<1>3. Shape' BY DEF Done, Shape, Phases
<1>4. Owned'
  BY NoModelAssumption DEF Done, Shape, Owned, Holding, HandlerOwned, GeneratorOwned
<1>5. UpstreamHeld' BY <1>1 DEF Done, UpstreamHeld
<1> QED BY <1>2, <1>3, <1>4, <1>5

LEMMA AcceptInv ==
  ASSUME Inv, NEW c \in Clients, NEW m \in Models, NEW stream \in BOOLEAN,
         Accept(c, m, stream), UNCHANGED ready
  PROVE  Inv'
<1> USE DEF Inv
<1>1. c \notin Holders /\ Holders' = Holders \cup {c} BY AcceptOwners
<1>2. Counts' /\ Bounds' BY AcceptOwners, AdmitCounts DEF Accept
<1>3. Shape'
  BY DEF Accept, Shape, Phases, Holding, HandlerOwned
<1>4. Owned'
  BY NoModelAssumption DEF Accept, Shape, Owned, Holding, HandlerOwned
<1>5. UpstreamHeld' BY <1>1 DEF Accept, UpstreamHeld
<1> QED BY <1>2, <1>3, <1>4, <1>5

\* A request that is refused, and the delivery of its 429.
LEMMA RefusalInv ==
  ASSUME Inv, NEW c \in Clients, UNCHANGED ready,
         (\E m \in Models : Refuse(c, m)) \/ Refused(c)
  PROVE  Inv'
<1> USE DEF Inv
<1>1. phase[c] \notin Holding
  BY DEF Refuse, Refused, Holding, HandlerOwned, GeneratorOwned
<1>2. model[c] = NoModel BY <1>1 DEF Owned
<1>3. PICK p \in {"idle", "refused"} : phase' = [phase EXCEPT ![c] = p]
  BY DEF Refuse, Refused, Done
<1>4. model' = model
  BY <1>2 DEF Refuse, Refused, Done, Shape
<1>5. UNCHANGED counters BY DEF Refuse, Refused
<1>6. Keeps BY <1>1, <1>3, <1>4, <1>5, WithoutSlotKeeps
<1>7. Shape'
  BY <1>3, <1>4 DEF Refuse, Refused, Done, Shape, Phases
<1>8. Owned'
  BY <1>1, <1>3, <1>4 DEF Shape, Owned, Holding, HandlerOwned, GeneratorOwned
<1>9. UpstreamHeld'
  <2>1. upstream' \subseteq upstream BY DEF Refuse, Refused, Done
  <2> QED BY <1>6, <2>1 DEF UpstreamHeld, Keeps
<1> QED BY <1>6, <1>7, <1>8, <1>9, KeepsCounts

LEMMA NextInv == Inv /\ [Next]_vars => Inv'
<1> SUFFICES ASSUME Inv, [Next]_vars PROVE Inv' OBVIOUS
<1> USE DEF Inv
<1>1. ASSUME NEW c \in Clients, ClientStep(c), UNCHANGED ready
      PROVE  Inv'
  <2>1. ASSUME NEW m \in Models, NEW stream \in BOOLEAN, Accept(c, m, stream)
        PROVE  Inv'
    BY <1>1, <2>1, AcceptInv
  <2>2. CASE (\E m \in Models : Refuse(c, m)) \/ Refused(c)
    BY <1>1, <2>2, RefusalInv
  <2>3. CASE SendFailed(c) \/ Closed(c)
    <3>1. phase[c] \in Holding /\ Done(c) /\ Release(model[c])
      BY <2>3 DEF SendFailed, Closed, Holding, HandlerOwned
    <3> QED BY <3>1, <1>1, EndsInv
  <2>4. CASE SendAnswered(c)
    <3>1. PICK p \in Holding : phase' = [phase EXCEPT ![c] = p]
      BY <2>4 DEF SendAnswered, Holding, HandlerOwned, GeneratorOwned
    <3>2. Carries(c)
      BY <2>4, <3>1 DEF SendAnswered, Carries, Holding, HandlerOwned
    <3> QED BY <2>4, <3>2, <1>1, CarriesInv DEF SendAnswered, Shape
  <2>5. CASE ReadEnded(c) \/ ReadCancelled(c) \/ StreamStarted(c) \/ StreamDropped(c)
             \/ StreamEnded(c) \/ StreamCancelled(c) \/ GeneratorFinalized(c)
    <3>1. Carries(c)
      BY <2>5 DEF ReadEnded, ReadCancelled, StreamStarted, StreamDropped, StreamEnded,
                  StreamCancelled, GeneratorFinalized, Carries,
                  Holding, HandlerOwned, GeneratorOwned
    <3>2. UNCHANGED <<streamed, upstream, gone, stalled, finished>>
      BY <2>5 DEF ReadEnded, ReadCancelled, StreamStarted, StreamDropped, StreamEnded,
                  StreamCancelled, GeneratorFinalized
    <3> QED BY <3>1, <3>2, <1>1, CarriesInv DEF Shape
  <2>6. CASE Disconnect(c) \/ Stall(c) \/ ReadsAgain(c)
    <3>1. Carries(c)
      <4>1. phase' = [phase EXCEPT ![c] = phase[c]]
        BY <2>6 DEF Disconnect, Stall, ReadsAgain, Shape
      <4> QED
        BY <2>6, <4>1
        DEF Disconnect, Stall, ReadsAgain, Carries, Holding, GeneratorOwned
    <3> QED BY <2>6, <3>1, <1>1, CarriesInv DEF Disconnect, Stall, ReadsAgain, Shape
  <2>7. CASE BackendFinished(c)
    <3>1. phase[c] \in Holding
      BY <2>7 DEF BackendFinished, UpstreamHeld, Holders
    <3>2. Carries(c)
      <4>1. phase' = [phase EXCEPT ![c] = phase[c]]
        BY <2>7 DEF BackendFinished, Shape
      <4> QED BY <2>7, <3>1, <4>1 DEF BackendFinished, Carries
    <3> QED BY <2>7, <3>2, <1>1, CarriesInv DEF BackendFinished, Shape
  <2> QED
    BY <1>1, <2>1, <2>2, <2>3, <2>4, <2>5, <2>6, <2>7 DEF ClientStep
<1>2. CASE Rediscovered
  <2>1. Keeps
    BY <1>2 DEF Rediscovered, Keeps, chatVars, requests, counters, Holders, HoldersOf
  <2>2. Shape' /\ Owned' /\ UpstreamHeld'
    BY <1>2, <2>1 DEF Rediscovered, chatVars, requests, Shape, Owned, UpstreamHeld, Keeps
  <2> QED BY <2>1, <2>2, KeepsCounts
<1>3. CASE Restart /\ ready' = {}
  <2>1. Holders' = {} /\ \A m : HoldersOf(m)' = {}
    BY <1>3 DEF Restart, Holders, HoldersOf, Holding, HandlerOwned, GeneratorOwned
  <2>2. Cardinality({}) = 0 BY FS_EmptySet
  <2>3. Occupied' = {} BY <2>1 DEF Occupied
  <2>4. Counts' BY <1>3, <2>1, <2>2, <2>3 DEF Restart, Counts
  <2>5. Bounds'
    <3>1. \A m : ModelInflight(m)' = 0 BY <1>3 DEF Restart, ModelInflight
    <3> QED BY <1>3, <3>1, CapacityAssumption, LimitsAssumption DEF Restart, Bounds
  <2>6. Shape' /\ Owned' /\ UpstreamHeld'
    BY <1>3, NoModelAssumption DEF Restart, Shape, Phases, Owned, UpstreamHeld,
                                   Holding, HandlerOwned, GeneratorOwned
  <2> QED BY <2>4, <2>5, <2>6
<1>4. CASE UNCHANGED vars
  <2>1. Keeps
    BY <1>4 DEF vars, Keeps, chatVars, requests, counters, Holders, HoldersOf
  <2>2. Shape' /\ Owned' /\ UpstreamHeld'
    BY <1>4, <2>1 DEF vars, chatVars, requests, Shape, Owned, UpstreamHeld, Keeps
  <2> QED BY <2>1, <2>2, KeepsCounts
<1> QED BY <1>1, <1>2, <1>3, <1>4 DEF Next

\* The inductive invariant holds in every reachable state.
THEOREM Invariance == Spec => []Inv
<1> QED BY InitInv, NextInv, PTL DEF Spec

-----------------------------------------------------------------------------
(* What it implies.                                                        *)

LEMMA InvTypeOK == Inv => TypeOK
<1> SUFFICES ASSUME Inv PROVE TypeOK OBVIOUS
<1> USE DEF Inv
<1>1. inflight \in Nat BY FiniteHolders DEF Counts
<1>2. DOMAIN model_inflight = Occupied /\ Occupied \subseteq Models
  BY DEF Counts, Occupied
<1>3. model_inflight \in [DOMAIN model_inflight -> Nat]
  BY <1>2, FiniteHolders DEF Counts
<1> QED BY <1>1, <1>2, <1>3 DEF TypeOK, Shape

LEMMA InvAccounting == Inv => SlotAccounting
<1> SUFFICES ASSUME Inv PROVE SlotAccounting OBVIOUS
<1> USE DEF Inv
<1>1. \A m \in Models : ModelInflight(m) = Cardinality(HoldersOf(m))
  BY ModelInflightCounts
<1>2. ASSUME NEW m \in DOMAIN model_inflight PROVE model_inflight[m] > 0
  <2>1. m \in Occupied /\ model_inflight[m] = Cardinality(HoldersOf(m))
    BY DEF Counts
  <2>2. Cardinality(HoldersOf(m)) \in Nat /\ Cardinality(HoldersOf(m)) # 0
    BY <2>1, FiniteHolders, FS_EmptySet DEF Occupied
  <2> QED BY <2>1, <2>2
<1> QED BY <1>1, <1>2 DEF SlotAccounting, Counts

LEMMA InvExchangeBound == Inv => ExchangeBound
<1> SUFFICES ASSUME Inv PROVE ExchangeBound OBVIOUS
<1> USE DEF Inv
<1>1. Exchanges \subseteq Holders
  BY DEF Exchanges, UpstreamHeld, Holders, Holding, HandlerOwned
<1>2. Cardinality(Exchanges) <= Cardinality(Holders) /\ Cardinality(Exchanges) \in Nat
  BY <1>1, FiniteHolders, FS_Subset, FS_CardinalityType
<1>3. Cardinality(Exchanges) <= Capacity
  BY <1>2, FiniteHolders, CapacityAssumption DEF Counts, Bounds
<1>4. ASSUME NEW m \in DOMAIN Limits
      PROVE  Cardinality({c \in Exchanges : model[c] = m}) <= Limits[m]
  <2> DEFINE S == {c \in Exchanges : model[c] = m}
  <2>1. S \subseteq HoldersOf(m) BY <1>1 DEF HoldersOf
  <2>2. Cardinality(S) <= Cardinality(HoldersOf(m)) /\ Cardinality(S) \in Nat
    BY <2>1, FiniteHolders, FS_Subset, FS_CardinalityType
  <2>3. Cardinality(HoldersOf(m)) <= Limits[m] /\ Limits[m] \in Nat
    BY <1>4, LimitsAssumption, ModelInflightCounts DEF Bounds
  <2>4. Cardinality(HoldersOf(m)) \in Nat BY FiniteHolders
  <2> QED BY <2>2, <2>3, <2>4
<1> QED BY <1>3, <1>4 DEF ExchangeBound

\* Every variable of the chat side keeps its type; in particular the number
\* of requests in flight never drops below zero.
THEOREM TypeCorrect == Spec => []TypeOK
<1> QED BY Invariance, InvTypeOK, PTL

\* The counters kept by admit and release are exactly the slots held,
\* whatever the interleaving of hand-overs, cancellations and failures.
THEOREM AccountingCorrect == Spec => []SlotAccounting
<1> QED BY Invariance, InvAccounting, PTL

\* The backends never see more exchanges than the shared limit, nor a
\* limited model more than its own.
THEOREM ExchangesBounded == Spec => []ExchangeBound
<1> QED BY Invariance, InvExchangeBound, PTL

-----------------------------------------------------------------------------
(* The handler with its counters implements the pool without counters.     *)

\* SlotPool has its own copy of FiniteSets, with the same definition.
LEMMA SameCardinality == ASSUME NEW S PROVE Pool!Cardinality(S) = Cardinality(S)
BY DEF Pool!Cardinality, Cardinality

\* Under Inv the owners that the pool sees are Holders and HoldersOf, and
\* admit's test of the counters is the pool's test of the slots.
LEMMA PoolView ==
  ASSUME Inv
  PROVE  /\ Pool!Holders = Holders
         /\ \A m \in Models : Pool!HoldersOf(m) = HoldersOf(m)
         /\ \A m \in Models : Pool!Room(m) <=> Room(m)
<1> USE DEF Inv
<1>1. Pool!Holders = Holders
  BY DEF Pool!Holders, SlotOf, Holders, Owned
<1>2. ASSUME NEW m \in Models PROVE Pool!HoldersOf(m) = HoldersOf(m)
  BY NoModelAssumption DEF Pool!HoldersOf, SlotOf, HoldersOf, Holders
<1>3. ASSUME NEW m \in Models PROVE Pool!Room(m) <=> Room(m)
  BY <1>1, <1>2, ModelInflightCounts, SameCardinality DEF Pool!Room, Room, Counts
<1> QED BY <1>1, <1>2, <1>3

LEMMA PoolInit == Init => Pool!Init
BY DEF Init, Pool!Init, SlotOf, VerdictOf, Holding, HandlerOwned, GeneratorOwned

\* A step that moves c between phases in which it has a slot is no step of
\* the pool.
LEMMA CarriesStutters ==
  ASSUME Inv, NEW c \in Clients, Carries(c)
  PROVE  UNCHANGED <<SlotOf, VerdictOf>>
<1>1. \A d \in Clients : /\ phase'[d] \in Holding <=> phase[d] \in Holding
                         /\ d # c => phase'[d] = phase[d]
  BY DEF Carries, Inv, Shape
<1>2. SlotOf' = SlotOf BY <1>1 DEF Carries, SlotOf
<1>3. \A p \in Holding : p # "idle" /\ p # "refused"
  BY DEF Holding, HandlerOwned, GeneratorOwned
<1>4. VerdictOf' = VerdictOf
  <2>1. phase'[c] \in Holding BY <1>1 DEF Carries
  <2> QED BY <1>1, <1>3, <2>1 DEF Carries, VerdictOf
<1> QED BY <1>2, <1>4

\* A step that ends c's request, with or without a slot.
LEMMA DoneFinishes ==
  ASSUME Inv, NEW c \in Clients, phase[c] # "idle", Done(c)
  PROVE  Pool!Finish(c)
<1>1. VerdictOf[c] # "none" BY DEF VerdictOf
<1>2. SlotOf' = [SlotOf EXCEPT ![c] = NoModel]
  BY DEF Done, SlotOf, Inv, Shape, Holding, HandlerOwned, GeneratorOwned
<1>3. VerdictOf' = [VerdictOf EXCEPT ![c] = "none"]
  BY DEF Done, VerdictOf, Inv, Shape
<1> QED BY <1>1, <1>2, <1>3 DEF Pool!Finish

LEMMA AcceptGrants ==
  ASSUME Inv, NEW c \in Clients, NEW m \in Models, NEW stream \in BOOLEAN,
         Accept(c, m, stream)
  PROVE  Pool!Grant(c, m)
<1>1. VerdictOf[c] = "none" /\ Pool!Room(m)
  BY PoolView DEF Accept, VerdictOf
<1>2. SlotOf' = [SlotOf EXCEPT ![c] = m]
  BY DEF Accept, SlotOf, Inv, Shape, Holding, HandlerOwned
<1>3. VerdictOf' = [VerdictOf EXCEPT ![c] = "in"]
  BY DEF Accept, VerdictOf, Inv, Shape
<1> QED BY <1>1, <1>2, <1>3 DEF Pool!Grant

LEMMA RefuseRefuses ==
  ASSUME Inv, NEW c \in Clients, NEW m \in Models, Refuse(c, m)
  PROVE  Pool!Refuse(c, m)
<1>1. VerdictOf[c] = "none" /\ ~Pool!Room(m)
  BY PoolView DEF Refuse, VerdictOf
<1>2. SlotOf' = SlotOf
  BY DEF Refuse, SlotOf, Inv, Shape, Holding, HandlerOwned, GeneratorOwned
<1>3. VerdictOf' = [VerdictOf EXCEPT ![c] = "out"]
  BY DEF Refuse, VerdictOf, Inv, Shape
<1> QED BY <1>1, <1>2, <1>3 DEF Pool!Refuse

LEMMA PoolStep ==
  Inv /\ [Next]_vars => [Pool!Next]_<<SlotOf, VerdictOf>>
<1> SUFFICES ASSUME Inv, [Next]_vars
             PROVE  Pool!Next \/ UNCHANGED <<SlotOf, VerdictOf>>
  OBVIOUS
<1>1. ASSUME NEW c \in Clients, ClientStep(c)
      PROVE  Pool!Next \/ UNCHANGED <<SlotOf, VerdictOf>>
  <2>1. ASSUME NEW m \in Models, NEW stream \in BOOLEAN, Accept(c, m, stream)
        PROVE  Pool!Next
    BY <2>1, AcceptGrants DEF Pool!Next
  <2>2. ASSUME NEW m \in Models, Refuse(c, m)
        PROVE  Pool!Next
    BY <2>2, RefuseRefuses DEF Pool!Next
  <2>3. CASE Refused(c) \/ SendFailed(c) \/ Closed(c)
    <3>1. phase[c] # "idle" /\ Done(c) BY <2>3 DEF Refused, SendFailed, Closed
    <3> QED BY <3>1, DoneFinishes DEF Pool!Next
  <2>4. CASE SendAnswered(c) \/ ReadEnded(c) \/ ReadCancelled(c) \/ StreamStarted(c)
             \/ StreamDropped(c) \/ StreamEnded(c) \/ StreamCancelled(c)
             \/ GeneratorFinalized(c)
    <3>1. PICK p \in Holding : phase' = [phase EXCEPT ![c] = p]
      BY <2>4 DEF SendAnswered, ReadEnded, ReadCancelled, StreamStarted, StreamDropped,
                  StreamEnded, StreamCancelled, GeneratorFinalized,
                  Holding, HandlerOwned, GeneratorOwned
    <3>2. phase[c] \in Holding /\ UNCHANGED <<model, counters>>
      BY <2>4 DEF SendAnswered, ReadEnded, ReadCancelled, StreamStarted, StreamDropped,
                  StreamEnded, StreamCancelled, GeneratorFinalized,
                  Holding, HandlerOwned, GeneratorOwned
    <3>3. Carries(c) BY <3>1, <3>2 DEF Carries
    <3> QED BY <3>3, CarriesStutters
  <2>5. CASE Disconnect(c) \/ Stall(c) \/ ReadsAgain(c) \/ BackendFinished(c)
    BY <2>5 DEF Disconnect, Stall, ReadsAgain, BackendFinished, SlotOf, VerdictOf
  <2> QED BY <1>1, <2>1, <2>2, <2>3, <2>4, <2>5 DEF ClientStep
<1>2. CASE Rediscovered
  BY <1>2 DEF Rediscovered, chatVars, requests, SlotOf, VerdictOf
<1>3. CASE Restart
  <2>1. Pool!Forget
    BY <1>3 DEF Restart, Pool!Forget, SlotOf, VerdictOf,
                Holding, HandlerOwned, GeneratorOwned
  <2> QED BY <2>1 DEF Pool!Next
<1>4. CASE UNCHANGED vars
  BY <1>4 DEF vars, chatVars, requests, SlotOf, VerdictOf
<1> QED BY <1>1, <1>2, <1>3, <1>4 DEF Next

\* Admission grants and refuses exactly as a pool that looks at the slots
\* really held: no request is refused while there is room, none waits, and
\* none is let in beyond a limit.
THEOREM AdmissionImplementsPool == Spec => PoolSpec
<1>1. Spec => Pool!Init /\ [][Pool!Next]_<<SlotOf, VerdictOf>>
  BY PoolInit, PoolStep, Invariance, PTL DEF Spec
<1> QED BY <1>1 DEF PoolSpec, Pool!Spec
=============================================================================
