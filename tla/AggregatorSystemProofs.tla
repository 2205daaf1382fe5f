------------------------ MODULE AggregatorSystemProofs ------------------------
(***************************************************************************)
(* Theorems about ModelDiscovery, for any number of Services, any models,  *)
(* manifests and times, and about its composition with ModelAggregator in  *)
(* AggregatorSystem, for any clients and limits.                           *)
(*                                                                         *)
(* The invariant adds up what a catalog can have aged: one sleep, then a   *)
(* listing, then the fetches.  Clock says it stage by stage, Ages says it  *)
(* of the answers behind the catalog.  Neither AvailableUndisturbed nor    *)
(* FreshUndisturbed is inductive: that a cycle ends in time depends on how *)
(* much of it is over.                                                     *)
(*                                                                         *)
(* The process keeps the same invariant, restarts included.  When chat     *)
(* admits a request it looks at no clock; Clock says at which stages the   *)
(* catalog can be too old by then.                                         *)
(***************************************************************************)
EXTENDS AggregatorSystem, FiniteSetTheorems, WellFoundedInduction, TLAPS

Clock ==
  /\ stage = "listing" => timer <= KubeBound
  /\ stage = "sleeping" => timer <= Interval /\ serving
  /\ stage = "fetching" /\ ~disturbed => timer <= FetchBound
  /\ serving /\ ~disturbed => success
  /\ success =>
       /\ stage = "sleeping" => age <= timer
       /\ stage = "listing" => age <= Interval + timer
       /\ stage = "fetching" => age <= Interval + KubeBound + timer \/ timer = Interval + FetchBound

Ages ==
  ~disturbed =>
    /\ stage = "fetching" => \A s \in Services : heard[s] <= timer
    /\ \A m \in DOMAIN shown : shown[m] <= age + FetchBound

Inv == TypeOK /\ CatalogIsRoutable /\ Clock /\ Ages

-----------------------------------------------------------------------------
(* The last of the sorted URLs.                                            *)

\* A nonempty set of Services has a greatest element.
LEMMA LastService ==
  ASSUME NEW T, T \subseteq Services, T # {}
  PROVE  Max(T) \in T
<1> DEFINE n == Cardinality(Services)
           below == {k \in 0..n : n - k \in T}
<1>1. n \in Nat /\ Services = 1..n
  BY ServicesAssumption, FS_CardinalityType
<1>2. below \subseteq Nat /\ below # {}
  <2>1. PICK t \in T : TRUE
    OBVIOUS
  <2>2. t \in Services
    BY <2>1
  <2>3. t \in 1..n
    BY <1>1, <2>2
  <2>4. n - t \in 0..n /\ n - (n - t) = t
    BY <1>1, <2>3
  <2> QED
    BY <1>1, <2>1, <2>4
<1>3. PICK k \in below : \A j \in below : ~ (<<j, k>> \in OpToRel(<, Nat))
  BY <1>2, NatLessThanWellFounded, WFMin
<1>4. \A j \in below : ~ (j < k)
  BY <1>2, <1>3 DEF OpToRel
<1>5. n - k \in T /\ k \in 0..n
  OBVIOUS
<1>6. \A y \in T : n - k >= y
  <2> TAKE y \in T
  <2>1. y \in 1..n
    BY <1>1
  <2>2. n - y \in 0..n /\ n - (n - y) = y
    BY <1>1, <2>1
  <2>3. n - y \in below
    BY <2>2
  <2>4. ~ (n - y < k)
    BY <1>4, <2>3
  <2> QED
    BY <1>1, <1>5, <2>1, <2>4
<1> QED
  BY <1>5, <1>6 DEF Max

\* The routes made of typed results are typed, and route exactly what was
\* fetched.
LEMMA RoutesTyped ==
  ASSUME NEW fetched \in [Services -> SUBSET Models]
  PROVE  /\ DOMAIN Routes(fetched) = UNION {fetched[s] : s \in Services}
         /\ DOMAIN Routes(fetched) \subseteq Models
         /\ Routes(fetched) \in [DOMAIN Routes(fetched) -> Services]
<1>1. DOMAIN Routes(fetched) = UNION {fetched[s] : s \in Services}
  BY DEF Routes
<1>2. DOMAIN Routes(fetched) \subseteq Models
  BY <1>1
<1>3. ASSUME NEW m \in DOMAIN Routes(fetched) PROVE Routes(fetched)[m] \in Services
  <2> DEFINE T == {s \in Services : m \in fetched[s]}
  <2>1. T # {} /\ T \subseteq Services
    BY <1>1
  <2>2. Max(T) \in T
    BY <2>1, LastService
  <2>3. Routes(fetched)[m] = Max(T)
    BY <1>1 DEF Routes
  <2> QED
    BY <2>1, <2>2, <2>3
<1>4. Routes(fetched) = [m \in DOMAIN Routes(fetched) |-> Routes(fetched)[m]]
  BY DEF Routes
<1> QED
  BY <1>1, <1>2, <1>3, <1>4

-----------------------------------------------------------------------------
(* The invariant.                                                          *)

LEMMA InitInv == Init => Inv
<1> SUFFICES ASSUME Init PROVE Inv
  OBVIOUS
<1> USE TimesAssumption, ChangesAssumption DEF Init
<1>1. NoRoutes = [m \in DOMAIN NoRoutes |-> 0] /\ DOMAIN NoRoutes = {}
  BY DEF NoRoutes
<1>2. TypeOK
  <2>1. /\ age \in 0..(Stale + 1) /\ timer \in 0..(Interval + FetchBound)
        /\ changes \in 0..MaxChanges
        /\ heard \in [Services -> 0..(Stale + FetchBound + 1)]
    BY DEF Stale
  <2>2. /\ results \in [Services -> SUBSET Models] /\ pending \subseteq Services
        /\ cache \subseteq Models
    OBVIOUS
  <2>3. /\ DOMAIN model_backends \subseteq Models
        /\ model_backends \in [DOMAIN model_backends -> Services]
        /\ DOMAIN shown = DOMAIN model_backends
        /\ shown \in [DOMAIN shown -> 0..(Stale + FetchBound + 1)]
    BY <1>1
  <2>4. /\ stage \in Stages
        /\ success \in BOOLEAN /\ serving \in BOOLEAN /\ kubeUp \in BOOLEAN
        /\ disturbed \in BOOLEAN
    BY DEF Stages
  <2> QED
    BY <2>1, <2>2, <2>3, <2>4 DEF TypeOK
<1>3. CatalogIsRoutable
  BY <1>1 DEF CatalogIsRoutable
<1>4. Clock /\ Ages
  BY <1>1 DEF Clock, Ages
<1> QED
  BY <1>2, <1>3, <1>4 DEF Inv

LEMMA ListedInv == Inv /\ Listed => Inv'
<1> SUFFICES ASSUME Inv, Listed PROVE Inv'
  OBVIOUS
<1> USE TimesAssumption
<1>1. TypeOK'
  BY DEF Inv, Listed, TypeOK, Stages, published, environment, Stale
<1>2. CatalogIsRoutable'
  BY DEF Inv, Listed, CatalogIsRoutable, published
<1>3. Clock'
  BY DEF Inv, Listed, Clock, published, TypeOK
<1>4. Ages'
  BY DEF Inv, Listed, Ages, published
<1> QED
  BY <1>1, <1>2, <1>3, <1>4 DEF Inv

LEMMA ListFailedInv == Inv /\ ListFailed => Inv'
<1> SUFFICES ASSUME Inv, ListFailed PROVE Inv'
  OBVIOUS
<1> USE TimesAssumption DEF ListFailed, Sleep
<1>1. NoRoutes = [m \in DOMAIN NoRoutes |-> 0] /\ DOMAIN NoRoutes = {}
  BY DEF NoRoutes
<1>2. TypeOK'
  <2>1. /\ age' \in 0..(Stale + 1) /\ timer' \in 0..(Interval + FetchBound)
    BY DEF Stale
  <2>2. /\ cache' \subseteq Models
        /\ DOMAIN model_backends' \subseteq Models
        /\ model_backends' \in [DOMAIN model_backends' -> Services]
        /\ DOMAIN shown' = DOMAIN model_backends'
        /\ shown' \in [DOMAIN shown' -> 0..(Stale + FetchBound + 1)]
    BY <1>1
  <2>3. stage' \in Stages /\ success' \in BOOLEAN /\ serving' \in BOOLEAN /\ disturbed' \in BOOLEAN
    BY DEF Stages
  <2> QED
    BY <2>1, <2>2, <2>3 DEF Inv, TypeOK, environment, Stale
<1>3. CatalogIsRoutable'
  BY <1>1 DEF CatalogIsRoutable
<1>4. Clock' /\ Ages'
  BY DEF Clock, Ages
<1> QED
  BY <1>2, <1>3, <1>4 DEF Inv

LEMMA FetchedInv == ASSUME NEW s \in Services PROVE Inv /\ Fetched(s) => Inv'
<1> SUFFICES ASSUME Inv, Fetched(s) PROVE Inv'
  OBVIOUS
<1> USE TimesAssumption DEF Fetched
<1>1. LiveModels(s) \in SUBSET Models
  BY DEF Inv, TypeOK, LiveModels, Hung, AnswerSet
<1>2. TypeOK'
  BY <1>1 DEF Inv, TypeOK, published, environment, Stale
<1>3. CatalogIsRoutable'
  BY DEF Inv, CatalogIsRoutable, published
<1>4. Clock'
  BY DEF Inv, Clock, published
<1>5. Ages'
  BY DEF Inv, Ages, TypeOK, published
<1> QED
  BY <1>2, <1>3, <1>4, <1>5 DEF Inv

LEMMA PublishInv == Inv /\ Publish => Inv'
<1> SUFFICES ASSUME Inv, Publish PROVE Inv'
  OBVIOUS
<1> USE TimesAssumption DEF Publish, Sleep
<1>1. /\ DOMAIN Routes(results) = UNION {results[s] : s \in Services}
      /\ DOMAIN Routes(results) \subseteq Models
      /\ Routes(results) \in [DOMAIN Routes(results) -> Services]
  BY RoutesTyped DEF Inv, TypeOK
<1>2. shown' = [m \in DOMAIN Routes(results) |-> heard[Routes(results)[m]]]
  OBVIOUS
<1>3. TypeOK'
  <2>1. /\ DOMAIN shown' = DOMAIN model_backends'
        /\ shown' \in [DOMAIN shown' -> 0..(Stale + FetchBound + 1)]
    BY <1>1, <1>2 DEF Inv, TypeOK
  <2>2. /\ age' \in 0..(Stale + 1) /\ timer' \in 0..(Interval + FetchBound)
    BY DEF Stale
  <2>3. stage' \in Stages /\ success' \in BOOLEAN /\ serving' \in BOOLEAN
    BY DEF Stages
  <2>4. /\ cache' \subseteq Models
        /\ DOMAIN model_backends' \subseteq Models
        /\ model_backends' \in [DOMAIN model_backends' -> Services]
    BY <1>1
  <2> QED
    BY <2>1, <2>2, <2>3, <2>4 DEF Inv, TypeOK, environment, Stale
<1>4. CatalogIsRoutable'
  BY <1>1 DEF CatalogIsRoutable
<1>5. Clock'
  BY DEF Clock
<1>6. Ages'
  <2> SUFFICES ASSUME ~disturbed, NEW m \in DOMAIN Routes(results)
               PROVE  shown'[m] <= FetchBound
    BY <1>2 DEF Ages
  <2>1. Routes(results)[m] \in Services /\ shown'[m] = heard[Routes(results)[m]]
    BY <1>1, <1>2
  <2>2. timer <= FetchBound /\ \A s \in Services : heard[s] <= timer
    BY DEF Inv, Clock, Ages
  <2> QED
    BY <2>1, <2>2 DEF Inv, TypeOK
<1> QED
  BY <1>3, <1>4, <1>5, <1>6 DEF Inv

LEMMA WakeInv == Inv /\ Wake => Inv'
<1> SUFFICES ASSUME Inv, Wake PROVE Inv'
  OBVIOUS
<1> USE TimesAssumption DEF Wake
<1>1. TypeOK'
  BY DEF Inv, TypeOK, published, environment, history, Stages, Stale
<1>2. CatalogIsRoutable'
  BY DEF Inv, CatalogIsRoutable, published
<1>3. Clock' /\ Ages'
  BY DEF Inv, Clock, Ages, TypeOK, published, history
<1> QED
  BY <1>1, <1>2, <1>3 DEF Inv

\* What a capped counter does.
LEMMA CappedStep ==
  ASSUME NEW bound \in Nat, NEW n \in 0..bound
  PROVE  Capped(n, bound) \in 0..bound /\ Capped(n, bound) <= n + 1
                                       /\ (n < bound => Capped(n, bound) = n + 1)
                                       /\ (~ (n < bound) => Capped(n, bound) = bound)
BY DEF Capped

LEMMA TickInv == Inv /\ Tick => Inv'
<1> SUFFICES ASSUME Inv, Tick PROVE Inv'
  OBVIOUS
<1> USE TimesAssumption
<1> DEFINE oldest == Stale + FetchBound + 1
<1>1. /\ timer' = Capped(timer, Interval + FetchBound)
      /\ age' = Capped(age, Stale + 1)
      /\ heard' = [s \in Services |-> Capped(heard[s], oldest)]
      /\ shown' = [m \in DOMAIN shown |-> Capped(shown[m], oldest)]
      /\ UNCHANGED <<stage, pending, results, cache, model_backends, success, serving>>
      /\ UNCHANGED environment
  BY DEF Tick
<1>2. disturbed' = (disturbed \/ (stage = "fetching" /\ timer >= FetchBound))
  BY DEF Tick
<1>3. TypeOK
  BY DEF Inv
<1>4. /\ Interval + FetchBound \in Nat /\ Stale + 1 \in Nat /\ oldest \in Nat
      /\ timer \in 0..(Interval + FetchBound) /\ age \in 0..(Stale + 1)
      /\ \A s \in Services : heard[s] \in 0..oldest
      /\ \A m \in DOMAIN shown : shown[m] \in 0..oldest
  BY <1>3 DEF TypeOK, Stale
<1>5. /\ timer' \in 0..(Interval + FetchBound) /\ age' \in 0..(Stale + 1)
      /\ timer' <= timer + 1 /\ age' <= age + 1
      /\ timer < Interval + FetchBound => timer' = timer + 1
      /\ ~ (timer < Interval + FetchBound) => timer' = Interval + FetchBound
      /\ age < Stale + 1 => age' = age + 1
      /\ ~ (age < Stale + 1) => age' = Stale + 1
  BY <1>1, <1>4, CappedStep
<1>6. \A s \in Services : heard'[s] \in 0..oldest /\ heard'[s] <= heard[s] + 1
  BY <1>1, <1>4, CappedStep
<1>7. DOMAIN shown' = DOMAIN shown /\ \A m \in DOMAIN shown : shown'[m] \in 0..oldest /\ shown'[m] <= shown[m] + 1
  BY <1>1, <1>4, CappedStep
<1>8. TypeOK'
  <2>1. heard' \in [Services -> 0..oldest] /\ shown' \in [DOMAIN shown' -> 0..oldest]
    BY <1>1, <1>6, <1>7
  <2>2. disturbed' \in BOOLEAN
    BY <1>2
  <2> QED
    BY <1>1, <1>3, <1>5, <1>7, <2>1, <2>2 DEF TypeOK, environment, Stale
<1>9. CatalogIsRoutable'
  BY <1>1 DEF Inv, CatalogIsRoutable
<1>10. /\ stage = "listing" => timer < KubeBound
       /\ stage = "sleeping" => timer < Interval
       /\ ~disturbed' => ~disturbed /\ (stage = "fetching" => timer < FetchBound)
  <2>1. /\ stage = "listing" => timer < KubeBound
        /\ stage = "sleeping" => timer < Interval
    BY DEF Tick
  <2>2. ASSUME ~disturbed' PROVE ~disturbed /\ ~ (stage = "fetching" /\ timer >= FetchBound)
    BY <1>2, <2>2, Zenon
  <2>3. ~ (timer >= FetchBound) => timer < FetchBound
    BY <1>4
  <2> QED
    BY <2>1, <2>2, <2>3, Zenon
<1>11. Clock'
  <2>1. /\ stage' = "listing" => timer' <= KubeBound
        /\ stage' = "sleeping" => timer' <= Interval /\ serving'
        /\ serving' /\ ~disturbed' => success'
    BY <1>1, <1>3, <1>4, <1>5, <1>10 DEF Inv, Clock, TypeOK, Stages
  <2>2. stage' = "fetching" /\ ~disturbed' => timer' <= FetchBound
    BY <1>1, <1>3, <1>4, <1>5, <1>10 DEF Inv, Clock, TypeOK, Stages
  <2>3. ASSUME success', stage' = "sleeping" PROVE age' <= timer'
    BY <1>1, <1>4, <1>5, <1>10, <2>3 DEF Inv, Clock
  <2>4. ASSUME success', stage' = "listing" PROVE age' <= Interval + timer'
    BY <1>1, <1>4, <1>5, <1>10, <2>4 DEF Inv, Clock
  <2>5. ASSUME success', stage' = "fetching"
        PROVE  age' <= Interval + KubeBound + timer' \/ timer' = Interval + FetchBound
    <3>1. age <= Interval + KubeBound + timer \/ timer = Interval + FetchBound
      BY <1>1, <2>5 DEF Inv, Clock
    <3>2. /\ Interval \in Nat /\ KubeBound \in Nat /\ FetchBound \in Nat
          /\ timer \in Nat /\ age \in Nat /\ age' \in Nat /\ timer <= Interval + FetchBound
      BY <1>4, <1>5
    <3>3. CASE timer < Interval + FetchBound
      <4>1. timer' = timer + 1 /\ age' <= age + 1 /\ age <= Interval + KubeBound + timer
        BY <1>5, <3>1, <3>2, <3>3
      <4> QED
        BY ONLY <3>2, <4>1
    <3>4. CASE ~ (timer < Interval + FetchBound)
      BY <1>5, <3>4
    <3> QED
      BY <3>3, <3>4
  <2> QED
    BY <2>1, <2>2, <2>3, <2>4, <2>5 DEF Clock
<1>12. Ages'
  <2> SUFFICES ASSUME ~disturbed' PROVE /\ stage = "fetching" => \A s \in Services : heard'[s] <= timer'
                                        /\ \A m \in DOMAIN shown : shown'[m] <= age' + FetchBound
    BY <1>1, <1>7 DEF Ages
  <2>1. ASSUME stage = "fetching", NEW s \in Services PROVE heard'[s] <= timer'
    <3>1. heard[s] <= timer /\ timer' = timer + 1
      BY <1>4, <1>5, <1>10, <2>1 DEF Inv, Ages
    <3> QED
      BY <1>4, <1>6, <3>1
  <2>2. ASSUME NEW m \in DOMAIN shown PROVE shown'[m] <= age' + FetchBound
    <3>1. shown[m] <= age + FetchBound
      BY <1>10 DEF Inv, Ages
    <3> QED
      BY <1>4, <1>5, <1>7, <3>1 DEF Stale
  <2> QED
    BY <2>1, <2>2
<1> QED
  BY <1>8, <1>9, <1>11, <1>12 DEF Inv

LEMMA EnvironmentInv == Inv /\ EnvironmentStep => Inv'
<1> SUFFICES ASSUME Inv, EnvironmentStep PROVE Inv'
  OBVIOUS
<1>1. UNCHANGED <<refresh, published, serving, history>> /\ changes' \in 0..MaxChanges
  BY ChangesAssumption DEF EnvironmentStep, KubeChanged, ServiceApplied, BackendChanged, Change, Inv, TypeOK
<1>2. /\ cluster' \in [Services -> Manifests \union {Absent}]
      /\ answers' \in [Services -> AnswerSet] /\ kubeUp' \in BOOLEAN
  <2>1. TypeOK
    BY DEF Inv
  <2>2. CASE KubeChanged
    BY <2>1, <2>2, Zenon DEF KubeChanged, TypeOK
  <2>3. ASSUME NEW s \in Services, ServiceApplied(s)
        PROVE  /\ cluster' \in [Services -> Manifests \union {Absent}]
               /\ UNCHANGED <<answers, kubeUp>>
    BY <2>1, <2>3 DEF ServiceApplied, TypeOK
  <2>4. ASSUME NEW s \in Services, BackendChanged(s)
        PROVE answers' \in [Services -> AnswerSet] /\ UNCHANGED <<cluster, kubeUp>>
    BY <2>1, <2>4 DEF BackendChanged, TypeOK
  <2> QED
    BY <2>1, <2>2, <2>3, <2>4 DEF EnvironmentStep, TypeOK
<1>3. TypeOK'
  BY <1>1, <1>2 DEF Inv, TypeOK, refresh, published, history, Stale
<1>4. CatalogIsRoutable' /\ Clock' /\ Ages'
  BY <1>1 DEF Inv, CatalogIsRoutable, Clock, Ages, refresh, published, history
<1> QED
  BY <1>3, <1>4 DEF Inv

LEMMA NextInv == Inv /\ [Next]_vars => Inv'
<1>1. Inv /\ RefreshStep => Inv'
  BY ListedInv, ListFailedInv, FetchedInv, PublishInv, WakeInv DEF RefreshStep
<1>2. Inv /\ UNCHANGED vars => Inv'
  BY DEF Inv, TypeOK, CatalogIsRoutable, Clock, Ages, vars, refresh, published,
         environment, history, Stale
<1> QED
  BY <1>1, <1>2, TickInv, EnvironmentInv DEF Next

-----------------------------------------------------------------------------
(* The theorems.                                                           *)

\* Every reachable state of discovery satisfies the invariant above.
THEOREM Invariance == Spec => []Inv
BY InitInv, NextInv, PTL DEF Spec

\* The type invariant; in particular a route always leads to a Service that
\* exists as a URL, however the answers overlap.
THEOREM TypeCorrect == Spec => []TypeOK
<1>1. Inv => TypeOK
  BY DEF Inv
<1> QED
  BY <1>1, Invariance, PTL

\* What the catalog advertises is what chat can route, after every success
\* and every failure of a refresh.
THEOREM CatalogRoutable == Spec => []CatalogIsRoutable
<1>1. Inv => CatalogIsRoutable
  BY DEF Inv
<1> QED
  BY <1>1, Invariance, PTL

\* If a listing and a prompt answer together take no longer than the sleep,
\* a catalog once served is served until something fails: the staleness limit
\* of two intervals is enough for every choice of the times.
THEOREM CatalogAvailable == Spec => []AvailableUndisturbed
<1>1. Inv => AvailableUndisturbed
  <2> SUFFICES ASSUME Inv, serving, ~disturbed PROVE success /\ age <= Stale
    BY DEF AvailableUndisturbed, CatalogAnswers
  <2> QED
    BY TimesAssumption DEF Inv, Clock, TypeOK, Stages, Stale
<1> QED
  BY <1>1, Invariance, PTL

\* An answer in a served catalog is at most two intervals and one prompt
\* fetch old.
THEOREM CatalogFresh == Spec => []FreshUndisturbed
<1>1. Inv => FreshUndisturbed
  <2> SUFFICES ASSUME Inv, CatalogAnswers, ~disturbed, NEW m \in cache
               PROVE  shown[m] <= Stale + FetchBound
    BY DEF FreshUndisturbed
  <2>1. m \in DOMAIN shown /\ age <= Stale
    BY DEF Inv, TypeOK, CatalogIsRoutable, CatalogAnswers
  <2>2. shown[m] <= age + FetchBound
    BY <2>1 DEF Inv, Ages
  <2> QED
    BY <2>1, <2>2, TimesAssumption DEF Inv, TypeOK, Stale
<1> QED
  BY <1>1, Invariance, PTL
-----------------------------------------------------------------------------
(* Discovery and chat in one process.                                      *)

LEMMA RestartInv == Inv /\ Restart => Inv'
<1> SUFFICES ASSUME Inv, Restart PROVE Inv'
  OBVIOUS
<1> USE TimesAssumption, ChangesAssumption DEF Restart
<1>1. NoRoutes = [m \in DOMAIN NoRoutes |-> 0] /\ DOMAIN NoRoutes = {}
  BY DEF NoRoutes
<1>2. TypeOK'
  <2>1. /\ age' \in 0..(Stale + 1) /\ timer' \in 0..(Interval + FetchBound)
        /\ heard' \in [Services -> 0..(Stale + FetchBound + 1)]
    BY DEF Stale
  <2>2. /\ results' \in [Services -> SUBSET Models] /\ pending' \subseteq Services
        /\ cache' \subseteq Models
    OBVIOUS
  <2>3. /\ DOMAIN model_backends' \subseteq Models
        /\ model_backends' \in [DOMAIN model_backends' -> Services]
        /\ DOMAIN shown' = DOMAIN model_backends'
        /\ shown' \in [DOMAIN shown' -> 0..(Stale + FetchBound + 1)]
    BY <1>1
  <2>4. stage' \in Stages /\ success' \in BOOLEAN /\ serving' \in BOOLEAN /\ disturbed' \in BOOLEAN
    BY DEF Stages
  <2>5. /\ cluster' \in [Services -> Manifests \union {Absent}] /\ kubeUp' \in BOOLEAN
        /\ answers' \in [Services -> AnswerSet] /\ changes' \in 0..MaxChanges
    BY DEF Inv, TypeOK, environment
  <2> QED
    BY <2>1, <2>2, <2>3, <2>4, <2>5 DEF TypeOK, Stale
<1>3. CatalogIsRoutable'
  BY <1>1 DEF CatalogIsRoutable
<1>4. Clock' /\ Ages'
  BY <1>1 DEF Clock, Ages
<1> QED
  BY <1>2, <1>3, <1>4 DEF Inv

LEMMA SystemNextInv == Inv /\ [SystemNext]_systemVars => Inv'
<1>1. Inv /\ UNCHANGED vars => Inv'
  BY NextInv
<1> QED
  BY <1>1, NextInv, RestartInv DEF SystemNext, Discover, Converse, systemVars

\* Where a request waits, and for what, is known of every client.
Placed == DOMAIN phase = Clients /\ DOMAIN model = Clients

LEMMA SystemPlaced == Placed /\ [SystemNext]_systemVars => Placed'
<1> SUFFICES ASSUME Placed, [SystemNext]_systemVars PROVE Placed'
  OBVIOUS
<1>1. CASE Converse
  <2>1. PICK c \in Clients : Chat!ClientStep(c)
    BY <1>1 DEF Converse
  <2> QED
    BY <2>1 DEF Placed, Chat!ClientStep, Chat!Accept, Chat!Refuse, Chat!Refused, Chat!SendAnswered,
         Chat!SendFailed, Chat!ReadEnded, Chat!ReadCancelled, Chat!Closed, Chat!StreamStarted,
         Chat!StreamDropped, Chat!StreamEnded, Chat!StreamCancelled, Chat!GeneratorFinalized,
         Chat!Disconnect, Chat!Stall, Chat!ReadsAgain, Chat!BackendFinished, Chat!Done
<1>2. CASE Restart
  BY <1>2 DEF Restart, Chat!Restart, Placed
<1>3. CASE Discover \/ UNCHANGED systemVars
  BY <1>3 DEF Discover, systemVars, chatVars, Placed
<1> QED
  BY <1>1, <1>2, <1>3 DEF SystemNext

\* Only the admission of a client itself takes it from idle to sending.
LEMMA AdmittedReady ==
  ASSUME Placed, [SystemNext]_systemVars, NEW c \in Clients,
         phase[c] = "idle", phase'[c] = "sending"
  PROVE  model'[c] \in Ready
<1>1. CASE Converse
  <2>1. PICK d \in Clients : Chat!ClientStep(d)
    BY <1>1 DEF Converse
  <2>2. CASE \E m \in Models, stream \in BOOLEAN : Chat!Accept(d, m, stream)
    <3>1. PICK m \in Models, stream \in BOOLEAN : Chat!Accept(d, m, stream)
      BY <2>2
    <3>2. phase' = [phase EXCEPT ![d] = "sending"] /\ model' = [model EXCEPT ![d] = m] /\ m \in Ready
      BY <3>1 DEF Chat!Accept
    <3>3. c = d
      BY <3>2
    <3> QED
      BY <3>2, <3>3 DEF Placed
  <2>3. CASE \/ \E m \in Models : Chat!Refuse(d, m)
             \/ Chat!Refused(d) \/ Chat!SendFailed(d) \/ Chat!Closed(d)
    BY <2>3 DEF Placed, Chat!Refuse, Chat!Refused, Chat!SendFailed, Chat!Closed, Chat!Done
  <2>4. CASE \/ Chat!SendAnswered(d) \/ Chat!ReadEnded(d) \/ Chat!ReadCancelled(d)
             \/ Chat!StreamStarted(d) \/ Chat!StreamDropped(d) \/ Chat!StreamEnded(d)
             \/ Chat!GeneratorFinalized(d) \/ Chat!StreamCancelled(d)
    BY <2>4 DEF Placed, Chat!SendAnswered, Chat!ReadEnded, Chat!ReadCancelled, Chat!StreamStarted,
         Chat!StreamDropped, Chat!StreamEnded, Chat!GeneratorFinalized, Chat!StreamCancelled
  <2>5. CASE Chat!Disconnect(d) \/ Chat!Stall(d) \/ Chat!ReadsAgain(d) \/ Chat!BackendFinished(d)
    BY <2>5 DEF Chat!Disconnect, Chat!Stall, Chat!ReadsAgain, Chat!BackendFinished
  <2> QED
    BY <2>1, <2>2, <2>3, <2>4, <2>5 DEF Chat!ClientStep
<1>2. CASE Restart
  BY <1>2 DEF Restart, Chat!Restart
<1>3. CASE Discover \/ UNCHANGED systemVars
  BY <1>3 DEF Discover, systemVars, chatVars
<1> QED
  BY <1>1, <1>2, <1>3 DEF SystemNext

\* A catalog that is too old belongs to a cycle that a backend holds up: sleep,
\* listing and prompt fetches together stay below the limit.
LEMMA TooOldIsHeldUp == Inv /\ serving /\ success => CatalogAnswers \/ HeldUp
<1> SUFFICES ASSUME Inv, serving, success, ~ (age <= Stale) PROVE HeldUp
  BY DEF CatalogAnswers
<1>1. /\ age \in Nat /\ timer \in Nat /\ age > 2 * Interval
      /\ stage \in {"listing", "fetching", "sleeping"}
  BY TimesAssumption DEF Inv, TypeOK, Stages, Stale
<1>2. stage = "fetching"
  BY <1>1, TimesAssumption DEF Inv, Clock
<1>3. timer > FetchBound
  BY <1>1, <1>2, TimesAssumption DEF Inv, Clock
<1> QED
  BY <1>2, <1>3 DEF HeldUp

\* No request gets a slot for a model outside the catalog, and none while the
\* catalog is a 503, unless a backend holds up the discovery cycle: for every
\* choice of the times, and whatever the cluster, the clients and restarts do.
THEOREM AdmissionsServed == SystemSpec => AdmitsOnlyServed
<1>1. SystemInit => Inv /\ Placed
  BY InitInv DEF SystemInit, Chat!Init, Placed
<1>2. Inv /\ Placed /\ [SystemNext]_systemVars =>
        [\A c \in Clients :
           (phase[c] = "idle" /\ phase'[c] = "sending") =>
             model'[c] \in cache /\ (CatalogAnswers \/ (serving /\ success /\ HeldUp))]_systemVars
  <2> SUFFICES ASSUME Inv, Placed, [SystemNext]_systemVars, NEW c \in Clients,
                      phase[c] = "idle", phase'[c] = "sending"
               PROVE  model'[c] \in cache /\ (CatalogAnswers \/ (serving /\ success /\ HeldUp))
    OBVIOUS
  <2>1. model'[c] \in Ready
    BY AdmittedReady
  <2>2. serving /\ success /\ model'[c] \in cache
    BY <2>1 DEF Ready, Inv, CatalogIsRoutable, TypeOK
  <2> QED
    BY <2>2, TooOldIsHeldUp
<1> QED
  BY <1>1, <1>2, SystemNextInv, SystemPlaced, PTL DEF SystemSpec, AdmitsOnlyServed
=============================================================================
