------------------------- MODULE RpcOrchestratorProofs ------------------------
(***************************************************************************)
(* Proofs about RpcOrchestrator, for any providers, order of tiers, number *)
(* of requests and limit on failures.                                      *)
(***************************************************************************)
EXTENDS RpcOrchestrator, TLAPS

(* The limits, as far as a step of the providers' health is concerned. *)
HealthOK ==
  /\ healthy \subseteq Providers
  /\ failures \in [Providers -> 0..MaxConsecutiveFailures]
  /\ \A p \in healthy : failures[p] < MaxConsecutiveFailures

IInv == TypeOK /\ InUseBelowLimit /\ NoneSkipped

LEMMA OrderFacts ==
  /\ Last \in Nat
  /\ \A k \in 1..Last : Order[k] \in Providers
BY OrderAssumption DEF Last

LEMMA InitOK == Init => IInv
<1> SUFFICES ASSUME Init PROVE IInv
  OBVIOUS
<1>1. Last \in Nat /\ MaxConsecutiveFailures \in Nat \ {0}
  BY OrderFacts, LimitAssumption
<1>2. TypeOK
  <2>1. failures \in [Providers -> 0..MaxConsecutiveFailures] /\ checks \in [Providers -> Nat]
    BY <1>1 DEF Init
  <2>2. pos \in [Requests -> 0..(Last + 1)] /\ \A r \in Requests : pos[r] \notin 1..Last
    BY <1>1 DEF Init
  <2>3. checks \in [Providers -> 0..MaxChecks] /\ \A p \in Providers : ~(checks[p] > 0)
    BY ChecksAssumption DEF Init
  <2>4. QED
    BY <2>1, <2>2, <2>3 DEF Init, TypeOK
<1>3. InUseBelowLimit /\ NoneSkipped
  BY <1>1 DEF Init, InUseBelowLimit, NoneSkipped
<1>4. QED
  BY <1>2, <1>3 DEF IInv

LEMMA OneMoreBounded ==
  ASSUME NEW n \in 0..MaxConsecutiveFailures
  PROVE  /\ OneMore(n) \in 0..MaxConsecutiveFailures
         /\ n + 1 < MaxConsecutiveFailures => OneMore(n) < MaxConsecutiveFailures
BY LimitAssumption DEF OneMore

(* Failures, one for each provider in F, keep the limits and make no provider *)
(* healthy.                                                                   *)
LEMMA FailureKeepsLimits ==
  ASSUME HealthOK, NEW F, RecordFailure(F)
  PROVE  HealthOK' /\ healthy' \subseteq healthy
<1>1. \A p \in Providers : failures[p] \in 0..MaxConsecutiveFailures
  BY DEF HealthOK
<1>2. failures' \in [Providers -> 0..MaxConsecutiveFailures]
  BY <1>1, OneMoreBounded DEF RecordFailure
<1>3. healthy' \subseteq healthy /\ healthy \subseteq Providers
  BY DEF RecordFailure, HealthOK
<1>4. ASSUME NEW p \in healthy'
      PROVE  failures'[p] < MaxConsecutiveFailures
  <2>1. p \in healthy /\ p \in Providers
    BY <1>3, <1>4
  <2>2. CASE p \in F
    <3>1. failures'[p] = OneMore(failures[p]) /\ failures[p] + 1 < MaxConsecutiveFailures
      BY <1>4, <2>1, <2>2 DEF RecordFailure
    <3>2. QED
      BY <1>1, <2>1, <3>1, OneMoreBounded
  <2>3. CASE p \notin F
    <3>1. failures'[p] = failures[p]
      BY <2>1, <2>3 DEF RecordFailure
    <3>2. QED
      BY <2>1, <3>1 DEF HealthOK
  <2>4. QED
    BY <2>2, <2>3
<1>5. QED
  BY <1>2, <1>3, <1>4 DEF HealthOK

LEMMA SuccessKeepsLimits ==
  ASSUME HealthOK, NEW p \in Providers, RecordSuccess(p)
  PROVE  HealthOK'
BY LimitAssumption DEF HealthOK, RecordSuccess

(* A step that leaves the requests and their providers alone keeps the        *)
(* invariant if it keeps the limits.                                          *)
LEMMA HealthStep ==
  ASSUME IInv, HealthOK', StillOwed, UNCHANGED <<instances, pos>>,
         served' \subseteq served, timer' \in BOOLEAN,
         checks' \in [Providers -> 0..MaxChecks],
         \A p \in Providers : checks'[p] > 0 => p \in instances
  PROVE  IInv'
<1> USE DEF IInv
<1>1. owed' \in [Requests -> SUBSET healthy'] /\ \A r \in Requests : owed'[r] \subseteq owed[r]
  BY DEF StillOwed
<1>2. TypeOK'
  BY <1>1 DEF TypeOK, HealthOK
<1>3. NoneSkipped'
  BY <1>1 DEF NoneSkipped
<1>4. InUseBelowLimit'
  BY DEF HealthOK, InUseBelowLimit
<1>5. QED
  BY <1>2, <1>3, <1>4

LEMMA LimitsHold == IInv => HealthOK
BY DEF IInv, TypeOK, InUseBelowLimit, HealthOK

-------------------------------------------------------------------------------
LEMMA MonitorGood == IInv /\ MonitorProviderHealth => IInv'
<1> SUFFICES ASSUME IInv, MonitorProviderHealth PROVE IInv'
  OBVIOUS
<1>1. HealthOK'
  BY LimitsHold, FailureKeepsLimits DEF MonitorProviderHealth
<1>2. /\ StillOwed /\ instances' = instances /\ pos' = pos /\ served' = served /\ timer' = timer
      /\ timer \in BOOLEAN /\ instances \subseteq Providers
      /\ checks \in [Providers -> 0..MaxChecks]
  BY ImplementedAssumption DEF MonitorProviderHealth, IInv, TypeOK
<1>3. \A p \in Providers : /\ checks'[p] = checks[p] + IF p \in instances THEN 1 ELSE 0
                           /\ p \in instances => checks[p] < MaxChecks
  BY DEF MonitorProviderHealth
<1>4. ASSUME NEW p \in Providers
      PROVE  checks'[p] \in 0..MaxChecks /\ (checks'[p] > 0 => p \in instances)
  <2>1. checks[p] \in 0..MaxChecks /\ (checks[p] > 0 => p \in instances)
    BY DEF IInv, TypeOK
  <2>2. CASE p \in instances
    <3>1. checks'[p] = checks[p] + 1 /\ checks[p] < MaxChecks
      BY <1>3, <2>2
    <3>2. QED
      BY <2>1, <2>2, <3>1, ChecksAssumption
  <2>3. CASE p \notin instances
    <3>1. checks'[p] = checks[p] + 0
      BY <1>3, <2>3
    <3>2. QED
      BY <2>1, <3>1, ChecksAssumption
  <2>4. QED
    BY <2>2, <2>3
<1>5. checks' \in [Providers -> 0..MaxChecks]
  <2>1. checks' = [p \in Providers |-> checks[p] + IF p \in instances THEN 1 ELSE 0]
    BY DEF MonitorProviderHealth
  <2>2. QED
    BY <1>4, <2>1
<1>6. QED
  BY <1>1, <1>2, <1>4, <1>5, HealthStep

LEMMA CheckGood ==
  ASSUME IInv, NEW p \in Providers, NEW isHealthy \in BOOLEAN, CheckAnswers(p, isHealthy)
  PROVE  IInv'
<1>1. HealthOK'
  BY LimitsHold, FailureKeepsLimits, SuccessKeepsLimits DEF CheckAnswers
<1>2. /\ StillOwed /\ instances' = instances /\ pos' = pos /\ served' = served /\ timer' = timer
      /\ timer \in BOOLEAN /\ checks \in [Providers -> 0..MaxChecks]
      /\ checks[p] > 0 /\ checks' = [checks EXCEPT ![p] = @ - 1]
  BY DEF CheckAnswers, IInv, TypeOK
<1>3. ASSUME NEW q \in Providers
      PROVE  checks'[q] \in 0..MaxChecks /\ (checks'[q] > 0 => q \in instances)
  <2>1. checks[q] \in 0..MaxChecks /\ (checks[q] > 0 => q \in instances)
    BY DEF IInv, TypeOK
  <2>2. CASE q = p
    <3>1. checks'[q] = checks[q] - 1 /\ checks[q] > 0
      BY <1>2, <2>2
    <3>2. QED
      BY <2>1, <3>1, ChecksAssumption
  <2>3. CASE q # p
    BY <1>2, <2>1, <2>3
  <2>4. QED
    BY <2>2, <2>3
<1>4. checks' \in [Providers -> 0..MaxChecks]
  BY <1>2, <1>3
<1>5. QED
  BY <1>1, <1>2, <1>3, <1>4, HealthStep

LEMMA MarkGood ==
  ASSUME IInv, NEW p \in Providers, MarkProviderUnhealthy(p) \/ MarkProviderHealthy(p)
  PROVE  IInv'
<1>1. CASE MarkProviderUnhealthy(p)
  <2>1. HealthOK'
    BY <1>1, LimitsHold DEF HealthOK, MarkProviderUnhealthy
  <2>2. QED
    BY <1>1, <2>1, HealthStep DEF MarkProviderUnhealthy, IInv, TypeOK
<1>2. CASE MarkProviderHealthy(p)
  <2>1. HealthOK'
    BY <1>2, LimitsHold, SuccessKeepsLimits DEF MarkProviderHealthy
  <2>2. QED
    BY <1>2, <2>1, HealthStep DEF MarkProviderHealthy, IInv, TypeOK
<1>3. QED
  BY <1>1, <1>2

LEMMA OtherGood ==
  ASSUME IInv, ResetMetrics \/ Shutdown
  PROVE  IInv'
BY DEF IInv, TypeOK, InUseBelowLimit, NoneSkipped, ResetMetrics, Shutdown, health

-------------------------------------------------------------------------------
(* Requests *)

LEMMA FallBackGood ==
  ASSUME IInv, NEW r \in Requests, NEW i \in 1..(Last + 1), NEW failed,
         NEW due \in SUBSET healthy,
         \A p \in due : \E k \in i..Last : Order[k] = p,
         FallBack(r, i, failed, due),
         UNCHANGED <<instances, served, checks, timer>>
  PROVE  IInv'
<1>1. Last \in Nat /\ i \in Nat /\ i >= 1 /\ i <= Last + 1
  BY OrderFacts
<1>2. PICK j \in Askable(i) \cup {Last + 1} :
        /\ \A k \in Askable(i) : j <= k
        /\ RecordFailure(failed \cup {Order[k] : k \in {k \in Reached(i) : k <= j} \ Askable(i)})
        /\ pos' = [pos EXCEPT ![r] = j]
        /\ owed' = [q \in Requests |->
             (IF q = r THEN due \ {Order[k] : k \in {k \in Reached(i) : k <= j}}
              ELSE owed[q]) \cap healthy']
  BY DEF FallBack
<1>3. HealthOK' /\ healthy' \subseteq healthy
  BY <1>2, LimitsHold, FailureKeepsLimits
<1>4. /\ j \in Nat /\ j >= 1 /\ j <= Last + 1
      /\ j \in 1..Last => Order[j] \in instances
  BY <1>1, <1>2 DEF Askable, Reached
<1>5. TypeOK'
  <2>1. pos' \in [Requests -> 0..(Last + 1)]
    BY <1>1, <1>2, <1>4 DEF IInv, TypeOK
  <2>2. owed' \in [Requests -> SUBSET healthy']
    BY <1>2
  <2>3. ASSUME NEW q \in Requests, pos'[q] \in 1..Last
        PROVE  Order[pos'[q]] \in instances
    <3>1. CASE q = r
      BY <1>2, <1>4, <2>3, <3>1 DEF IInv, TypeOK
    <3>2. CASE q # r
      BY <1>2, <2>3, <3>2 DEF IInv, TypeOK
    <3>3. QED
      BY <3>1, <3>2
  <2>4. QED
    BY <1>3, <2>1, <2>2, <2>3 DEF IInv, TypeOK, HealthOK
<1>6. NoneSkipped'
  <2>1. ASSUME NEW q \in Requests, NEW p \in owed'[q]
        PROVE  \E k \in 1..Last : k > pos'[q] /\ Order[k] = p
    <3>1. CASE q = r
      <4>1. /\ p \in due /\ p \in healthy
            /\ \A k \in Reached(i) : k <= j => Order[k] # p
            /\ pos'[q] = j
        BY <1>2, <2>1, <3>1 DEF IInv, TypeOK
      <4>2. PICK k \in i..Last : Order[k] = p
        BY <4>1
      <4>3. k \in Reached(i)
        BY <4>1, <4>2 DEF Reached
      <4>4. k > j /\ k \in 1..Last
        BY <1>1, <1>4, <4>1, <4>2, <4>3
      <4>5. QED
        BY <4>1, <4>2, <4>4
    <3>2. CASE q # r
      <4>1. p \in owed[q] /\ pos'[q] = pos[q]
        BY <1>2, <2>1, <3>2 DEF IInv, TypeOK
      <4>2. QED
        BY <4>1 DEF IInv, NoneSkipped
    <3>3. QED
      BY <3>1, <3>2
  <2>2. QED
    BY <2>1 DEF NoneSkipped
<1>7. InUseBelowLimit'
  BY <1>3 DEF HealthOK, InUseBelowLimit
<1>8. QED
  BY <1>5, <1>6, <1>7 DEF IInv

LEMMA BeginGood ==
  ASSUME IInv, NEW r \in Requests, ExecuteWithFallback(r)
  PROVE  IInv'
<1> DEFINE due == healthy \cap {Order[k] : k \in 1..Last}
<1>1. due \in SUBSET healthy /\ \A p \in due : \E k \in 1..Last : Order[k] = p
  OBVIOUS
<1>2. 1 \in 1..(Last + 1)
  BY OrderFacts
<1>3. FallBack(r, 1, {}, due) /\ UNCHANGED <<instances, served, checks, timer>>
  BY DEF ExecuteWithFallback
<1> HIDE DEF due
<1>4. QED
  BY <1>1, <1>2, <1>3, FallBackGood

LEMMA FailGood ==
  ASSUME IInv, NEW r \in Requests, RequestFails(r)
  PROVE  IInv'
<1>1. /\ pos[r] \in 1..Last /\ Last \in Nat
      /\ FallBack(r, pos[r] + 1, {Order[pos[r]]}, owed[r])
      /\ UNCHANGED <<instances, served, checks, timer>>
  BY OrderFacts DEF RequestFails
<1>2. pos[r] + 1 \in 1..(Last + 1) /\ owed[r] \in SUBSET healthy
  BY <1>1 DEF IInv, TypeOK
<1>3. \A p \in owed[r] : \E k \in (pos[r] + 1)..Last : Order[k] = p
  <2>1. ASSUME NEW p \in owed[r] PROVE \E k \in (pos[r] + 1)..Last : Order[k] = p
    <3>1. PICK k \in 1..Last : k > pos[r] /\ Order[k] = p
      BY <2>1 DEF IInv, NoneSkipped
    <3>2. k \in (pos[r] + 1)..Last
      BY <1>1, <3>1
    <3>3. QED
      BY <3>1, <3>2
  <2>2. QED
    BY <2>1
<1>4. QED
  BY <1>1, <1>2, <1>3, FallBackGood

LEMMA SucceedGood ==
  ASSUME IInv, NEW r \in Requests, RequestSucceeds(r)
  PROVE  IInv'
<1>1. /\ pos[r] \in 1..Last /\ Last \in Nat /\ Order[pos[r]] \in Providers
      /\ Order[pos[r]] \in instances
  BY OrderFacts DEF RequestSucceeds, IInv, TypeOK
<1>2. HealthOK'
  BY <1>1, LimitsHold, SuccessKeepsLimits DEF RequestSucceeds
<1>3. /\ pos' = [pos EXCEPT ![r] = 0]
      /\ owed' = [q \in Requests |-> IF q = r THEN {} ELSE owed[q] \cap healthy']
      /\ instances' = instances /\ checks' = checks /\ timer' = timer
      /\ served' = served \cup {Order[pos[r]]}
  BY DEF RequestSucceeds
<1>4. TypeOK'
  <2>1. pos' \in [Requests -> 0..(Last + 1)] /\ owed' \in [Requests -> SUBSET healthy']
    BY <1>1, <1>3 DEF IInv, TypeOK
  <2>2. \A q \in Requests : pos'[q] \in 1..Last => Order[pos'[q]] \in instances
    BY <1>1, <1>3 DEF IInv, TypeOK
  <2>3. QED
    BY <1>1, <1>2, <1>3, <2>1, <2>2 DEF IInv, TypeOK, HealthOK
<1>5. NoneSkipped'
  <2>1. ASSUME NEW q \in Requests, NEW p \in owed'[q]
        PROVE  \E k \in 1..Last : k > pos'[q] /\ Order[k] = p
    <3>1. q # r /\ p \in owed[q] /\ pos'[q] = pos[q]
      BY <1>3, <2>1 DEF IInv, TypeOK
    <3>2. QED
      BY <3>1 DEF IInv, NoneSkipped
  <2>2. QED
    BY <2>1 DEF NoneSkipped
<1>6. InUseBelowLimit'
  BY <1>2 DEF HealthOK, InUseBelowLimit
<1>7. QED
  BY <1>4, <1>5, <1>6 DEF IInv

LEMMA StepOK == IInv /\ [Next]_vars => IInv'
<1> SUFFICES ASSUME IInv, [Next]_vars PROVE IInv'
  OBVIOUS
<1>1. CASE MonitorProviderHealth
  BY <1>1, MonitorGood
<1>2. ASSUME NEW p \in Providers, NEW isHealthy \in BOOLEAN, CheckAnswers(p, isHealthy)
      PROVE  IInv'
  BY <1>2, CheckGood
<1>3. ASSUME NEW p \in Providers, MarkProviderUnhealthy(p) \/ MarkProviderHealthy(p)
      PROVE  IInv'
  BY <1>3, MarkGood
<1>4. CASE ResetMetrics \/ Shutdown
  BY <1>4, OtherGood
<1>5. ASSUME NEW r \in Requests, ExecuteWithFallback(r) PROVE IInv'
  BY <1>5, BeginGood
<1>6. ASSUME NEW r \in Requests, RequestSucceeds(r) PROVE IInv'
  BY <1>6, SucceedGood
<1>7. ASSUME NEW r \in Requests, RequestFails(r) PROVE IInv'
  BY <1>7, FailGood
<1>8. CASE UNCHANGED vars
  BY <1>8 DEF vars, health, IInv, TypeOK, InUseBelowLimit, NoneSkipped
<1>9. QED
  BY <1>1, <1>2, <1>3, <1>4, <1>5, <1>6, <1>7, <1>8 DEF Next

(* What selectBestProvider picks follows from the order of the registry.      *)
LEMMA SelectionFollows == IInv => SelectionUsable
<1> SUFFICES ASSUME IInv, instances = Implemented, healthy \cap instances # {},
                    NEW p \in BestProviders(healthy)
             PROVE  p \in instances
  BY DEF SelectionUsable
<1>1. CASE healthy \cap served # {}
  BY <1>1 DEF BestProviders, IInv, TypeOK
<1>2. CASE healthy \cap served = {}
  <2>1. PICK i \in 1..Len(Registry) :
          p = Registry[i] /\ \A j \in 1..(i - 1) : Registry[j] \notin healthy
    BY <1>2 DEF BestProviders
  <2>2. PICK q \in healthy \cap instances : TRUE
    OBVIOUS
  <2>3. PICK j \in 1..Len(Registry) : q = Registry[j]
    BY <2>2, ImplementedAssumption DEF Providers
  <2>4. Len(Registry) \in Nat
    BY OrderAssumption
  <2>5. ~(j < i)
    BY <2>1, <2>2, <2>3, <2>4
  <2>6. QED
    BY <2>1, <2>2, <2>3, <2>5, ImplementedAssumption
<1>3. QED
  BY <1>1, <1>2

LEMMA Invariance == Spec => []IInv
BY InitOK, StepOK, PTL DEF Spec

(* Health, positions and checks keep their types: only providers with a       *)
(* client are awaited, checked or ever succeed.                               *)
THEOREM OrchestratorTypeCorrect == Spec => []TypeOK
BY Invariance, PTL DEF IInv

(* A provider in use is below the limit on consecutive failures.              *)
THEOREM InUseIsBelowLimit == Spec => []InUseBelowLimit
BY Invariance, PTL DEF IInv

(* A request passes over no provider that stayed healthy while it ran.        *)
THEOREM NoProviderIsSkipped == Spec => []NoneSkipped
BY Invariance, PTL DEF IInv

(* selectBestProvider picks a provider with a client whenever both clients    *)
(* exist and one of them is healthy.                                          *)
THEOREM SelectionIsUsable == Spec => []SelectionUsable
BY Invariance, SelectionFollows, PTL
===============================================================================
