---------------------------- MODULE RpcOrchestrator ---------------------------
(***************************************************************************)
(* RpcOrchestrator (packages/wallet-core/src/services/rpc): requests for   *)
(* one chain fall back from provider to provider, tier by tier, while the  *)
(* health rounds and the callers change the providers' health.             *)
(*                                                                         *)
(* A request runs without interruption until it awaits a provider, so one  *)
(* step takes it from one await to the next, past every provider that is   *)
(* unhealthy when it is reached or cannot be asked.                        *)
(*                                                                         *)
(* Of the metrics only their use is kept, whether a provider's success     *)
(* rate is above zero; failures are counted up to the limit that matters.  *)
(* What a provider answers is up to it: an error, the timeout and its own  *)
(* rate limit are all a failed request.                                    *)
(***************************************************************************)
EXTENDS Naturals, Sequences, FiniteSets

CONSTANTS
  Requests,
  Registry,      \* the provider ids in the registry's order
  Order,         \* those that serve the chain, by tier and weight
  Implemented,   \* 'ankr' and 'chainstack'
  MaxConsecutiveFailures,
  MaxChecks      \* bound on the health checks of a provider in flight

Providers == {Registry[i] : i \in 1..Len(Registry)}
Last == Len(Order)

ASSUME OrderAssumption ==
  /\ Registry \in Seq(Providers) /\ Order \in Seq(Providers)
  /\ \A i, j \in 1..Last : Order[i] = Order[j] => i = j
ASSUME ImplementedAssumption ==
  /\ Implemented \subseteq Providers
  /\ \A i, j \in 1..Len(Registry) :
       Registry[i] \in Implemented /\ Registry[j] \notin Implemented => i < j
ASSUME ChecksAssumption == MaxChecks \in Nat
ASSUME LimitAssumption == MaxConsecutiveFailures \in Nat \ {0}

VARIABLES
  instances,   \* ankrProvider and chainstackProvider, where they could be built
  healthy,     \* healthStatus: isHealthy
  failures,    \* healthStatus: consecutiveFailures, up to the limit
  served,      \* metrics: providers with a successRate above 0
  checks,      \* health checks in flight, of each provider
  timer,       \* healthCheckTimer runs
  pos,         \* of each request: 0 idle, i awaiting Order[i], Last + 1 given up
  owed         \* history: providers healthy ever since the request began that it
               \* has not asked

health == <<healthy, failures>>
vars == <<instances, health, served, checks, timer, pos, owed>>

Init ==
  /\ instances \in SUBSET Implemented
  /\ healthy = Providers
  /\ failures = [p \in Providers |-> 0]
  /\ served = {}
  /\ checks = [p \in Providers |-> 0]
  /\ timer = TRUE
  /\ pos = [r \in Requests |-> 0]
  /\ owed = [r \in Requests |-> {}]

-------------------------------------------------------------------------------
(* Health *)

OneMore(n) == IF n < MaxConsecutiveFailures THEN n + 1 ELSE n

(* The providers in F have failed once more. *)
RecordFailure(F) ==
  /\ failures' = [p \in Providers |-> IF p \in F THEN OneMore(failures[p]) ELSE failures[p]]
  /\ healthy' = {p \in healthy : p \in F => failures[p] + 1 < MaxConsecutiveFailures}

RecordSuccess(p) ==
  /\ failures' = [failures EXCEPT ![p] = 0]
  /\ healthy' = healthy \cup {p}

(* What a change of health means for the requests under way: bookkeeping.     *)
StillOwed == owed' = [r \in Requests |-> owed[r] \cap healthy']

(* Mutant: only providers still in use are checked. *)
MonitorProviderHealth_OnlyHealthy ==
  /\ \A p \in instances : checks[p] < MaxChecks
  /\ checks' = [p \in Providers |-> checks[p] + IF p \in instances \cap healthy THEN 1 ELSE 0]
  /\ RecordFailure(Providers \ Implemented)
  /\ StillOwed
  /\ UNCHANGED <<instances, served, timer, pos>>

(* The interval or a caller starts a round: one check of every instance; a    *)
(* provider nobody implemented throws at once, and one without an instance is *)
(* left alone.                                                                *)
MonitorProviderHealth ==
  /\ \A p \in instances : checks[p] < MaxChecks
  /\ checks' = [p \in Providers |-> checks[p] + IF p \in instances THEN 1 ELSE 0]
  /\ RecordFailure(Providers \ Implemented)
  /\ StillOwed
  /\ UNCHANGED <<instances, served, timer, pos>>

(* updateHealthStatus *)
CheckAnswers(p, isHealthy) ==
  /\ checks[p] > 0
  /\ checks' = [checks EXCEPT ![p] = @ - 1]
  /\ IF isHealthy THEN RecordSuccess(p) ELSE RecordFailure({p})
  /\ StillOwed
  /\ UNCHANGED <<instances, served, timer, pos>>

MarkProviderUnhealthy(p) ==
  /\ healthy' = healthy \ {p}
  /\ StillOwed
  /\ UNCHANGED <<failures, instances, served, checks, timer, pos>>

(* Mutant: the failures are not forgotten. *)
MarkProviderHealthy_KeepsCount(p) ==
  /\ healthy' = healthy \cup {p}
  /\ StillOwed
  /\ UNCHANGED <<failures, instances, served, checks, timer, pos>>

MarkProviderHealthy(p) ==
  /\ RecordSuccess(p)
  /\ StillOwed
  /\ UNCHANGED <<instances, served, checks, timer, pos>>

ResetMetrics ==
  /\ \E S \in {{p} : p \in Providers} \cup {Providers} : served' = served \ S
  /\ UNCHANGED <<instances, health, checks, timer, pos, owed>>

Shutdown ==
  /\ timer' = FALSE
  /\ UNCHANGED <<instances, health, served, checks, pos, owed>>

-------------------------------------------------------------------------------
(* executeWithFallback *)

(* Mutant: the loop goes on one provider too far. *)
Reached_SkipsOne(i) == {k \in (i + 1)..Last : Order[k] \in healthy}

(* The positions from i on whose provider is healthy when the loop gets there. *)
Reached(i) == {k \in i..Last : Order[k] \in healthy}

(* Mutant: it is not looked whether the client could be built. *)
Askable_Implemented(i) == {k \in Reached(i) : Order[k] \in Implemented}

(* Those among them that can be awaited. *)
Askable(i) == {k \in Reached(i) : Order[k] \in instances}

(* The loop of request r goes on at position i after the providers in failed   *)
(* have failed it; due are the ones it has not asked.  It stops at the first   *)
(* healthy instance, or gives up; healthy providers without an instance before *)
(* that are asked and fail at once.                                            *)
FallBack(r, i, failed, due) ==
  \E j \in Askable(i) \cup {Last + 1} :
    LET asked == {k \in Reached(i) : k <= j}
        refused == {Order[k] : k \in asked \ Askable(i)}
    IN /\ \A k \in Askable(i) : j <= k
       /\ RecordFailure(failed \cup refused)
       /\ pos' = [pos EXCEPT ![r] = j]
       /\ owed' = [q \in Requests |->
                     (IF q = r THEN due \ {Order[k] : k \in asked} ELSE owed[q]) \cap healthy']

ExecuteWithFallback(r) ==
  /\ pos[r] \in {0, Last + 1}
  /\ FallBack(r, 1, {}, healthy \cap {Order[k] : k \in 1..Last})
  /\ UNCHANGED <<instances, served, checks, timer>>

RequestSucceeds(r) ==
  /\ pos[r] \in 1..Last
  /\ RecordSuccess(Order[pos[r]])
  /\ served' = served \cup {Order[pos[r]]}
  /\ pos' = [pos EXCEPT ![r] = 0]
  /\ owed' = [q \in Requests |-> IF q = r THEN {} ELSE owed[q] \cap healthy']
  /\ UNCHANGED <<instances, checks, timer>>

RequestFails(r) ==
  /\ pos[r] \in 1..Last
  /\ FallBack(r, pos[r] + 1, {Order[pos[r]]}, owed[r])
  /\ UNCHANGED <<instances, served, checks, timer>>

Next ==
  \/ MonitorProviderHealth
  \/ \E p \in Providers :
       \/ \E isHealthy \in BOOLEAN : CheckAnswers(p, isHealthy)
       \/ MarkProviderUnhealthy(p)
       \/ MarkProviderHealthy(p)
  \/ ResetMetrics
  \/ Shutdown
  \/ \E r \in Requests : ExecuteWithFallback(r) \/ RequestSucceeds(r) \/ RequestFails(r)

Spec == Init /\ [][Next]_vars

(* The interval fires while it is set, every check is answered, at the latest *)
(* by its timeout, and a provider that is checked again and again answers     *)
(* well at some time.                                                         *)
Fairness ==
  /\ WF_vars(timer /\ MonitorProviderHealth)
  /\ \A p \in Providers : /\ WF_vars(\E isHealthy \in BOOLEAN : CheckAnswers(p, isHealthy))
                          /\ SF_vars(CheckAnswers(p, TRUE))

FairSpec == Spec /\ Fairness

-------------------------------------------------------------------------------
(* selectBestProvider: the registry's order is kept among equals, and a       *)
(* provider that never succeeded has rate 0 and latency 0.                    *)

(* Mutant: providers that were never used come first. *)
BestProviders_Untried(candidates) ==
  IF candidates \subseteq served THEN candidates
  ELSE {p \in candidates \ served : \E i \in 1..Len(Registry) :
          p = Registry[i] /\ \A j \in (i + 1)..Len(Registry) : Registry[j] \notin candidates \ served}

(* Which of the providers that have succeeded is best is up to their figures. *)
BestProviders(candidates) ==
  IF candidates \cap served # {} THEN candidates \cap served
  ELSE {p \in candidates : \E i \in 1..Len(Registry) :
          p = Registry[i] /\ \A j \in 1..(i - 1) : Registry[j] \notin candidates}

TypeOK ==
  /\ instances \subseteq Implemented
  /\ healthy \subseteq Providers
  /\ failures \in [Providers -> 0..MaxConsecutiveFailures]
  /\ served \subseteq instances
  /\ checks \in [Providers -> 0..MaxChecks]
  /\ \A p \in Providers : checks[p] > 0 => p \in instances
  /\ timer \in BOOLEAN
  /\ pos \in [Requests -> 0..(Last + 1)]
  /\ \A r \in Requests : pos[r] \in 1..Last => Order[pos[r]] \in instances
  /\ owed \in [Requests -> SUBSET healthy]

(* A provider in use has not failed MaxConsecutiveFailures times in a row, by *)
(* requests and checks in flight together, whoever marks it up or down.       *)
InUseBelowLimit == \A p \in healthy : failures[p] < MaxConsecutiveFailures

(* No request gives up on, or passes over, a provider that stayed healthy     *)
(* while it ran: those it has not asked are still ahead of it.                *)
NoneSkipped ==
  \A r \in Requests : \A p \in owed[r] : \E k \in 1..Last : k > pos[r] /\ Order[k] = p

(* Once both clients could be built, selectBestProvider names a provider that *)
(* has none only when no provider with one is healthy: the sort prefers what  *)
(* has succeeded, and the registry lists the two implemented ones first.      *)
SelectionUsable ==
  (instances = Implemented /\ healthy \cap instances # {})
    => BestProviders(healthy) \subseteq instances

(* While the health checks go on, a provider with a client that is written    *)
(* off comes back into use.                                                   *)
Recovers ==
  []timer => \A p \in Providers : (p \in instances /\ p \notin healthy) ~> (p \in healthy)
===============================================================================
