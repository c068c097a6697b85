--------------------------- MODULE RPCManagerProofs ---------------------------
(***************************************************************************)
(* Proofs about RPCManager, for any providers, limits, callers and rounds: *)
(* type correctness, the agreement of the health map with the provider     *)
(* list, the health verdict against the failure counter, the order and     *)
(* completeness of failover, and the bounds on how far concurrent requests *)
(* overshoot a rate limit and the failure threshold.                       *)
(***************************************************************************)
EXTENDS RPCManager, FiniteSetTheorems, TLAPS

USE EntriesAssumption, ThresholdAssumption

(* The loop up to its next await keeps the types of what it writes. *)
LEMMA ProceedType ==
  ASSUME TypeOK, NEW c \in Callers, NEW p \in Ids \cup {None},
         NEW S \in SUBSET Entries, NEW gone \in SUBSET Entries,
         Proceed(c, p, S, gone)
  PROVE  /\ pc' \in [Callers -> {"idle", "gaveUp", "fetch", "body"}]
         /\ cur' \in [Callers -> Entries \cup {None}]
         /\ todo' \in [Callers -> SUBSET Entries]
         /\ passed' \in [Callers -> SUBSET Entries]
         /\ count' \in [Ids -> Nat]
         /\ elapsed' \in [Ids -> BOOLEAN]
<1>1. CASE GiveUp(c, S, gone)
  BY <1>1 DEF TypeOK, GiveUp, rateVars
<1>2. ASSUME NEW e \in S, SendTo(c, p, S, e, gone)
      PROVE  /\ pc' \in [Callers -> {"idle", "gaveUp", "fetch", "body"}]
             /\ cur' \in [Callers -> Entries \cup {None}]
             /\ todo' \in [Callers -> SUBSET Entries]
             /\ passed' \in [Callers -> SUBSET Entries]
             /\ count' \in [Ids -> Nat]
             /\ elapsed' \in [Ids -> BOOLEAN]
  <2>1. e \in Entries /\ IdOf[e] \in Ids
    BY <1>2
  <2>2. pc' \in [Callers -> {"idle", "gaveUp", "fetch", "body"}]
    BY <1>2 DEF TypeOK, SendTo
  <2>3. cur' \in [Callers -> Entries \cup {None}]
    BY <1>2, <2>1 DEF TypeOK, SendTo
  <2>4. todo' \in [Callers -> SUBSET Entries]
    BY <1>2 DEF TypeOK, SendTo
  <2>5. passed' \in [Callers -> SUBSET Entries]
    BY <1>2 DEF TypeOK, SendTo
  <2>6. count' \in [Ids -> Nat] /\ elapsed' \in [Ids -> BOOLEAN]
    <3>1. \/ /\ count' = [count EXCEPT ![IdOf[e]] = 0]
             /\ elapsed' = [elapsed EXCEPT ![IdOf[e]] = FALSE]
          \/ count' = count /\ elapsed' = elapsed
      BY <1>2, Zenon DEF SendTo, rateVars
    <3>2. count' \in [Ids -> Nat]
      BY <2>1, <3>1 DEF TypeOK
    <3>3. elapsed' \in [Ids -> BOOLEAN]
      BY <2>1, <3>1, Zenon DEF TypeOK
    <3> QED
      BY <3>2, <3>3
  <2> QED
    BY <2>2, <2>3, <2>4, <2>5, <2>6
<1> QED
  BY <1>1, <1>2 DEF Proceed

(* Recording an outcome keeps the types of the health record. *)
LEMMA RecordType ==
  ASSUME TypeOK, NEW i \in Ids, RecordSuccess(i) \/ RecordFailure(i)
  PROVE  /\ known' \subseteq Ids
         /\ isHealthy' \in [Ids -> BOOLEAN]
         /\ failures' \in [Ids -> Nat]
<1>1. CASE RecordSuccess(i)
  <2>1. known' \subseteq Ids /\ failures' \in [Ids -> Nat]
    BY <1>1 DEF TypeOK, RecordSuccess, healthVars
  <2>2. isHealthy' \in [Ids -> BOOLEAN]
    BY <1>1, Zenon DEF TypeOK, RecordSuccess, healthVars
  <2> QED
    BY <2>1, <2>2
<1>2. CASE RecordFailure(i)
  <2>1. known' \subseteq Ids /\ failures' \in [Ids -> Nat]
    BY <1>2 DEF TypeOK, RecordFailure, healthVars
  <2>2. isHealthy' \in [Ids -> BOOLEAN]
    BY <1>2, ZenonT(30) DEF TypeOK, RecordFailure, healthVars
  <2> QED
    BY <2>1, <2>2
<1> QED
  BY <1>1, <1>2

LEMMA NextCheckType ==
  ASSUME TypeOK, NEW h \in Checkers, NextCheck(h)
  PROVE  /\ checking' \in [Checkers -> Entries \cup {None}]
         /\ toCheck' \in [Checkers -> SUBSET Entries]
BY DEF TypeOK, NextCheck

LEMMA FinishType ==
  ASSUME TypeOK, NEW c \in Callers, Finish(c)
  PROVE  /\ pc' \in [Callers -> {"idle", "gaveUp", "fetch", "body"}]
         /\ cur' \in [Callers -> Entries \cup {None}]
         /\ pref' \in [Callers -> Ids \cup {None}]
         /\ todo' \in [Callers -> SUBSET Entries]
         /\ list' \in [Callers -> SUBSET Entries]
         /\ passed' \in [Callers -> SUBSET Entries]
BY DEF TypeOK, Finish

(* A caller has an entry in flight exactly while it awaits one. *)
CurInFlight ==
  \A c \in Callers : cur[c] # None <=> pc[c] \in {"fetch", "body"}

TypeInv == TypeOK /\ CurInFlight

LEMMA ProceedCur ==
  ASSUME TypeInv, NEW c \in Callers, NEW p \in Ids \cup {None},
         NEW S \in SUBSET Entries, NEW gone \in SUBSET Entries,
         Proceed(c, p, S, gone)
  PROVE  CurInFlight'
<1>1. CASE GiveUp(c, S, gone)
  BY <1>1 DEF TypeInv, TypeOK, CurInFlight, GiveUp
<1>2. ASSUME NEW e \in S, SendTo(c, p, S, e, gone)
      PROVE  CurInFlight'
  BY <1>2 DEF TypeInv, TypeOK, CurInFlight, SendTo
<1> QED
  BY <1>1, <1>2 DEF Proceed

LEMMA InitTypeInv == Init => TypeInv
BY DEF Init, TypeInv, TypeOK, CurInFlight

LEMMA NextTypeInv == TypeInv /\ [Next]_vars => TypeInv'
<1> SUFFICES ASSUME TypeInv, [Next]_vars
             PROVE  TypeInv'
  OBVIOUS
<1> USE DEF TypeInv
<1>1. ASSUME NEW c \in Callers, NEW p \in Ids \cup {None},
             NEW skip \in SUBSET Ids, Request(c, p, skip)
      PROVE  TypeInv'
  <2> DEFINE S == Sorted(p, Candidates(skip))
  <2>1. S \in SUBSET Entries /\ {} \in SUBSET Entries
    BY DEF TypeOK, Sorted, Candidates
  <2>2. Proceed(c, p, S, {})
    BY <1>1 DEF Request
  <2> HIDE DEF S
  <2>3. list' = [list EXCEPT ![c] = S]
    BY <1>1 DEF Request, S
  <2>4. /\ pref' \in [Callers -> Ids \cup {None}]
        /\ list' \in [Callers -> SUBSET Entries]
    BY <1>1, <2>1, <2>3 DEF TypeOK, Request
  <2>5. /\ pc' \in [Callers -> {"idle", "gaveUp", "fetch", "body"}]
        /\ cur' \in [Callers -> Entries \cup {None}]
        /\ todo' \in [Callers -> SUBSET Entries]
        /\ passed' \in [Callers -> SUBSET Entries]
        /\ count' \in [Ids -> Nat]
        /\ elapsed' \in [Ids -> BOOLEAN]
    BY <2>1, <2>2, ProceedType
  <2>6. UNCHANGED <<providers, healthVars, checkVars>>
    BY <1>1 DEF Request
  <2>7. TypeOK'
    BY <2>4, <2>5, <2>6 DEF TypeOK, healthVars, checkVars
  <2> QED
    BY <2>1, <2>2, <2>7, ProceedCur
<1>2. ASSUME NEW c \in Callers, NEW skip \in SUBSET Ids, RequestRefused(c, skip)
      PROVE  TypeInv'
  <2>1. TypeOK'
    BY <1>2, FinishType DEF TypeOK, RequestRefused, healthVars, rateVars, checkVars
  <2> QED
    BY <1>2, <2>1 DEF TypeOK, CurInFlight, RequestRefused, Finish
<1>3. ASSUME NEW c \in Callers, Headers(c)
      PROVE  TypeInv'
  BY <1>3 DEF TypeOK, CurInFlight, Headers, healthVars, rateVars, checkVars
<1>4. ASSUME NEW c \in Callers, Answer(c)
      PROVE  TypeInv'
  <2>1. IdOf[cur[c]] \in Ids
    BY <1>4 DEF Answer, CurInFlight, TypeOK
  <2>2. count' \in [Ids -> Nat] /\ elapsed' \in [Ids -> BOOLEAN]
    BY <1>4, <2>1 DEF TypeOK, Answer, RecordRequest
  <2>3. TypeOK'
    BY <1>4, <2>1, <2>2, RecordType, FinishType DEF TypeOK, Answer, checkVars
  <2> QED
    BY <1>4, <2>3 DEF TypeOK, CurInFlight, Answer, Finish
<1>5. ASSUME NEW c \in Callers, FetchFails(c) \/ BodyFails(c)
      PROVE  TypeInv'
  <2>1. cur[c] \in Entries /\ IdOf[cur[c]] \in Ids
    BY <1>5 DEF FetchFails, BodyFails, CurInFlight, TypeOK
  <2> DEFINE gone == passed[c] \cup {cur[c]}
  <2>2. gone \in SUBSET Entries /\ todo[c] \in SUBSET Entries
        /\ pref[c] \in Ids \cup {None}
    BY <2>1 DEF TypeOK
  <2>3. Proceed(c, pref[c], todo[c], gone)
    BY <1>5 DEF FetchFails, BodyFails, Failed
  <2> HIDE DEF gone
  <2>4. TypeOK'
    BY <1>5, <2>1, <2>2, <2>3, ProceedType, RecordType
       DEF TypeOK, FetchFails, BodyFails, Failed, checkVars
  <2> QED
    BY <2>2, <2>3, <2>4, ProceedCur
<1>6. ASSUME NEW h \in Checkers, CheckerStep(h)
      PROVE  TypeInv'
  <2>1. ASSUME NEW e \in Entries, StartChecks(h, e)
        PROVE  TypeInv'
    BY <2>1 DEF TypeOK, CurInFlight, StartChecks, healthVars, rateVars, callerVars
  <2>2. ASSUME checking[h] # None, NextCheck(h),
               known' \subseteq Ids, isHealthy' \in [Ids -> BOOLEAN],
               failures' \in [Ids -> Nat]
        PROVE  TypeInv'
    BY <2>2, NextCheckType
       DEF TypeOK, CurInFlight, NextCheck, rateVars, callerVars
  <2>3. CASE CheckOk(h)
    <3>1. checking[h] # None /\ IdOf[checking[h]] \in Ids
      BY <2>3 DEF CheckOk, TypeOK
    <3> QED
      BY <2>2, <2>3, <3>1, RecordType DEF CheckOk
  <2>4. CASE CheckNotOk(h)
    BY <2>2, <2>4 DEF CheckNotOk, TypeOK, healthVars
  <2>5. CASE CheckThrows(h)
    BY <2>2, <2>5 DEF CheckThrows, TypeOK
  <2> QED
    BY <1>6, <2>1, <2>3, <2>4, <2>5 DEF CheckerStep
<1>7. CASE Environment
  <2>1. ASSUME NEW i \in Ids, WindowElapses(i)
        PROVE  TypeInv'
    BY <2>1 DEF TypeOK, CurInFlight, WindowElapses, healthVars, callerVars, checkVars
  <2>2. ASSUME NEW i \in Ids, RemoveProvider(i)
        PROVE  TypeInv'
    BY <2>2 DEF TypeOK, CurInFlight, RemoveProvider, callerVars
  <2>3. ASSUME NEW I, ResetRateLimits(I)
        PROVE  TypeInv'
    BY <2>3 DEF TypeOK, CurInFlight, ResetRateLimits, healthVars, callerVars, checkVars
  <2>4. ASSUME NEW e \in Entries, AddProvider(e)
        PROVE  TypeInv'
    BY <2>4 DEF TypeOK, CurInFlight, AddProvider, callerVars
  <2>5. CASE Shutdown
    BY <2>5 DEF TypeOK, CurInFlight, Shutdown, healthVars, rateVars, callerVars
  <2> QED
    BY <1>7, <2>1, <2>2, <2>3, <2>4, <2>5 DEF Environment
<1>8. CASE UNCHANGED vars
  BY <1>8 DEF TypeOK, CurInFlight, vars, healthVars, rateVars, callerVars, checkVars
<1> QED
  BY <1>1, <1>2, <1>3, <1>4, <1>5, <1>6, <1>7, <1>8 DEF Next, CallerStep

(* Every variable keeps its type: the type invariant of RPCManager. *)
THEOREM TypeCorrect == Spec => []TypeOK
<1>1. Spec => []TypeInv
  BY InitTypeInv, NextTypeInv, PTL DEF Spec
<1>2. TypeInv => TypeOK
  BY DEF TypeInv
<1> QED
  BY <1>1, <1>2, PTL

-------------------------------------------------------------------------------
(* A healthy record exists, so an outcome that finds none changes nothing. *)
HealthInv ==
  \A i \in Ids : isHealthy[i] => i \in known /\ failures[i] < MaxConsecutiveFailures

LEMMA RecordHealth ==
  ASSUME TypeOK, HealthInv, NEW i \in Ids, RecordSuccess(i) \/ RecordFailure(i)
  PROVE  HealthInv'
<1> SUFFICES ASSUME NEW j \in Ids, isHealthy'[j]
             PROVE  j \in known' /\ failures'[j] < MaxConsecutiveFailures
  BY DEF HealthInv
<1>1. CASE i \notin known
  BY <1>1 DEF RecordSuccess, RecordFailure, HealthInv, healthVars
<1>2. CASE i \in known /\ RecordSuccess(i)
  BY <1>2 DEF TypeOK, RecordSuccess, HealthInv
<1>3. CASE i \in known /\ RecordFailure(i)
  BY <1>3 DEF TypeOK, RecordFailure, HealthInv
<1> QED
  BY <1>1, <1>2, <1>3

LEMMA NextHealthInv == TypeInv /\ HealthInv /\ [Next]_vars => HealthInv'
<1> SUFFICES ASSUME TypeInv, HealthInv, [Next]_vars
             PROVE  HealthInv'
  OBVIOUS
<1> USE DEF TypeInv
<1>1. ASSUME UNCHANGED healthVars
      PROVE  HealthInv'
  BY <1>1 DEF HealthInv, healthVars
<1>2. ASSUME NEW c \in Callers, Answer(c) \/ FetchFails(c) \/ BodyFails(c)
      PROVE  HealthInv'
  <2>1. IdOf[cur[c]] \in Ids
    BY <1>2 DEF Answer, FetchFails, BodyFails, CurInFlight, TypeOK
  <2> QED
    BY <1>2, <2>1, RecordHealth DEF Answer, FetchFails, BodyFails, Failed
<1>3. ASSUME NEW h \in Checkers, CheckOk(h)
      PROVE  HealthInv'
  <2>1. IdOf[checking[h]] \in Ids
    BY <1>3 DEF CheckOk, TypeOK
  <2> QED
    BY <1>3, <2>1, RecordHealth DEF CheckOk
<1>4. ASSUME NEW h \in Checkers, CheckThrows(h)
      PROVE  HealthInv'
  BY <1>4 DEF CheckThrows, HealthInv, TypeOK
<1>5. ASSUME NEW e \in Entries, AddProvider(e)
      PROVE  HealthInv'
  BY <1>5 DEF AddProvider, HealthInv, TypeOK
<1>6. ASSUME NEW i \in Ids, RemoveProvider(i)
      PROVE  HealthInv'
  BY <1>6 DEF RemoveProvider, HealthInv, TypeOK
<1> QED
  BY <1>1, <1>2, <1>3, <1>4, <1>5, <1>6
     DEF Next, CallerStep, CheckerStep, Environment, Request, RequestRefused,
         Headers, StartChecks, CheckNotOk, WindowElapses, ResetRateLimits,
         Shutdown, vars

LEMMA AlwaysHealthy == Spec => [](TypeInv /\ HealthInv)
<1>1. Init => HealthInv
  <2> SUFFICES ASSUME Init, NEW i \in Ids, isHealthy[i]
               PROVE  i \in known /\ failures[i] < MaxConsecutiveFailures
    BY DEF HealthInv
  <2>1. i \in known
    BY Zenon DEF Init
  <2>2. failures[i] = 0
    BY DEF Init
  <2> QED
    BY <2>1, <2>2
<1> QED
  BY <1>1, InitTypeInv, NextTypeInv, NextHealthInv, PTL DEF Spec

(* A provider offered to requests is below the failure threshold, whatever    *)
(* the order in which answers, failures, probes and registrations arrive.     *)
THEOREM HealthyIsBelowThreshold == Spec => []HealthyBelowThreshold
<1>1. HealthInv => HealthyBelowThreshold
  BY DEF HealthInv, HealthyBelowThreshold
<1> QED
  BY <1>1, AlwaysHealthy, PTL

-------------------------------------------------------------------------------
(* The provider list and the health map name the same providers, through any  *)
(* sequence of registrations and removals.                                    *)
THEOREM RecordsAgree == Spec => []RecordsMatchProviders
<1>1. Init => RecordsMatchProviders
  BY DEF Init, RecordsMatchProviders
<1>2. TypeInv /\ RecordsMatchProviders /\ [Next]_vars => RecordsMatchProviders'
  <2> SUFFICES ASSUME TypeInv, RecordsMatchProviders, [Next]_vars
               PROVE  RecordsMatchProviders'
    OBVIOUS
  <2>1. ASSUME UNCHANGED <<providers, known>>
        PROVE  RecordsMatchProviders'
    BY <2>1 DEF RecordsMatchProviders
  <2>2. ASSUME NEW e \in Entries, AddProvider(e)
        PROVE  RecordsMatchProviders'
    BY <2>2 DEF AddProvider, RecordsMatchProviders
  <2>3. ASSUME NEW i \in Ids, RemoveProvider(i)
        PROVE  RecordsMatchProviders'
    BY <2>3 DEF RemoveProvider, RecordsMatchProviders
  <2> QED
    BY <2>1, <2>2, <2>3
       DEF Next, CallerStep, CheckerStep, Environment, Request, RequestRefused,
           Headers, Answer, FetchFails, BodyFails, Failed, RecordSuccess,
           RecordFailure, StartChecks, CheckOk, CheckNotOk, CheckThrows,
           NextCheck, WindowElapses, ResetRateLimits, Shutdown, vars, healthVars
<1> QED
  BY <1>1, <1>2, InitTypeInv, NextTypeInv, PTL DEF Spec

-------------------------------------------------------------------------------
(* The bound on the overshoot of one provider whose limits are within L. *)
RateBound(i, L) == count[i] + Cardinality(InFlight(i)) < L + Cardinality(Callers)

LimitedBy(i, L) ==
  (\E e \in Entries : IdOf[e] = i) /\ \A e \in Entries : IdOf[e] = i => RateLimit[e] \in 1..L

LEMMA InFlightCard ==
  \A i : /\ IsFiniteSet(InFlight(i))
         /\ Cardinality(InFlight(i)) \in Nat
         /\ Cardinality(Callers) \in Nat
         /\ Cardinality(InFlight(i)) <= Cardinality(Callers)
BY FiniteAssumption, FS_Subset, FS_CardinalityType DEF InFlight

(* A step that counts nothing and admits nothing keeps the bound. *)
LEMMA RateShrinks ==
  ASSUME NEW i, NEW L \in Nat, RateBound(i, L), count[i] \in Nat,
         count'[i] \in Nat, count'[i] <= count[i],
         InFlight(i)' \subseteq InFlight(i)
  PROVE  RateBound(i, L)'
<1>1. /\ Cardinality(InFlight(i)') <= Cardinality(InFlight(i))
      /\ Cardinality(InFlight(i)') \in Nat
  BY InFlightCard, FS_Subset, FS_CardinalityType
<1> QED
  BY <1>1, InFlightCard DEF RateBound

(* Going on with the list either admits one request under the limit, or      *)
(* takes the caller out of flight.                                           *)
LEMMA ProceedRate ==
  ASSUME TypeInv, NEW i \in Ids, NEW L \in Nat, LimitedBy(i, L), RateBound(i, L),
         NEW c \in Callers, NEW p, NEW S \in SUBSET Entries, NEW gone,
         Proceed(c, p, S, gone)
  PROVE  RateBound(i, L)'
<1> USE DEF TypeInv
<1>1. CASE GiveUp(c, S, gone)
  <2>1. InFlight(i)' \subseteq InFlight(i)
    BY <1>1 DEF GiveUp, InFlight, TypeOK
  <2>2. count' = count
    BY <1>1 DEF GiveUp, rateVars
  <2> QED
    BY <2>1, <2>2, RateShrinks DEF TypeOK
<1>2. ASSUME NEW e \in S, SendTo(c, p, S, e, gone)
      PROVE  RateBound(i, L)'
  <2>0. e \in Entries /\ IdOf[e] \in Ids
    BY <1>2
  <2>1. CanMakeRequest(e) /\ cur' = [cur EXCEPT ![c] = e]
    BY <1>2 DEF SendTo, Admits
  <2>2. IF RateLimit[e] # 0 /\ elapsed[IdOf[e]]
          THEN count' = [count EXCEPT ![IdOf[e]] = 0]
          ELSE count' = count
    BY <1>2, Zenon DEF SendTo, rateVars
  <2>3. CASE IdOf[e] = i
    <3>1. RateLimit[e] \in 1..L
      BY <2>0, <2>3 DEF LimitedBy
    <3>2. CASE elapsed[i]
      <4>1. count'[i] = 0
        BY <2>0, <2>2, <2>3, <3>1, <3>2 DEF TypeOK
      <4>2. /\ Cardinality(InFlight(i)') \in Nat
            /\ Cardinality(InFlight(i)') <= Cardinality(Callers)
        BY FiniteAssumption, FS_Subset, FS_CardinalityType DEF InFlight
      <4> QED
        BY <3>1, <4>1, <4>2, InFlightCard DEF RateBound
    <3>3. CASE ~elapsed[i]
      <4>1. count'[i] = count[i] /\ count[i] < RateLimit[e] /\ count[i] \in Nat
        BY <2>0, <2>1, <2>2, <2>3, <3>1, <3>3 DEF TypeOK, CanMakeRequest
      <4>2. /\ Cardinality(InFlight(i)') \in Nat
            /\ Cardinality(InFlight(i)') <= Cardinality(Callers)
        BY FiniteAssumption, FS_Subset, FS_CardinalityType DEF InFlight
      <4> QED
        BY <3>1, <4>1, <4>2, InFlightCard DEF RateBound
    <3> QED
      BY <3>2, <3>3
  <2>4. CASE IdOf[e] # i
    <3>1. InFlight(i)' \subseteq InFlight(i)
      BY <2>0, <2>1, <2>4 DEF InFlight, TypeOK
    <3>2. count'[i] = count[i]
      BY <2>0, <2>2, <2>4 DEF TypeOK
    <3> QED
      BY <3>1, <3>2, RateShrinks DEF TypeOK
  <2> QED
    BY <2>3, <2>4
<1> QED
  BY <1>1, <1>2 DEF Proceed

LEMMA AnswerRate ==
  ASSUME TypeInv, NEW i \in Ids, NEW L \in Nat, RateBound(i, L),
         NEW c \in Callers, Answer(c)
  PROVE  RateBound(i, L)'
<1> USE DEF TypeInv
<1>1. /\ cur[c] \in Entries /\ IdOf[cur[c]] \in Ids
      /\ cur' = [cur EXCEPT ![c] = None]
      /\ count' = [count EXCEPT ![IdOf[cur[c]]] = @ + 1]
  BY DEF Answer, Finish, RecordRequest, CurInFlight, TypeOK
<1>2. CASE IdOf[cur[c]] = i
  <2>1. InFlight(i)' = InFlight(i) \ {c} /\ c \in InFlight(i)
    BY <1>1, <1>2 DEF InFlight, TypeOK
  <2>2. Cardinality(InFlight(i)') = Cardinality(InFlight(i)) - 1
    BY <2>1, InFlightCard, FS_RemoveElement
  <2>3. count'[i] = count[i] + 1 /\ count[i] \in Nat
    BY <1>1, <1>2 DEF TypeOK
  <2> QED
    BY <2>2, <2>3, InFlightCard DEF RateBound
<1>3. CASE IdOf[cur[c]] # i
  <2>1. InFlight(i)' \subseteq InFlight(i)
    BY <1>1 DEF InFlight, TypeOK
  <2>2. count'[i] = count[i]
    BY <1>1, <1>3 DEF TypeOK
  <2> QED
    BY <2>1, <2>2, RateShrinks DEF TypeOK
<1> QED
  BY <1>2, <1>3

LEMMA NextRate ==
  ASSUME NEW i \in Ids, NEW L \in Nat, LimitedBy(i, L)
  PROVE  TypeInv /\ RateBound(i, L) /\ [Next]_vars => RateBound(i, L)'
<1> SUFFICES ASSUME TypeInv, RateBound(i, L), [Next]_vars
             PROVE  RateBound(i, L)'
  OBVIOUS
<1> USE DEF TypeInv
<1>1. ASSUME UNCHANGED cur, count'[i] = count[i] \/ count'[i] = 0
      PROVE  RateBound(i, L)'
  <2>1. InFlight(i)' = InFlight(i)
    BY <1>1 DEF InFlight
  <2> QED
    BY <1>1, <2>1, RateShrinks DEF TypeOK
<1>2. ASSUME NEW c \in Callers, CallerStep(c)
      PROVE  RateBound(i, L)'
  <2>1. ASSUME NEW p \in Ids \cup {None}, NEW skip \in SUBSET Ids, Request(c, p, skip)
        PROVE  RateBound(i, L)'
    <3> DEFINE S == Sorted(p, Candidates(skip))
    <3>1. S \in SUBSET Entries /\ Proceed(c, p, S, {})
      BY <2>1 DEF Request, TypeOK, Sorted, Candidates
    <3> HIDE DEF S
    <3> QED
      BY <3>1, ProceedRate
  <2>2. ASSUME NEW skip \in SUBSET Ids, RequestRefused(c, skip)
        PROVE  RateBound(i, L)'
    <3>1. InFlight(i)' \subseteq InFlight(i) /\ count' = count
      BY <2>2 DEF RequestRefused, Finish, InFlight, TypeOK, rateVars
    <3> QED
      BY <3>1, RateShrinks DEF TypeOK
  <2>3. CASE Headers(c)
    BY <1>1, <2>3 DEF Headers, rateVars
  <2>4. CASE Answer(c)
    BY <2>4, AnswerRate
  <2>5. CASE FetchFails(c) \/ BodyFails(c)
    <3> DEFINE gone == passed[c] \cup {cur[c]}
    <3>1. todo[c] \in SUBSET Entries /\ Proceed(c, pref[c], todo[c], gone)
      BY <2>5 DEF FetchFails, BodyFails, Failed, TypeOK
    <3> HIDE DEF gone
    <3> QED
      BY <3>1, ProceedRate
  <2> QED
    BY <1>2, <2>1, <2>2, <2>3, <2>4, <2>5 DEF CallerStep
<1>3. ASSUME NEW h \in Checkers, CheckerStep(h)
      PROVE  RateBound(i, L)'
  BY <1>1, <1>3 DEF CheckerStep, StartChecks, CheckOk, CheckNotOk, CheckThrows,
                    NextCheck, rateVars, callerVars
<1>4. CASE Environment
  <2>1. ASSUME NEW j \in Ids, WindowElapses(j) \/ RemoveProvider(j)
        PROVE  RateBound(i, L)'
    BY <1>1, <2>1 DEF WindowElapses, RemoveProvider, callerVars, TypeOK
  <2>2. ASSUME NEW I, ResetRateLimits(I)
        PROVE  RateBound(i, L)'
    BY <1>1, <2>2 DEF ResetRateLimits, callerVars
  <2>3. ASSUME NEW e \in Entries, AddProvider(e)
        PROVE  RateBound(i, L)'
    BY <1>1, <2>3 DEF AddProvider, callerVars, TypeOK
  <2>4. CASE Shutdown
    BY <1>1, <2>4 DEF Shutdown, rateVars, callerVars
  <2> QED
    BY <1>4, <2>1, <2>2, <2>3, <2>4 DEF Environment
<1>5. CASE UNCHANGED vars
  BY <1>1, <1>5 DEF vars, rateVars, callerVars
<1> QED
  BY <1>2, <1>3, <1>4, <1>5 DEF Next

RateInv ==
  \A i \in Ids, L \in Nat : LimitedBy(i, L) => RateBound(i, L)

(* Concurrent requests overshoot a rate limit by less than their number: what *)
(* a window has counted plus what is in flight stays below limit plus callers. *)
THEOREM RateOvershootIsBounded == Spec => []RateOvershootBounded
<1>1. Init => RateInv
  <2> SUFFICES ASSUME Init, NEW i \in Ids, NEW L \in Nat, LimitedBy(i, L)
               PROVE  RateBound(i, L)
    BY DEF RateInv
  <2>1. InFlight(i) = {}
    BY DEF Init, InFlight
  <2>2. Cardinality(InFlight(i)) = 0
    BY <2>1, FS_EmptySet
  <2>3. count[i] = 0 /\ L >= 1
    BY DEF Init, LimitedBy
  <2> QED
    BY <2>2, <2>3, InFlightCard DEF RateBound
<1>2. TypeInv /\ RateInv /\ [Next]_vars => RateInv'
  BY NextRate DEF RateInv, LimitedBy
<1>3. Spec => [](TypeInv /\ RateInv)
  BY <1>1, <1>2, InitTypeInv, NextTypeInv, PTL DEF Spec
<1>4. RateInv => RateOvershootBounded
  BY DEF RateInv, RateOvershootBounded, RateBound, LimitedBy
<1> QED
  BY <1>3, <1>4, PTL

-------------------------------------------------------------------------------
(* Sorted lists: the preferred name first, then by rank, is a strict total    *)
(* order on the entries.                                                      *)
LEMMA BeforeIsOrder ==
  ASSUME NEW p
  PROVE  /\ \A d \in Entries : ~Before(p, d, d)
         /\ \A d, e \in Entries : Before(p, d, e) => ~Before(p, e, d)
         /\ \A d, e \in Entries : d # e => Before(p, d, e) \/ Before(p, e, d)
         /\ \A d, e, f \in Entries :
              Before(p, d, e) /\ Before(p, e, f) => Before(p, d, f)
BY RankAssumption DEF Before

(* A caller's list is what it has passed, the entry it awaits and what it has *)
(* still to visit, in that order; between requests nothing is left to visit.  *)
Ordered(c) ==
  /\ pc[c] \in {"fetch", "body"} =>
       /\ cur[c] \in list[c]
       /\ todo[c] = {d \in list[c] : Before(pref[c], cur[c], d)}
       /\ passed[c] = {d \in list[c] : Before(pref[c], d, cur[c])}
  /\ pc[c] = "gaveUp" => list[c] = passed[c]
  /\ pc[c] \in {"idle", "gaveUp"} => todo[c] = {}

OrderInv == \A c \in Callers : Ordered(c)

(* The loop writes the state of its own caller only, and what that caller may *)
(* still visit afterwards is part of the rest it went on with.                *)
LEMMA ProceedLocal ==
  ASSUME TypeOK, NEW c \in Callers, NEW p, NEW S \in SUBSET Entries, NEW gone,
         Proceed(c, p, S, gone)
  PROVE  /\ \A q \in Callers : q # c => /\ pc'[q] = pc[q] /\ cur'[q] = cur[q]
                                        /\ todo'[q] = todo[q]
                                        /\ passed'[q] = passed[q]
         /\ todo'[c] \subseteq S
         /\ cur'[c] \in S \cup {None}
<1>1. CASE GiveUp(c, S, gone)
  BY <1>1 DEF GiveUp, TypeOK
<1>2. ASSUME NEW e \in S, SendTo(c, p, S, e, gone)
      PROVE  /\ \A q \in Callers : q # c => /\ pc'[q] = pc[q] /\ cur'[q] = cur[q]
                                            /\ todo'[q] = todo[q]
                                            /\ passed'[q] = passed[q]
             /\ todo'[c] \subseteq S
             /\ cur'[c] \in S \cup {None}
  BY <1>2 DEF SendTo, TypeOK
<1> QED
  BY <1>1, <1>2 DEF Proceed

(* Going on with the rest S of a list of which gone has been passed keeps the *)
(* list in order: whatever comes before the first admitted entry of S cannot  *)
(* make a request and is passed over.                                         *)
LEMMA ProceedOrder ==
  ASSUME TypeOK, NEW c \in Callers, NEW p, NEW L \in SUBSET Entries,
         NEW S \in SUBSET L, NEW gone \in SUBSET L, L = gone \cup S,
         \A d \in gone, e \in S : Before(p, d, e),
         Proceed(c, p, S, gone), list'[c] = L, pref'[c] = p
  PROVE  Ordered(c)'
<1>1. CASE GiveUp(c, S, gone)
  BY <1>1 DEF GiveUp, TypeOK, Ordered
<1>2. ASSUME NEW e \in S, SendTo(c, p, S, e, gone)
      PROVE  Ordered(c)'
  <2>1. /\ pc'[c] = "fetch" /\ cur'[c] = e
        /\ todo'[c] = {d \in S : Before(p, e, d)}
        /\ passed'[c] = gone \cup {d \in S : Before(p, d, e) /\ ~CanMakeRequest(d)}
    BY <1>2 DEF SendTo, TypeOK
  <2>2. \A d \in S : CanMakeRequest(d) /\ d # e => Before(p, e, d)
    BY <1>2 DEF SendTo, Admits
  <2>3. {d \in S : Before(p, d, e) /\ ~CanMakeRequest(d)} = {d \in S : Before(p, d, e)}
    <3>1. ASSUME NEW d \in S, Before(p, d, e) PROVE ~CanMakeRequest(d)
      <4>1. ~Before(p, e, d) /\ d # e
        BY <3>1, BeforeIsOrder
      <4> QED
        BY <2>2, <4>1
    <3> QED
      BY <3>1
  <2>4. todo'[c] = {d \in L : Before(p, e, d)}
    BY <2>1, BeforeIsOrder
  <2>5. passed'[c] = {d \in L : Before(p, d, e)}
    BY <2>1, <2>3, BeforeIsOrder
  <2> QED
    BY <2>1, <2>4, <2>5 DEF Ordered
<1> QED
  BY <1>1, <1>2 DEF Proceed

LEMMA OrderedFrame ==
  ASSUME NEW q \in Callers, Ordered(q), pc'[q] = pc[q], cur'[q] = cur[q],
         todo'[q] = todo[q], pref'[q] = pref[q], list'[q] = list[q],
         passed'[q] = passed[q]
  PROVE  Ordered(q)'
BY DEF Ordered

LEMMA FinishOrdered ==
  ASSUME TypeOK, OrderInv, NEW c \in Callers, Finish(c)
  PROVE  OrderInv'
<1> SUFFICES ASSUME NEW q \in Callers PROVE Ordered(q)'
  BY DEF OrderInv
<1>1. CASE q = c
  BY <1>1 DEF Finish, TypeOK, Ordered
<1>2. CASE q # c
  BY <1>2, OrderedFrame DEF Finish, TypeOK, OrderInv
<1> QED
  BY <1>1, <1>2

LEMMA NextOrdered == TypeInv /\ OrderInv /\ [Next]_vars => OrderInv'
<1> SUFFICES ASSUME TypeInv, OrderInv, [Next]_vars
             PROVE  OrderInv'
  OBVIOUS
<1> USE DEF TypeInv
<1>1. ASSUME UNCHANGED callerVars
      PROVE  OrderInv'
  BY <1>1 DEF OrderInv, Ordered, callerVars
<1>2. ASSUME NEW c \in Callers, NEW p \in Ids \cup {None},
             NEW skip \in SUBSET Ids, Request(c, p, skip)
      PROVE  OrderInv'
  <2> DEFINE S == Sorted(p, Candidates(skip))
  <2>1. S \in SUBSET Entries /\ Proceed(c, p, S, {})
    BY <1>2 DEF Request, TypeOK, Sorted, Candidates
  <2>2. list' = [list EXCEPT ![c] = S] /\ pref' = [pref EXCEPT ![c] = p]
    BY <1>2 DEF Request
  <2> HIDE DEF S
  <2>3. list'[c] = S /\ pref'[c] = p
    BY <2>2 DEF TypeOK
  <2>4. S \in SUBSET S /\ {} \in SUBSET S /\ S = {} \cup S
    OBVIOUS
  <2>5. Ordered(c)'
    BY <2>1, <2>3, <2>4, ProceedOrder
  <2>6. ASSUME NEW q \in Callers, q # c PROVE Ordered(q)'
    <3>1. list'[q] = list[q] /\ pref'[q] = pref[q]
      BY <2>2, <2>6 DEF TypeOK
    <3> QED
      BY <2>1, <2>6, <3>1, ProceedLocal, OrderedFrame DEF OrderInv
  <2> QED
    BY <2>5, <2>6 DEF OrderInv
<1>3. ASSUME NEW c \in Callers, NEW skip \in SUBSET Ids, RequestRefused(c, skip)
      PROVE  OrderInv'
  BY <1>3, FinishOrdered DEF RequestRefused
<1>4. ASSUME NEW c \in Callers, Headers(c)
      PROVE  OrderInv'
  BY <1>4 DEF Headers, TypeOK, OrderInv, Ordered
<1>5. ASSUME NEW c \in Callers, Answer(c)
      PROVE  OrderInv'
  BY <1>5, FinishOrdered DEF Answer
<1>6. ASSUME NEW c \in Callers, FetchFails(c) \/ BodyFails(c)
      PROVE  OrderInv'
  <2> DEFINE gone == passed[c] \cup {cur[c]}
  <2>1. /\ cur[c] \in list[c]
        /\ todo[c] = {d \in list[c] : Before(pref[c], cur[c], d)}
        /\ passed[c] = {d \in list[c] : Before(pref[c], d, cur[c])}
        /\ list[c] \in SUBSET Entries
    BY <1>6 DEF FetchFails, BodyFails, OrderInv, Ordered, TypeOK
  <2>2. /\ todo[c] \in SUBSET list[c] /\ gone \in SUBSET list[c]
        /\ list[c] = gone \cup todo[c]
    BY <2>1, BeforeIsOrder
  <2>3. \A d \in gone, e \in todo[c] : Before(pref[c], d, e)
    BY <2>1, BeforeIsOrder
  <2>4. /\ Proceed(c, pref[c], todo[c], gone)
        /\ UNCHANGED <<pref, list>>
    BY <1>6 DEF FetchFails, BodyFails, Failed
  <2> HIDE DEF gone
  <2>5. Ordered(c)'
    <3> DEFINE L == list[c]
               S == todo[c]
               p == pref[c]
    <3>1. /\ L \in SUBSET Entries /\ S \in SUBSET L /\ gone \in SUBSET L
          /\ L = gone \cup S
          /\ \A d \in gone, e \in S : Before(p, d, e)
      BY <2>1, <2>2, <2>3
    <3>2. Proceed(c, p, S, gone) /\ list'[c] = L /\ pref'[c] = p
      BY <2>4
    <3> HIDE DEF L, S, p
    <3> QED
      BY <3>1, <3>2, ProceedOrder
  <2>6. ASSUME NEW q \in Callers, q # c PROVE Ordered(q)'
    <3>1. todo[c] \in SUBSET Entries
      BY <2>1, <2>2
    <3> QED
      BY <2>4, <2>6, <3>1, ProceedLocal, OrderedFrame DEF OrderInv
  <2> QED
    BY <2>5, <2>6 DEF OrderInv
<1>7. ASSUME NEW h \in Checkers, CheckerStep(h)
      PROVE  OrderInv'
  BY <1>1, <1>7 DEF CheckerStep, StartChecks, CheckOk, CheckNotOk, CheckThrows,
                    NextCheck
<1>8. CASE Environment
  BY <1>1, <1>8 DEF Environment, WindowElapses, RemoveProvider, ResetRateLimits,
                    AddProvider, Shutdown
<1>9. CASE UNCHANGED vars
  BY <1>1, <1>9 DEF vars
<1> QED
  BY <1>2, <1>3, <1>4, <1>5, <1>6, <1>7, <1>8, <1>9 DEF Next, CallerStep

LEMMA AlwaysOrdered == Spec => [](TypeInv /\ OrderInv)
<1>1. Init => OrderInv
  BY DEF Init, OrderInv, Ordered
<1> QED
  BY <1>1, InitTypeInv, NextTypeInv, NextOrdered, PTL DEF Spec

(* A request waits on a provider only after all before it in its list have    *)
(* failed it or were out of requests, whatever happens to them meanwhile.     *)
THEOREM FailoverIsInOrder == Spec => []FailoverInOrder
<1>1. OrderInv => FailoverInOrder
  BY DEF OrderInv, Ordered, FailoverInOrder
<1> QED
  BY <1>1, AlwaysOrdered, PTL

(* A request that reports ALL_PROVIDERS_FAILED has been failed by every       *)
(* provider it started with, or found it out of requests.                     *)
THEOREM GivingUpIsExhaustive == Spec => []GivesUpOnlyWhenExhausted
<1>1. OrderInv => GivesUpOnlyWhenExhausted
  BY DEF OrderInv, Ordered, GivesUpOnlyWhenExhausted
<1> QED
  BY <1>1, AlwaysOrdered, PTL

-------------------------------------------------------------------------------
(* The bound on the failures of one provider: a failure uses up a visit, and  *)
(* a new request, which brings new visits, takes only providers whose record  *)
(* is below the threshold.                                                    *)
EntriesOf(i) == {e \in Entries : IdOf[e] = i}
Visits(i) == Callers \X EntriesOf(i)

FailureBound(i) ==
  failures[i] + Cardinality(Exposure(i)) < MaxConsecutiveFailures + Cardinality(Visits(i))

LEMMA ExposureCard ==
  \A i : /\ IsFiniteSet(Visits(i)) /\ Cardinality(Visits(i)) \in Nat
         /\ Cardinality(Visits(i)) = Cardinality(Callers) * Cardinality(EntriesOf(i))
         /\ IsFiniteSet(Exposure(i)) /\ Cardinality(Exposure(i)) \in Nat
         /\ Exposure(i)' \in SUBSET Visits(i)
<1> TAKE i
<1>1. IsFiniteSet(EntriesOf(i))
  BY FiniteAssumption, FS_Subset DEF EntriesOf
<1>2. /\ IsFiniteSet(Visits(i)) /\ Cardinality(Visits(i)) \in Nat
      /\ Cardinality(Visits(i)) = Cardinality(Callers) * Cardinality(EntriesOf(i))
  BY <1>1, FiniteAssumption, FS_Product, FS_CardinalityType DEF Visits
<1>3. Exposure(i) \in SUBSET Visits(i) /\ Exposure(i)' \in SUBSET Visits(i)
  BY DEF Exposure, Visits, EntriesOf
<1> QED
  BY <1>2, <1>3, FS_Subset, FS_CardinalityType

(* A step that adds no visit keeps the bound if it adds no failure, or if it  *)
(* adds one and takes a visit away.                                           *)
LEMMA VisitsShrink ==
  ASSUME NEW i, FailureBound(i), failures[i] \in Nat, failures'[i] \in Nat,
         Exposure(i)' \subseteq Exposure(i), failures'[i] <= failures[i]
  PROVE  FailureBound(i)'
<1>1. /\ Cardinality(Exposure(i)') <= Cardinality(Exposure(i))
      /\ Cardinality(Exposure(i)') \in Nat
  BY ExposureCard, FS_Subset, FS_CardinalityType
<1>2. Cardinality(Visits(i)') = Cardinality(Visits(i))
  BY DEF Visits, EntriesOf
<1> QED
  BY <1>1, <1>2, ExposureCard DEF FailureBound

LEMMA VisitUsed ==
  ASSUME NEW i, NEW v \in Exposure(i), FailureBound(i), failures[i] \in Nat,
         failures'[i] \in Nat, failures'[i] <= failures[i] + 1,
         Exposure(i)' \subseteq Exposure(i) \ {v}
  PROVE  FailureBound(i)'
<1>1. /\ IsFiniteSet(Exposure(i) \ {v})
      /\ Cardinality(Exposure(i) \ {v}) = Cardinality(Exposure(i)) - 1
  BY ExposureCard, FS_RemoveElement
<1>2. /\ Cardinality(Exposure(i)') <= Cardinality(Exposure(i)) - 1
      /\ Cardinality(Exposure(i)') \in Nat
  BY <1>1, FS_Subset, FS_CardinalityType
<1>3. Cardinality(Visits(i)') = Cardinality(Visits(i))
  BY DEF Visits, EntriesOf
<1> QED
  BY <1>2, <1>3, ExposureCard DEF FailureBound

(* Below the threshold the visits that can exist at all are the bound. *)
LEMMA BelowThreshold ==
  ASSUME NEW i, failures'[i] \in Nat, failures'[i] < MaxConsecutiveFailures
  PROVE  FailureBound(i)'
<1>1. /\ Cardinality(Exposure(i)') <= Cardinality(Visits(i))
      /\ Cardinality(Exposure(i)') \in Nat
  BY ExposureCard, FS_Subset, FS_CardinalityType
<1>2. Cardinality(Visits(i)') = Cardinality(Visits(i))
  BY DEF Visits, EntriesOf
<1> QED
  BY <1>1, <1>2, ExposureCard DEF FailureBound

(* What a caller may still fail on. *)
VisitsOf(c) == todo[c] \cup {cur[c]}

LEMMA ExposureLocal ==
  ASSUME TypeOK, NEW c \in Callers, NEW i,
         \A q \in Callers : q # c => cur'[q] = cur[q] /\ todo'[q] = todo[q],
         \A e \in EntriesOf(i) : e \in VisitsOf(c)' => e \in VisitsOf(c)
  PROVE  Exposure(i)' \subseteq Exposure(i)
BY DEF Exposure, VisitsOf, EntriesOf

LEMMA FinishVisits ==
  ASSUME TypeInv, NEW c \in Callers, NEW i, Finish(c)
  PROVE  Exposure(i)' \subseteq Exposure(i)
<1>1. \A q \in Callers : q # c => cur'[q] = cur[q] /\ todo'[q] = todo[q]
  BY DEF Finish, TypeInv, TypeOK
<1>2. todo'[c] = {} /\ cur'[c] = None
  BY DEF Finish, TypeInv, TypeOK
<1>3. \A e \in EntriesOf(i) : e \notin VisitsOf(c)'
  BY <1>2 DEF VisitsOf, EntriesOf
<1> QED
  BY <1>1, <1>3, ExposureLocal DEF TypeInv

LEMMA NextFailures ==
  ASSUME NEW i \in Ids
  PROVE  TypeInv /\ HealthInv /\ OrderInv /\ FailureBound(i) /\ [Next]_vars
           => FailureBound(i)'
<1> SUFFICES ASSUME TypeInv, HealthInv, OrderInv, FailureBound(i), [Next]_vars
             PROVE  FailureBound(i)'
  OBVIOUS
<1>0. TypeInv'
  BY NextTypeInv
<1>f. failures[i] \in Nat /\ failures'[i] \in Nat
  BY <1>0 DEF TypeInv, TypeOK
<1> USE DEF TypeInv
<1>1. ASSUME UNCHANGED <<todo, cur>>,
             failures'[i] = failures[i] \/ failures'[i] = 0
      PROVE  FailureBound(i)'
  <2>1. CASE failures'[i] = 0
    BY <2>1, <1>f, BelowThreshold
  <2>2. CASE failures'[i] = failures[i]
    <3>1. Exposure(i)' = Exposure(i)
      BY <1>1 DEF Exposure
    <3> QED
      BY <1>f, <2>2, <3>1, VisitsShrink
  <2> QED
    BY <1>1, <2>1, <2>2
<1>2. ASSUME NEW c \in Callers, NEW p \in Ids \cup {None},
             NEW skip \in SUBSET Ids, Request(c, p, skip)
      PROVE  FailureBound(i)'
  <2> DEFINE S == Sorted(p, Candidates(skip))
  <2>1. S \in SUBSET Entries /\ Proceed(c, p, S, {})
    BY <1>2 DEF Request, TypeOK, Sorted, Candidates
  <2>2. \A e \in S : isHealthy[IdOf[e]]
    BY DEF Sorted, Candidates
  <2>3. failures' = failures
    BY <1>2 DEF Request, healthVars
  <2> HIDE DEF S
  <2>4. CASE \E e \in S : IdOf[e] = i
    <3>1. failures[i] < MaxConsecutiveFailures
      BY <2>2, <2>4 DEF HealthInv
    <3> QED
      BY <1>f, <2>3, <3>1, BelowThreshold
  <2>5. CASE \A e \in S : IdOf[e] # i
    <3>1. \A e \in EntriesOf(i) : e \notin VisitsOf(c)'
      BY <2>1, <2>5, ProceedLocal DEF VisitsOf, EntriesOf
    <3>2. Exposure(i)' \subseteq Exposure(i)
      BY <2>1, <3>1, ProceedLocal, ExposureLocal
    <3> QED
      BY <1>f, <2>3, <3>2, VisitsShrink
  <2> QED
    BY <2>4, <2>5
<1>3. ASSUME NEW c \in Callers, NEW skip \in SUBSET Ids, RequestRefused(c, skip)
      PROVE  FailureBound(i)'
  <2>1. Finish(c) /\ failures' = failures
    BY <1>3 DEF RequestRefused, healthVars
  <2>2. Exposure(i)' \subseteq Exposure(i)
    BY <2>1, FinishVisits
  <2> QED
    BY <1>f, <2>1, <2>2, VisitsShrink
<1>4. ASSUME NEW c \in Callers, Headers(c)
      PROVE  FailureBound(i)'
  BY <1>1, <1>4 DEF Headers, healthVars
<1>5. ASSUME NEW c \in Callers, Answer(c)
      PROVE  FailureBound(i)'
  <2>1. Finish(c)
    BY <1>5 DEF Answer
  <2>2. failures'[i] = failures[i] \/ failures'[i] = 0
    BY <1>5 DEF Answer, RecordSuccess, healthVars, TypeOK
  <2>3. Exposure(i)' \subseteq Exposure(i)
    BY <2>1, FinishVisits
  <2> QED
    BY <1>f, <2>2, <2>3, VisitsShrink
<1>6. ASSUME NEW c \in Callers, FetchFails(c) \/ BodyFails(c)
      PROVE  FailureBound(i)'
  <2> DEFINE gone == passed[c] \cup {cur[c]}
  <2>1. /\ cur[c] \in Entries /\ todo[c] \in SUBSET Entries
        /\ cur[c] \notin todo[c]
    <3>1. cur[c] \in list[c] /\ todo[c] = {d \in list[c] : Before(pref[c], cur[c], d)}
      BY <1>6 DEF FetchFails, BodyFails, OrderInv, Ordered
    <3> QED
      BY <3>1, BeforeIsOrder DEF TypeOK
  <2>2. Proceed(c, pref[c], todo[c], gone) /\ RecordFailure(IdOf[cur[c]])
    BY <1>6 DEF FetchFails, BodyFails, Failed
  <2> HIDE DEF gone
  <2>3. /\ \A q \in Callers : q # c => cur'[q] = cur[q] /\ todo'[q] = todo[q]
        /\ todo'[c] \subseteq todo[c]
        /\ cur'[c] \in todo[c] \cup {None}
    BY <2>1, <2>2, ProceedLocal
  <2>4. /\ failures'[i] <= failures[i] + 1
        /\ IdOf[cur[c]] # i => failures'[i] = failures[i]
    BY <1>f, <2>2 DEF RecordFailure, healthVars, TypeOK
  <2>5. CASE IdOf[cur[c]] = i
    <3>1. /\ <<c, cur[c]>> \in Exposure(i)
          /\ Exposure(i)' \subseteq Exposure(i) \ {<<c, cur[c]>>}
      BY <2>1, <2>3, <2>5 DEF Exposure
    <3> QED
      BY <1>f, <2>4, <3>1, VisitUsed
  <2>6. CASE IdOf[cur[c]] # i
    <3>1. Exposure(i)' \subseteq Exposure(i)
      BY <2>1, <2>3, <2>6 DEF Exposure
    <3> QED
      BY <1>f, <2>4, <2>6, <3>1, VisitsShrink
  <2> QED
    BY <2>5, <2>6
<1>7. ASSUME NEW h \in Checkers, CheckerStep(h)
      PROVE  FailureBound(i)'
  <2>1. ASSUME NEW e \in Entries, StartChecks(h, e)
        PROVE  FailureBound(i)'
    BY <1>1, <2>1 DEF StartChecks, healthVars, callerVars
  <2>2. CASE CheckOk(h)
    BY <1>1, <2>2 DEF CheckOk, NextCheck, RecordSuccess, healthVars, callerVars, TypeOK
  <2>3. CASE CheckNotOk(h) \/ CheckThrows(h)
    BY <1>1, <2>3 DEF CheckNotOk, CheckThrows, NextCheck, healthVars, callerVars
  <2> QED
    BY <1>7, <2>1, <2>2, <2>3 DEF CheckerStep
<1>8. CASE Environment
  <2>1. ASSUME NEW j \in Ids, RemoveProvider(j)
        PROVE  FailureBound(i)'
    BY <1>1, <2>1 DEF RemoveProvider, callerVars, TypeOK
  <2>2. ASSUME NEW e \in Entries, AddProvider(e)
        PROVE  FailureBound(i)'
    BY <1>1, <2>2 DEF AddProvider, callerVars, TypeOK
  <2>3. ASSUME NEW j \in Ids, WindowElapses(j)
        PROVE  FailureBound(i)'
    BY <1>1, <2>3 DEF WindowElapses, healthVars, callerVars
  <2>4. ASSUME NEW I, ResetRateLimits(I)
        PROVE  FailureBound(i)'
    BY <1>1, <2>4 DEF ResetRateLimits, healthVars, callerVars
  <2>5. CASE Shutdown
    BY <1>1, <2>5 DEF Shutdown, healthVars, callerVars
  <2> QED
    BY <1>8, <2>1, <2>2, <2>3, <2>4, <2>5 DEF Environment
<1>9. CASE UNCHANGED vars
  BY <1>1, <1>9 DEF vars, healthVars, callerVars
<1> QED
  BY <1>2, <1>3, <1>4, <1>5, <1>6, <1>7, <1>8, <1>9 DEF Next, CallerStep

FailureInv == \A i \in Ids : FailureBound(i)

(* The failure counter of a provider passes the threshold by fewer than the   *)
(* visits that pending requests still had on their lists.                     *)
THEOREM FailureOvershootIsBounded == Spec => []FailureOvershootBounded
<1>1. Init => FailureInv
  <2> SUFFICES ASSUME Init, NEW i \in Ids PROVE FailureBound(i)
    BY DEF FailureInv
  <2>1. Exposure(i) = {}
    BY DEF Init, Exposure
  <2>2. Cardinality(Exposure(i)) = 0
    BY <2>1, FS_EmptySet
  <2>3. failures[i] = 0
    BY DEF Init
  <2> QED
    BY <2>2, <2>3, ExposureCard DEF FailureBound
<1>2. TypeInv /\ HealthInv /\ OrderInv /\ FailureInv /\ [Next]_vars => FailureInv'
  BY NextFailures DEF FailureInv
<1>3. Spec => []FailureInv
  BY <1>1, <1>2, AlwaysOrdered, AlwaysHealthy, PTL DEF Spec
<1>4. FailureInv => FailureOvershootBounded
  BY ExposureCard DEF FailureInv, FailureOvershootBounded, FailureBound, EntriesOf
<1> QED
  BY <1>3, <1>4, PTL
===============================================================================
