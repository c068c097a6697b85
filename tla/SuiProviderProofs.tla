--------------------------- MODULE SuiProviderProofs --------------------------
(***************************************************************************)
(* Proofs about SuiProvider, for any calls, rates and sizes, however the   *)
(* wall clock is set.                                                      *)
(***************************************************************************)
EXTENDS SuiProvider, TLAPS

-------------------------------------------------------------------------------
(* Arithmetic *)

LEMMA Scaled ==
  ASSUME NEW p \in Nat, NEW x \in Int, NEW y \in Int, x <= y
  PROVE  p * x \in Int /\ p * y \in Int /\ p * x <= p * y
<1> DEFINE d == y - x
<1>1. d \in Nat /\ y = x + d
  OBVIOUS
<1>2. p * d \in Nat
  BY <1>1
<1>3. p * y = p * x + p * d
  BY <1>1
<1>4. QED
  BY <1>2, <1>3

LEMMA Stretches ==
  ASSUME NEW p \in Nat, NEW x \in Int, NEW y \in Int, NEW z \in Int
  PROVE  /\ p * (x - y) \in Int /\ p * (y - z) \in Int /\ p * (x - z) \in Int
         /\ p * (x - y) + p * (y - z) = p * (x - z)
OBVIOUS

LEMMA Divided ==
  ASSUME NEW n \in Int, NEW p \in Nat \ {0}
  PROVE  n \div p \in Int /\ p * (n \div p) \in Int /\ p * (n \div p) > n - p
OBVIOUS

(* A bucket holds at least the refill of a tick. *)
LEMMA CapacityType ==
  ASSUME NEW b \in Buckets
  PROVE  Capacity(b) \in Nat /\ Capacity(b) >= PerTick[b] /\ PerTick[b] \in Nat
<1>1. PerTick[b] \in Nat
  BY BucketsAssumption
<1>2. PerTick[b] * 1 <= PerTick[b] * Second
  BY <1>1, SizesAssumption, Scaled
<1>3. QED
  BY <1>1, <1>2, SizesAssumption DEF Capacity

LEMMA RefillBounds ==
  ASSUME TypeOK, NEW b \in Buckets
  PROVE  /\ Refilled(b) \in Int /\ PerTick[b] * (wall - last[b]) \in Int
         /\ Refilled(b) <= Capacity(b)
         /\ Refilled(b) <= level[b] + PerTick[b] * (wall - last[b])
         /\ \/ Refilled(b) = Capacity(b)
            \/ Refilled(b) = level[b] + PerTick[b] * (wall - last[b])
<1>1. wall - last[b] \in Int /\ level[b] \in Int /\ PerTick[b] \in Nat
  BY CapacityType DEF TypeOK
<1>2. PerTick[b] * (wall - last[b]) \in Int
  BY <1>1
<1>3. QED
  BY <1>1, <1>2, CapacityType DEF Refilled, AtMost

(* A sleep shorter than the longest leaves less than the refill of a tick     *)
(* missing.                                                                   *)
LEMMA SleepBounds ==
  ASSUME NEW b \in Buckets, NEW l \in Int
  PROVE  /\ Sleep(b, l) \in Nat \ {0}
         /\ PerTick[b] * Sleep(b, l) \in Nat /\ PerTick[b] * Sleep(b, l) >= PerTick[b]
         /\ \/ Sleep(b, l) = MaxSleep
            \/ l + PerTick[b] * Sleep(b, l) > Token - PerTick[b]
<1> DEFINE q == (Token - l) \div PerTick[b]
<1>1. PerTick[b] \in Nat /\ Token - l \in Int /\ MaxSleep \in Nat \ {0}
  BY CapacityType, SizesAssumption
<1>2. CASE PerTick[b] = 0
  <2>1. Sleep(b, l) = MaxSleep
    BY <1>2 DEF Sleep
  <2>2. QED
    BY <1>1, <1>2, <2>1
<1>3. CASE PerTick[b] # 0
  <2>1. PerTick[b] \in Nat \ {0}
    BY <1>1, <1>3
  <2>2. q \in Int /\ PerTick[b] * q \in Int /\ PerTick[b] * q > Token - l - PerTick[b]
    BY <1>1, <2>1, Divided
  <2>3. Sleep(b, l) = IF (IF q < 1 THEN 1 ELSE q) <= MaxSleep THEN (IF q < 1 THEN 1 ELSE q)
                      ELSE MaxSleep
    BY <1>3 DEF Sleep, AtMost
  <2> HIDE DEF q
  <2>4. Sleep(b, l) \in Nat \ {0} /\ (Sleep(b, l) = MaxSleep \/ Sleep(b, l) >= q)
    BY <2>2, <2>3, SizesAssumption
  <2>5. PerTick[b] * 1 <= PerTick[b] * Sleep(b, l) /\ PerTick[b] * Sleep(b, l) \in Int
    BY <1>1, <2>4, Scaled
  <2>6. Sleep(b, l) >= q => PerTick[b] * q <= PerTick[b] * Sleep(b, l)
    BY <1>1, <2>2, <2>4, Scaled
  <2>7. QED
    BY <1>1, <2>1, <2>2, <2>4, <2>5, <2>6, SizesAssumption
<1>4. QED
  BY <1>2, <1>3

-------------------------------------------------------------------------------
(* Type correctness *)

(* What the log makes of a look at bucket b. *)
Gives(b) ==
  requests' = IF Refilled(b) >= Token THEN [requests EXCEPT ![b] = Append(@, wall)]
                                      ELSE requests

LEMMA TryIsLogged ==
  ASSUME TypeOK, NEW c \in Calls, NEW b \in Buckets, NEW a, TryAcquire(c, b, a),
         bucket'[c] = b, Logged(c)
  PROVE  Gives(b)
<1>1. pc'[c] = IF Refilled(b) >= Token THEN "sent" ELSE "sleeping"
  BY DEF TryAcquire, TypeOK
<1>2. QED
  BY <1>1 DEF Logged, Gives

(* The two ways a call comes to look at a bucket. *)
LEMMA AcquireIsLogged ==
  ASSUME TypeOK, NEW c \in Calls, Acquire(c), Logged(c)
  PROVE  current \in Buckets /\ TryAcquire(c, current, 1) /\ Gives(current)
<1>1. current \in Buckets /\ TryAcquire(c, current, 1) /\ bucket'[c] = current
  BY DEF TypeOK, Acquire
<1>2. QED
  BY <1>1, TryIsLogged

LEMMA WakeUpIsLogged ==
  ASSUME TypeOK, NEW c \in Calls, WakesUp(c), Logged(c)
  PROVE  /\ bucket[c] \in Buckets
         /\ \/ TryAcquire(c, bucket[c], attempt[c] + 1) /\ Gives(bucket[c])
            \/ UNCHANGED <<bucketVars, requests>>
<1>1. bucket[c] \in Buckets /\ bucket' = bucket
  BY DEF TypeOK, WakesUp
<1>2. CASE attempt[c] < MaxAttempts
  BY <1>1, <1>2, TryIsLogged DEF WakesUp
<1>3. CASE ~(attempt[c] < MaxAttempts)
  <2>1. pc'[c] = "refused" /\ UNCHANGED bucketVars
    BY <1>3 DEF TypeOK, WakesUp
  <2>2. QED
    BY <1>1, <2>1 DEF Logged
<1>4. QED
  BY <1>2, <1>3

LEMMA OtherStepsSendNothing ==
  ASSUME TypeOK, NEW c \in Calls, Answered(c) \/ NetworkFails(c), Logged(c)
  PROVE  UNCHANGED <<bucketVars, requests>>
<1>1. pc'[c] # "sent" /\ UNCHANGED bucketVars
  BY DEF TypeOK, Answered, NetworkFails
<1>2. QED
  BY <1>1 DEF Logged

LEMMA TryKeepsTypes ==
  ASSUME TypeOK, NEW c \in Calls, NEW b \in Buckets, NEW a \in 0..MaxAttempts,
         TryAcquire(c, b, a), Gives(b)
  PROVE  /\ level' \in [Buckets -> Int] /\ last' \in [Buckets -> Int]
         /\ requests' \in [Buckets -> Seq(Int)] /\ pc' \in [Calls -> Places]
         /\ attempt' \in [Calls -> 0..MaxAttempts] /\ wakeAt' \in [Calls -> Int]
<1>1. Refilled(b) \in Int
  BY RefillBounds
<1>2. now + Sleep(b, Refilled(b)) \in Int
  <2>1. Sleep(b, Refilled(b)) \in Nat
    BY <1>1, SleepBounds
  <2>2. QED
    BY <2>1 DEF TypeOK
<1>3. last' \in [Buckets -> Int]
  <2>1. last' = [last EXCEPT ![b] = wall]
    BY DEF TryAcquire
  <2>2. QED
    BY <2>1 DEF TypeOK
<1>4. CASE Refilled(b) >= Token
  <2>1. level' \in [Buckets -> Int]
    <3>1. level' = [level EXCEPT ![b] = Refilled(b) - Token]
      BY <1>4 DEF TryAcquire
    <3>2. Refilled(b) - Token \in Int
      BY <1>1, SizesAssumption
    <3>3. QED
      BY <3>1, <3>2 DEF TypeOK
  <2>2. requests' \in [Buckets -> Seq(Int)]
    <3>1. Append(requests[b], wall) \in Seq(Int)
      BY DEF TypeOK
    <3>2. QED
      BY <1>4, <3>1 DEF Gives, TypeOK
  <2>3. pc' \in [Calls -> Places]
    BY <1>4 DEF TryAcquire, TypeOK, Places
  <2>4. QED
    BY <1>3, <1>4, <2>1, <2>2, <2>3 DEF TryAcquire, TypeOK
<1>5. CASE ~(Refilled(b) >= Token)
  <2>1. level' \in [Buckets -> Int]
    BY <1>1, <1>5 DEF TryAcquire, TypeOK
  <2>2. pc' \in [Calls -> Places]
    BY <1>5 DEF TryAcquire, TypeOK, Places
  <2>3. attempt' \in [Calls -> 0..MaxAttempts]
    BY <1>5 DEF TryAcquire, TypeOK
  <2>4. wakeAt' \in [Calls -> Int]
    BY <1>2, <1>5 DEF TryAcquire, TypeOK
  <2>5. QED
    BY <1>3, <1>5, <2>1, <2>2, <2>3, <2>4 DEF TryAcquire, Gives, TypeOK
<1>6. QED
  BY <1>4, <1>5

LEMMA TypeStep ==
  ASSUME TypeOK, [Next]_vars
  PROVE  TypeOK'
<1>1. ASSUME NEW c \in Calls, Acquire(c), Logged(c), UNCHANGED <<clockVars, current, retry>>
      PROVE  TypeOK'
  <2>1. 1 \in 0..MaxAttempts /\ current \in Buckets /\ TryAcquire(c, current, 1) /\ Gives(current)
    BY <1>1, AcquireIsLogged, SizesAssumption
  <2>2. Len(requests[current]) \in Nat
    BY <2>1 DEF TypeOK
  <2>3. QED
    BY <1>1, <2>1, <2>2, TryKeepsTypes DEF TypeOK, Acquire, clockVars
<1>2. ASSUME NEW c \in Calls, Begins(c), Logged(c) PROVE TypeOK'
  BY <1>1, <1>2 DEF Begins
<1>3. ASSUME NEW c \in Calls, Retries(c), Logged(c) PROVE TypeOK'
  BY <1>1, <1>3 DEF Retries
<1>4. ASSUME NEW c \in Calls, WakesUp(c), Logged(c) PROVE TypeOK'
  <2>1. CASE attempt[c] < MaxAttempts
    <3>1. attempt[c] + 1 \in 0..MaxAttempts /\ bucket[c] \in Buckets
      BY <2>1, SizesAssumption DEF TypeOK
    <3>2. TryAcquire(c, bucket[c], attempt[c] + 1) /\ bucket'[c] = bucket[c]
      BY <1>4, <2>1 DEF WakesUp
    <3>3. Gives(bucket[c])
      BY <1>4, <3>1, <3>2, TryIsLogged
    <3>4. QED
      BY <1>4, <2>1, <3>1, <3>2, <3>3, TryKeepsTypes DEF TypeOK, WakesUp, clockVars
  <2>2. CASE ~(attempt[c] < MaxAttempts)
    <3>1. pc' \in [Calls -> Places] /\ requests' = requests
      BY <1>4, <2>2 DEF TypeOK, WakesUp, Logged, Places
    <3>2. QED
      BY <1>4, <2>2, <3>1 DEF TypeOK, WakesUp, clockVars, bucketVars
  <2>3. QED
    BY <2>1, <2>2
<1>5. ASSUME NEW c \in Calls, Answered(c), Logged(c) PROVE TypeOK'
  <2>1. pc' \in [Calls -> Places] /\ requests' = requests
    BY <1>5, OtherStepsSendNothing DEF TypeOK, Answered, Places
  <2>2. QED
    BY <1>5, <2>1 DEF TypeOK, Answered, clockVars, bucketVars
<1>6. ASSUME NEW c \in Calls, NetworkFails(c), Logged(c) PROVE TypeOK'
  <2>1. pc' \in [Calls -> Places] /\ requests' = requests
    BY <1>6, OtherStepsSendNothing DEF TypeOK, NetworkFails, Places
  <2>2. retry' \in [Calls -> 0..MaxRetries]
    <3>1. CASE retry[c] < MaxRetries
      <4>1. retry' = [retry EXCEPT ![c] = retry[c] + 1] /\ retry[c] + 1 \in 0..MaxRetries
        BY <1>6, <3>1, SizesAssumption DEF TypeOK, NetworkFails
      <4>2. QED
        BY <4>1 DEF TypeOK
    <3>2. CASE ~(retry[c] < MaxRetries)
      BY <1>6, <3>2 DEF TypeOK, NetworkFails
    <3>3. QED
      BY <3>1, <3>2
  <2>3. QED
    BY <1>6, <2>1, <2>2 DEF TypeOK, NetworkFails, clockVars, bucketVars
<1>7. CASE SetRateLimitPerSecond
  <2>1. current + 1 \in Buckets
    BY <1>7, BucketsAssumption DEF TypeOK, SetRateLimitPerSecond, Buckets
  <2>2. QED
    BY <1>7, <2>1, CapacityType DEF TypeOK, SetRateLimitPerSecond, clockVars, callVars
<1>8. CASE Tick
  BY <1>8 DEF TypeOK, Tick, bucketVars, callVars
<1>9. CASE ClockIsSet
  BY <1>9, TimeAssumption DEF TypeOK, ClockIsSet, bucketVars, callVars
<1>10. CASE UNCHANGED vars
  BY <1>10 DEF TypeOK, vars, clockVars, bucketVars, callVars
<1>11. QED
  BY <1>2, <1>3, <1>4, <1>5, <1>6, <1>7, <1>8, <1>9, <1>10 DEF Next, CallStep

LEMMA TypeInit == Init => TypeOK
<1>1. \A b \in Buckets : Capacity(b) \in Int
  BY CapacityType
<1>2. 1 \in Buckets
  BY BucketsAssumption DEF Buckets
<1>3. Init => /\ level \in [Buckets -> Int] /\ last \in [Buckets -> Int]
              /\ requests \in [Buckets -> Seq(Int)]
  BY <1>1 DEF Init
<1>4. Init => pc \in [Calls -> Places] /\ retry \in [Calls -> 0..MaxRetries]
  BY SizesAssumption DEF Init, Places
<1>5. Init => /\ bucket \in [Calls -> Buckets] /\ attempt \in [Calls -> 0..MaxAttempts]
              /\ wakeAt \in [Calls -> Int] /\ since \in [Calls -> Nat]
  BY <1>2, SizesAssumption DEF Init
<1>6. Init => now \in Nat /\ wall \in Int /\ current \in Buckets
  BY <1>2 DEF Init
<1>7. Init => wasSet \in BOOLEAN
  BY DEF Init
<1>8. QED
  BY <1>3, <1>4, <1>5, <1>6, <1>7 DEF TypeOK

(* Every reachable state is well typed; in particular a call is retried at    *)
(* most maxRetries times and acquireToken sleeps at most its ten times.       *)
THEOREM SuiTypeCorrect == Spec => []TypeOK
BY TypeInit, TypeStep, PTL DEF Spec

-------------------------------------------------------------------------------
(* What a step does to a bucket *)

Rests(b) == level'[b] = level[b] /\ last'[b] = last[b] /\ requests'[b] = requests[b]

Refills(b) ==
  /\ Refilled(b) < Token
  /\ level'[b] = Refilled(b) /\ last'[b] = wall /\ requests'[b] = requests[b]

Grants(b) ==
  /\ Refilled(b) >= Token
  /\ level'[b] = Refilled(b) - Token /\ last'[b] = wall
  /\ requests'[b] = Append(requests[b], wall)

Replaces(b) ==
  /\ b = current + 1
  /\ level'[b] = Capacity(b) /\ last'[b] = wall /\ requests'[b] = requests[b]

LEMMA TryOnBucket ==
  ASSUME TypeOK, NEW c \in Calls, NEW e \in Buckets, NEW a, TryAcquire(c, e, a), Gives(e),
         NEW b \in Buckets
  PROVE  /\ b # e => Rests(b)
         /\ b = e => Refills(b) \/ Grants(b)
<1>1. Refilled(e) \in Int /\ Token \in Int
  BY RefillBounds, SizesAssumption
<1>2. last' = [last EXCEPT ![e] = wall]
  BY DEF TryAcquire
<1>3. CASE Refilled(e) >= Token
  <2>1. /\ level' = [level EXCEPT ![e] = Refilled(e) - Token]
        /\ requests' = [requests EXCEPT ![e] = Append(requests[e], wall)]
    BY <1>3 DEF TryAcquire, Gives
  <2>2. QED
    BY <1>2, <1>3, <2>1 DEF TypeOK, Rests, Grants
<1>4. CASE ~(Refilled(e) >= Token)
  <2>1. level' = [level EXCEPT ![e] = Refilled(e)] /\ requests' = requests
    BY <1>4 DEF TryAcquire, Gives
  <2>2. Refilled(e) < Token
    BY <1>1, <1>4
  <2>3. QED
    BY <1>2, <2>1, <2>2 DEF TypeOK, Rests, Refills
<1>5. QED
  BY <1>3, <1>4

LEMMA BucketStep ==
  ASSUME TypeOK, [Next]_vars, NEW b \in Buckets
  PROVE  Rests(b) \/ Refills(b) \/ Grants(b) \/ Replaces(b)
<1>1. ASSUME NEW c \in Calls, CallStep(c)
      PROVE  Rests(b) \/ Refills(b) \/ Grants(b)
  <2>1. CASE Acquire(c)
    <3>1. current \in Buckets /\ TryAcquire(c, current, 1) /\ Gives(current)
      BY <1>1, <2>1, AcquireIsLogged DEF CallStep
    <3>2. QED
      BY <3>1, TryOnBucket
  <2>2. CASE WakesUp(c)
    <3>1. bucket[c] \in Buckets
      BY DEF TypeOK
    <3>2. \/ TryAcquire(c, bucket[c], attempt[c] + 1) /\ Gives(bucket[c])
          \/ UNCHANGED <<bucketVars, requests>>
      BY <1>1, <2>2, WakeUpIsLogged DEF CallStep
    <3>3. QED
      BY <3>1, <3>2, TryOnBucket DEF Rests, bucketVars
  <2>3. CASE Answered(c) \/ NetworkFails(c)
    BY <1>1, <2>3, OtherStepsSendNothing DEF CallStep, Rests, bucketVars
  <2>4. QED
    BY <1>1, <2>1, <2>2, <2>3 DEF CallStep, Begins, Retries
<1>2. CASE SetRateLimitPerSecond
  <2>1. /\ level' = [level EXCEPT ![current + 1] = Capacity(current + 1)]
        /\ last' = [last EXCEPT ![current + 1] = wall] /\ requests' = requests
    BY <1>2 DEF SetRateLimitPerSecond
  <2>2. QED
    BY <2>1 DEF TypeOK, Rests, Replaces
<1>3. CASE Tick \/ ClockIsSet \/ UNCHANGED vars
  BY <1>3 DEF Tick, ClockIsSet, vars, Rests, bucketVars
<1>4. QED
  BY <1>1, <1>2, <1>3 DEF Next

-------------------------------------------------------------------------------
(* The rate limit *)

(* What the requests from the i-th to the j-th cost. *)
Spent(j, i) == (j - i + 1) * Token

(* A full bucket and its refill from time r to time t. *)
Earned(b, t, r) == Capacity(b) + PerTick[b] * (t - r)

(* Since any of its requests the bucket has given, with what is left in it,   *)
(* no more than it has earned by its last refill.                             *)
Balanced(b) ==
  /\ level[b] <= Capacity(b)
  /\ \A i \in 1..Len(requests[b]) :
       Spent(Len(requests[b]), i) + level[b] <= Earned(b, last[b], requests[b][i])

Limited(b) ==
  \A j \in 1..Len(requests[b]) : \A i \in 1..j :
    Spent(j, i) <= Earned(b, requests[b][j], requests[b][i])

(* A bucket that is not there yet has given out nothing. *)
Fresh(b) == b > current => requests[b] = <<>>

RateInv ==
  /\ TypeOK
  /\ \A b \in Buckets : Balanced(b) /\ Limited(b) /\ Fresh(b)
  /\ \A c \in Calls : bucket[c] <= current

LEMMA Spending ==
  ASSUME NEW j \in Int, NEW i \in Int
  PROVE  Spent(j, i) \in Int /\ Spent(j + 1, i) = Spent(j, i) + Token /\ Spent(i, i) = Token
<1> Token \in Int
  BY SizesAssumption
<1> QED
  BY DEF Spent

LEMMA Earning ==
  ASSUME NEW b \in Buckets, NEW t \in Int, NEW u \in Int, NEW r \in Int
  PROVE  /\ Earned(b, t, r) \in Int /\ PerTick[b] * (u - t) \in Int
         /\ Earned(b, u, r) = Earned(b, t, r) + PerTick[b] * (u - t)
         /\ Earned(b, r, r) = Capacity(b)
<1>1. PerTick[b] \in Nat /\ Capacity(b) \in Int
  BY CapacityType
<1>2. /\ PerTick[b] * (u - t) \in Int /\ PerTick[b] * (t - r) \in Int
      /\ PerTick[b] * (u - r) = PerTick[b] * (u - t) + PerTick[b] * (t - r)
  BY <1>1, Stretches
<1>3. r - r = 0 /\ PerTick[b] * 0 = 0
  BY <1>1
<1>4. QED
  BY <1>1, <1>2, <1>3 DEF Earned

(* What was balanced before the refill is balanced after it. *)
LEMMA RefillBalances ==
  ASSUME TypeOK, NEW b \in Buckets, Balanced(b), NEW i \in 1..Len(requests[b])
  PROVE  Spent(Len(requests[b]), i) + Refilled(b) <= Earned(b, wall, requests[b][i])
<1>1. /\ Len(requests[b]) \in Int /\ i \in Int /\ requests[b][i] \in Int
      /\ wall \in Int /\ last[b] \in Int /\ level[b] \in Int
  BY DEF TypeOK
<1>2. Spent(Len(requests[b]), i) \in Int
  BY <1>1, Spending
<1>3. Spent(Len(requests[b]), i) + level[b] <= Earned(b, last[b], requests[b][i])
  BY DEF Balanced
<1>4. /\ Earned(b, last[b], requests[b][i]) \in Int
      /\ Earned(b, wall, requests[b][i])
           = Earned(b, last[b], requests[b][i]) + PerTick[b] * (wall - last[b])
  BY <1>1, Earning
<1>5. /\ Refilled(b) \in Int /\ PerTick[b] * (wall - last[b]) \in Int
      /\ Refilled(b) <= level[b] + PerTick[b] * (wall - last[b])
  BY RefillBounds
<1>6. QED
  BY <1>1, <1>2, <1>3, <1>4, <1>5

LEMMA GrantBalances ==
  ASSUME TypeOK, NEW b \in Buckets, Balanced(b), Limited(b), Grants(b)
  PROVE  Balanced(b)' /\ Limited(b)'
<1> DEFINE n == Len(requests[b])
           g == requests'[b]
<1>1. n \in Nat /\ wall \in Int /\ requests[b] \in Seq(Int)
  BY DEF TypeOK
<1>2. Token \in Nat /\ Capacity(b) \in Int
  BY CapacityType, SizesAssumption
<1>3. Refilled(b) \in Int /\ Refilled(b) <= Capacity(b) /\ Token <= Refilled(b)
  BY <1>2, RefillBounds DEF Grants
<1>4. /\ Len(g) = n + 1 /\ g[n + 1] = wall
      /\ \A i \in 1..n : g[i] = requests[b][i]
  BY <1>1 DEF Grants
<1>5. level'[b] = Refilled(b) - Token /\ last'[b] = wall
  BY DEF Grants
<1>6. /\ Capacity(b)' = Capacity(b)
      /\ \A j, i : Spent(j, i)' = Spent(j, i)
      /\ \A t, r : Earned(b, t, r)' = Earned(b, t, r)
  BY DEF Capacity, Spent, Earned
<1> HIDE DEF g, n
<1>7. ASSUME NEW i \in 1..(n + 1)
      PROVE  /\ Earned(b, wall, g[i]) \in Int /\ Spent(n + 1, i) \in Int
             /\ Spent(n + 1, i) + (Refilled(b) - Token) <= Earned(b, wall, g[i])
  <2>1. CASE i = n + 1
    <3>1. Earned(b, wall, g[i]) = Capacity(b)
      BY <1>1, <1>4, <2>1, Earning
    <3>2. Spent(n + 1, i) = Token
      BY <1>1, <2>1, Spending
    <3>3. QED
      BY <1>2, <1>3, <3>1, <3>2
  <2>2. CASE i # n + 1
    <3>1. i \in 1..n /\ i \in Int
      BY <1>1, <2>2
    <3>2. g[i] = requests[b][i] /\ requests[b][i] \in Int
      <4>1. requests[b][i] \in Int
        BY <1>1, <3>1 DEF n
      <4>2. QED
        BY <1>4, <3>1, <4>1
    <3>3. Spent(n, i) + Refilled(b) <= Earned(b, wall, g[i])
      BY <3>1, <3>2, RefillBalances DEF n
    <3>4. Spent(n, i) \in Int /\ Spent(n + 1, i) = Spent(n, i) + Token
      <4>1. n \in Int /\ i \in Int
        BY <1>1, <3>1
      <4>2. QED
        BY <4>1, Spending
    <3>5. Earned(b, wall, g[i]) \in Int
      BY <1>1, <3>2, Earning
    <3>6. QED
      BY <1>2, <1>3, <3>3, <3>4, <3>5
  <2>3. QED
    BY <2>1, <2>2
<1>8. Balanced(b)'
  <2>1. level'[b] <= Capacity(b)
    BY <1>2, <1>3, <1>5
  <2>2. ASSUME NEW i \in 1..(n + 1) PROVE Spent(n + 1, i) + level'[b] <= Earned(b, last'[b], g[i])
    BY <1>5, <1>7
  <2>3. QED
    BY <1>4, <1>6, <2>1, <2>2 DEF Balanced, g
<1>9. Limited(b)'
  <2>1. ASSUME NEW j \in 1..(n + 1), NEW i \in 1..j
        PROVE  Spent(j, i) <= Earned(b, g[j], g[i])
    <3>1. CASE j = n + 1
      <4>1. i \in 1..(n + 1)
        BY <3>1
      <4>2. Spent(n + 1, i) <= Earned(b, wall, g[i])
        BY <1>2, <1>3, <1>7, <4>1
      <4>3. QED
        BY <1>4, <3>1, <4>2
    <3>2. CASE j # n + 1
      <4>1. j \in 1..n /\ i \in 1..n
        BY <1>1, <3>2
      <4>2. QED
        BY <1>4, <4>1 DEF Limited, n
    <3>3. QED
      BY <3>1, <3>2
  <2>2. QED
    BY <1>4, <1>6, <2>1 DEF Limited, g
<1>10. QED
  BY <1>8, <1>9

LEMMA RefillKeepsBalance ==
  ASSUME TypeOK, NEW b \in Buckets, Balanced(b), Limited(b), Refills(b)
  PROVE  Balanced(b)' /\ Limited(b)'
<1>1. /\ Capacity(b)' = Capacity(b) /\ requests'[b] = requests[b]
      /\ \A j, i : Spent(j, i)' = Spent(j, i)
      /\ \A t, r : Earned(b, t, r)' = Earned(b, t, r)
  BY DEF Capacity, Refills, Spent, Earned
<1>2. Limited(b)'
  BY <1>1 DEF Limited
<1>3. level'[b] = Refilled(b) /\ last'[b] = wall /\ Refilled(b) <= Capacity(b)
  BY RefillBounds DEF Refills
<1>4. ASSUME NEW i \in 1..Len(requests[b])
      PROVE  Spent(Len(requests[b]), i) + level'[b] <= Earned(b, last'[b], requests[b][i])
  BY <1>3, RefillBalances
<1>5. QED
  BY <1>1, <1>2, <1>3, <1>4 DEF Balanced

LEMMA RateStep ==
  ASSUME RateInv, [Next]_vars
  PROVE  RateInv'
<1>1. TypeOK /\ TypeOK'
  BY TypeStep DEF RateInv
<1>2. current' \in Int /\ current \in Int /\ current' >= current
  <2>1. current \in Int /\ current' \in Int
    BY <1>1, BucketsAssumption DEF TypeOK, Buckets
  <2>2. current' = current \/ current' = current + 1
    BY DEF Next, CallStep, Begins, Retries, WakesUp, Answered, NetworkFails, Tick, ClockIsSet,
           SetRateLimitPerSecond, vars
  <2>3. QED
    BY <2>1, <2>2
<1>3. ASSUME NEW b \in Buckets PROVE Balanced(b)' /\ Limited(b)'
  <2>1. Balanced(b) /\ Limited(b) /\ Fresh(b) /\ Capacity(b)' = Capacity(b)
    BY DEF RateInv, Capacity
  <2>2. CASE Rests(b)
    BY <2>1, <2>2 DEF Rests, Balanced, Limited
  <2>3. CASE Refills(b)
    BY <1>1, <2>1, <2>3, RefillKeepsBalance
  <2>4. CASE Grants(b)
    BY <1>1, <2>1, <2>4, GrantBalances
  <2>5. CASE Replaces(b)
    <3>1. b > current
      BY <1>2, <2>5 DEF Replaces
    <3>2. requests'[b] = <<>> /\ level'[b] = Capacity(b)
      BY <2>1, <2>5, <3>1 DEF Fresh, Replaces
    <3>3. Len(<<>>) = 0 /\ Capacity(b) \in Int
      BY CapacityType
    <3>4. QED
      BY <2>1, <3>2, <3>3 DEF Balanced, Limited
  <2>6. QED
    BY <1>1, <2>2, <2>3, <2>4, <2>5, BucketStep
<1>4. ASSUME NEW c \in Calls PROVE bucket'[c] <= current'
  <2>1. bucket[c] \in Int /\ bucket[c] <= current
    BY <1>1, BucketsAssumption DEF TypeOK, Buckets, RateInv
  <2>2. bucket'[c] \in {bucket[c], current}
    BY <1>1 DEF Next, CallStep, Begins, Retries, Acquire, WakesUp, Answered, NetworkFails, Tick,
                ClockIsSet, SetRateLimitPerSecond, vars, callVars, TypeOK
  <2>3. QED
    BY <1>2, <2>1, <2>2
<1>5. ASSUME NEW b \in Buckets PROVE Fresh(b)'
  <2>1. SUFFICES ASSUME b > current PROVE requests'[b] = requests[b]
    BY <1>2, BucketsAssumption DEF RateInv, Fresh, Buckets
  <2>2. ASSUME NEW c \in Calls, CallStep(c) PROVE requests'[b] = requests[b]
    <3>1. ASSUME NEW e \in Buckets, e <= current, NEW a, TryAcquire(c, e, a), Gives(e)
          PROVE  requests'[b] = requests[b]
      <4>1. b # e
        BY <1>2, <2>1, <3>1, BucketsAssumption DEF Buckets
      <4>2. QED
        BY <1>1, <3>1, <4>1, TryOnBucket DEF Rests
    <3>2. CASE Acquire(c)
      <4>1. /\ current \in Buckets /\ current <= current
            /\ TryAcquire(c, current, 1) /\ Gives(current)
        BY <1>1, <1>2, <2>2, <3>2, AcquireIsLogged DEF CallStep
      <4>2. QED
        BY <3>1, <4>1
    <3>3. CASE WakesUp(c)
      <4>1. bucket[c] \in Buckets /\ bucket[c] <= current
        BY <1>1 DEF TypeOK, RateInv
      <4>2. \/ TryAcquire(c, bucket[c], attempt[c] + 1) /\ Gives(bucket[c])
            \/ requests' = requests
        BY <1>1, <2>2, <3>3, WakeUpIsLogged DEF CallStep
      <4>3. QED
        BY <3>1, <4>1, <4>2
    <3>4. CASE Answered(c) \/ NetworkFails(c)
      BY <1>1, <2>2, <3>4, OtherStepsSendNothing DEF CallStep
    <3>5. QED
      BY <2>2, <3>2, <3>3, <3>4 DEF CallStep, Begins, Retries
  <2>3. CASE SetRateLimitPerSecond \/ Tick \/ ClockIsSet \/ UNCHANGED vars
    BY <2>3 DEF SetRateLimitPerSecond, Tick, ClockIsSet, vars, bucketVars
  <2>4. QED
    BY <2>2, <2>3 DEF Next
<1>6. QED
  BY <1>1, <1>3, <1>4, <1>5 DEF RateInv

LEMMA RateInit == Init => RateInv
<1> SUFFICES ASSUME Init PROVE RateInv
  OBVIOUS
<1>1. TypeOK
  BY TypeInit
<1>2. ASSUME NEW b \in Buckets PROVE Balanced(b) /\ Limited(b) /\ Fresh(b)
  <2>1. requests[b] = <<>> /\ level[b] = Capacity(b) /\ Len(<<>>) = 0 /\ Capacity(b) \in Int
    BY CapacityType DEF Init
  <2>2. QED
    BY <2>1 DEF Balanced, Limited, Fresh
<1>3. \A c \in Calls : bucket[c] <= current
  <2>1. current = 1 /\ \A c \in Calls : bucket[c] = 1
    BY DEF Init
  <2>2. 1 <= 1
    OBVIOUS
  <2>3. QED
    BY <2>1, <2>2, Zenon
<1>4. QED
  BY <1>1, <1>2, <1>3 DEF RateInv

(* The rate limit of a bucket holds over every stretch of time by its own     *)
(* clock, for any number of calls and retries and for any settings of that    *)
(* clock.                                                                     *)
THEOREM RateHolds == Spec => []RateIsLimited
<1>1. RateInv => RateIsLimited
  BY DEF RateInv, Limited, Spent, Earned, RateIsLimited
<1>2. QED
  BY <1>1, RateInit, RateStep, PTL DEF Spec

-------------------------------------------------------------------------------
(* What a refusal needs *)

(* The bucket refills a token in the longest sleep. *)
Fast(b) == PerTick[b] * MaxSleep >= Token

(* Requests of other calls since c asked its bucket.         *)
Others(c) == Len(requests[bucket[c]]) - since[c]

(* What the bucket will hold when c wakes up, if nobody takes a token.        *)
ByWakeUp(c) == level[bucket[c]] + PerTick[bucket[c]] * (wakeAt[c] - last[bucket[c]])

(* While the bucket gives out nothing, a first sleep leaves less than the     *)
(* refill of a tick missing, and a second one nothing; so c cannot sleep a    *)
(* third time before another call has sent a request.                         *)
Waits(c) ==
  /\ attempt[c] <= 2 * Others(c) + 2
  /\ attempt[c] = 2 * Others(c) + 1 => ByWakeUp(c) > Token - PerTick[bucket[c]]
  /\ attempt[c] = 2 * Others(c) + 2 => ByWakeUp(c) >= Token

Served(c) ==
  /\ since[c] <= Len(requests[bucket[c]])
  /\ pc[c] = "sleeping" /\ Fast(bucket[c]) => Waits(c)
  /\ pc[c] = "refused" /\ Fast(bucket[c]) => Others(c) >= (MaxAttempts - 1) \div 2

Forward(b) == 0 <= level[b] /\ last[b] <= wall

Unset == wall = now /\ (\A b \in Buckets : Forward(b)) /\ (\A c \in Calls : Served(c))

LoadInv == RateInv /\ (~wasSet => Unset)

LEMMA FastIsLarge ==
  ASSUME NEW b \in Buckets, Fast(b)
  PROVE  Capacity(b) >= Token /\ Token \in Nat /\ Capacity(b) \in Nat
<1>1. PerTick[b] \in Nat /\ Capacity(b) \in Nat
  BY CapacityType
<1>2. PerTick[b] * MaxSleep <= PerTick[b] * Second /\ PerTick[b] * MaxSleep \in Int
  BY <1>1, Scaled, SizesAssumption
<1>3. Token \in Nat
  BY SizesAssumption
<1>4. QED
  BY <1>1, <1>2, <1>3 DEF Fast, Capacity

LEMMA RefillIsForward ==
  ASSUME TypeOK, NEW b \in Buckets, Forward(b)
  PROVE  Refilled(b) >= 0
<1>1. PerTick[b] \in Nat /\ Capacity(b) \in Nat /\ wall - last[b] \in Nat /\ level[b] \in Nat
  BY CapacityType DEF TypeOK, Forward
<1>2. PerTick[b] * (wall - last[b]) \in Nat
  BY <1>1
<1>3. QED
  BY <1>1, <1>2, RefillBounds

LEMMA StaysForward ==
  ASSUME TypeOK, TypeOK', NEW b \in Buckets, Forward(b), wall' >= wall,
         Rests(b) \/ Refills(b) \/ Grants(b) \/ Replaces(b)
  PROVE  Forward(b)'
<1>1. /\ level[b] \in Int /\ last[b] \in Int /\ wall \in Int /\ wall' \in Int
      /\ Refilled(b) \in Int /\ Token \in Int /\ Capacity(b) \in Nat
  <2>1. level[b] \in Int /\ last[b] \in Int /\ wall \in Int /\ wall' \in Int
    BY DEF TypeOK
  <2>2. Refilled(b) \in Int
    BY RefillBounds
  <2>3. QED
    BY <2>1, <2>2, CapacityType, SizesAssumption
<1>2. Refilled(b) >= 0
  BY RefillIsForward
<1>3. QED
  BY <1>1, <1>2 DEF Forward, Rests, Refills, Grants, Replaces

-------------------------------------------------------------------------------
(* What a step does to a call *)

Kept(c) ==
  /\ pc'[c] = pc[c] /\ bucket'[c] = bucket[c] /\ attempt'[c] = attempt[c]
  /\ wakeAt'[c] = wakeAt[c] /\ since'[c] = since[c]

(* c looks at bucket b for the a-th time, in vain. *)
Sleeps(c, b, a) ==
  /\ Refilled(b) < Token
  /\ pc'[c] = "sleeping" /\ attempt'[c] = a /\ wakeAt'[c] = now + Sleep(b, Refilled(b))
  /\ level'[b] = Refilled(b) /\ last'[b] = wall /\ requests'[b] = requests[b]

LEMMA TryOnCall ==
  ASSUME TypeOK, NEW c \in Calls, NEW b \in Buckets, NEW a, TryAcquire(c, b, a), Gives(b)
  PROVE  /\ \A d \in Calls \ {c} :
              pc'[d] = pc[d] /\ attempt'[d] = attempt[d] /\ wakeAt'[d] = wakeAt[d]
         /\ Sleeps(c, b, a) \/ pc'[c] = "sent"
<1>1. Refilled(b) \in Int /\ Token \in Int
  BY RefillBounds, SizesAssumption
<1>2. CASE Refilled(b) >= Token
  BY <1>2 DEF TryAcquire, TypeOK
<1>3. CASE ~(Refilled(b) >= Token)
  <2>1. Refilled(b) < Token
    BY <1>1, <1>3
  <2>2. /\ last' = [last EXCEPT ![b] = wall]
        /\ level' = [level EXCEPT ![b] = Refilled(b)]
        /\ pc' = [pc EXCEPT ![c] = "sleeping"]
        /\ attempt' = [attempt EXCEPT ![c] = a]
        /\ wakeAt' = [wakeAt EXCEPT ![c] = now + Sleep(b, Refilled(b))]
        /\ requests' = requests
    BY <1>3 DEF TryAcquire, Gives
  <2>3. QED
    BY <2>1, <2>2 DEF TypeOK, Sleeps
<1>4. QED
  BY <1>2, <1>3

LEMMA CallChange ==
  ASSUME TypeOK, [Next]_vars, NEW c \in Calls
  PROVE  Kept(c) \/ CallStep(c)
<1>1. ASSUME NEW d \in Calls, CallStep(d), d # c PROVE Kept(c)
  <2>1. CASE Acquire(d)
    <3>1. current \in Buckets /\ TryAcquire(d, current, 1) /\ Gives(current)
      BY <1>1, <2>1, AcquireIsLogged DEF CallStep
    <3>2. pc'[c] = pc[c] /\ attempt'[c] = attempt[c] /\ wakeAt'[c] = wakeAt[c]
      BY <1>1, <3>1, TryOnCall
    <3>3. bucket'[c] = bucket[c] /\ since'[c] = since[c]
      BY <1>1, <2>1 DEF TypeOK, Acquire
    <3>4. QED
      BY <3>2, <3>3 DEF Kept
  <2>2. CASE WakesUp(d)
    <3>1. bucket' = bucket /\ since' = since
      BY <2>2 DEF WakesUp
    <3>2. CASE TryAcquire(d, bucket[d], attempt[d] + 1)
      <4>1. bucket[d] \in Buckets /\ Gives(bucket[d])
        BY <1>1, <3>1, <3>2, TryIsLogged DEF CallStep, TypeOK
      <4>2. QED
        BY <1>1, <3>1, <3>2, <4>1, TryOnCall DEF Kept
    <3>3. CASE ~TryAcquire(d, bucket[d], attempt[d] + 1)
      BY <1>1, <2>2, <3>1, <3>3 DEF WakesUp, TypeOK, Kept
    <3>4. QED
      BY <3>2, <3>3
  <2>3. CASE Answered(d) \/ NetworkFails(d)
    BY <1>1, <2>3 DEF Answered, NetworkFails, TypeOK, Kept
  <2>4. QED
    BY <1>1, <2>1, <2>2, <2>3 DEF CallStep, Begins, Retries
<1>2. CASE SetRateLimitPerSecond \/ Tick \/ ClockIsSet \/ UNCHANGED vars
  BY <1>2 DEF SetRateLimitPerSecond, Tick, ClockIsSet, vars, callVars, Kept
<1>3. QED
  BY <1>1, <1>2 DEF Next

-------------------------------------------------------------------------------
(* A call that goes on sleeping, or is refused already. *)
LEMMA KeptIsServed ==
  ASSUME TypeOK, TypeOK', NEW c \in Calls, Served(c), Kept(c),
         Rests(bucket[c]) \/ Refills(bucket[c]) \/ Grants(bucket[c])
  PROVE  Served(c)'
<1> DEFINE b == bucket[c]
<1>1. /\ b \in Buckets /\ attempt[c] \in Int /\ since[c] \in Int /\ wakeAt[c] \in Int
      /\ level[b] \in Int /\ last[b] \in Int /\ wall \in Int /\ PerTick[b] \in Nat
      /\ requests[b] \in Seq(Int) /\ Len(requests[b]) \in Nat
  <2>1. b \in Buckets
    BY DEF TypeOK
  <2>2. PerTick[b] \in Nat
    BY <2>1, CapacityType
  <2>3. requests[b] \in Seq(Int) /\ level[b] \in Int /\ last[b] \in Int
    BY <2>1 DEF TypeOK
  <2>4. attempt[c] \in Int /\ since[c] \in Int /\ wakeAt[c] \in Int /\ wall \in Int
    BY DEF TypeOK
  <2>5. QED
    BY <2>1, <2>2, <2>3, <2>4
<1>2. bucket'[c] = b /\ since'[c] = since[c] /\ attempt'[c] = attempt[c] /\ wakeAt'[c] = wakeAt[c]
      /\ pc'[c] = pc[c] /\ Fast(bucket[c])' = Fast(b)
  BY DEF Kept, Fast
<1>3. /\ Others(c) = Len(requests[b]) - since[c] /\ Others(c)' = Len(requests'[b]) - since[c]
      /\ ByWakeUp(c) = level[b] + PerTick[b] * (wakeAt[c] - last[b])
      /\ ByWakeUp(c)' = level'[b] + PerTick[b] * (wakeAt[c] - last'[b])
  BY <1>2 DEF Others, ByWakeUp
<1>4. CASE Rests(b)
  <2>1. Others(c)' = Others(c) /\ ByWakeUp(c)' = ByWakeUp(c)
    BY <1>3, <1>4 DEF Rests
  <2>2. QED
    BY <1>2, <1>4, <2>1 DEF Served, Waits, Rests
<1>5. CASE Refills(b)
  <2>1. Others(c)' = Others(c) /\ Len(requests'[b]) = Len(requests[b])
    BY <1>3, <1>5 DEF Refills
  <2>2. ASSUME Fast(b) PROVE ByWakeUp(c)' = ByWakeUp(c)
    <3>1. Refilled(b) = level[b] + PerTick[b] * (wall - last[b]) /\ Refilled(b) \in Int
      BY <1>1, <1>5, <2>2, FastIsLarge, RefillBounds DEF Refills
    <3>2. level'[b] = Refilled(b) /\ last'[b] = wall
      BY <1>5 DEF Refills
    <3>3. /\ PerTick[b] * (wall - last[b]) \in Int /\ PerTick[b] * (wakeAt[c] - wall) \in Int
          /\ PerTick[b] * (wakeAt[c] - last[b])
               = PerTick[b] * (wakeAt[c] - wall) + PerTick[b] * (wall - last[b])
      <4>1. wall \in Int /\ wakeAt[c] \in Int /\ last[b] \in Int /\ PerTick[b] \in Nat
        BY <1>1
      <4>2. QED
        BY <4>1, Stretches
    <3>4. ByWakeUp(c)' = Refilled(b) + PerTick[b] * (wakeAt[c] - wall)
      BY <1>3, <3>2
    <3>5. level[b] \in Int /\ ByWakeUp(c) = level[b] + PerTick[b] * (wakeAt[c] - last[b])
      BY <1>1, <1>3
    <3> HIDE DEF b
    <3>6. QED
      BY <3>1, <3>3, <3>4, <3>5
  <2>3. QED
    BY <1>2, <2>1, <2>2 DEF Served, Waits
<1>6. CASE Grants(b)
  <2>1. Len(requests'[b]) = Len(requests[b]) + 1
    BY <1>1, <1>6 DEF Grants
  <2>2. Others(c) \in Int /\ Others(c)' = Others(c) + 1
    BY <1>1, <1>3, <2>1
  <2>3. since'[c] <= Len(requests'[b])
    BY <1>1, <1>2, <2>1 DEF Served
  <2>4. Waits(c) => Waits(c)'
    BY <1>1, <1>2, <2>2 DEF Waits
  <2>5. (MaxAttempts - 1) \div 2 \in Int
    BY SizesAssumption
  <2>6. Others(c) >= (MaxAttempts - 1) \div 2 => Others(c)' >= (MaxAttempts - 1) \div 2
    BY <2>2, <2>5
  <2>7. QED
    BY <1>2, <2>3, <2>4, <2>6 DEF Served
<1>7. QED
  BY <1>4, <1>5, <1>6

(* What the bucket will hold after a sleep. *)
LEMMA SleepIsEnough ==
  ASSUME TypeOK, wall = now, NEW c \in Calls, NEW b \in Buckets, NEW a, Forward(b), Fast(b),
         Sleeps(c, b, a), bucket'[c] = b
  PROVE  /\ Refilled(b) \in Int /\ ByWakeUp(c)' \in Int
         /\ ByWakeUp(c)' > Token - PerTick[b]
         /\ Refilled(b) > Token - PerTick[b] => ByWakeUp(c)' >= Token
<1> DEFINE z == Sleep(b, Refilled(b))
<1>1. /\ Refilled(b) \in Int /\ Refilled(b) >= 0 /\ wall \in Int
      /\ PerTick[b] \in Nat \ {0} /\ Token \in Int
  <2>1. Refilled(b) \in Int
    BY RefillBounds
  <2>2. Refilled(b) >= 0
    BY RefillIsForward
  <2>3. wall \in Int
    BY DEF TypeOK
  <2>4. PerTick[b] \in Nat \ {0}
    <3>1. PerTick[b] \in Nat /\ MaxSleep \in Nat /\ Token \in Nat \ {0}
      BY CapacityType, SizesAssumption
    <3>2. PerTick[b] # 0
      BY <3>1 DEF Fast
    <3>3. QED
      BY <3>1, <3>2
  <2>5. QED
    BY <2>1, <2>2, <2>3, <2>4, SizesAssumption
<1>2. /\ z \in Nat \ {0} /\ PerTick[b] * z \in Nat /\ PerTick[b] * z >= PerTick[b]
      /\ z = MaxSleep \/ Refilled(b) + PerTick[b] * z > Token - PerTick[b]
  BY <1>1, SleepBounds
<1> HIDE DEF z
<1>3. level'[b] = Refilled(b) /\ last'[b] = wall /\ wakeAt'[c] = wall + z
  BY DEF Sleeps, z
<1>4. ByWakeUp(c)' = level'[b] + PerTick[b] * (wakeAt'[c] - last'[b])
  BY DEF ByWakeUp
<1>5. wakeAt'[c] - last'[b] = z
  BY <1>1, <1>2, <1>3
<1>6. ByWakeUp(c)' = Refilled(b) + PerTick[b] * z
  BY <1>3, <1>4, <1>5
<1>7. z = MaxSleep => PerTick[b] * z >= Token
  BY DEF Fast
<1>8. QED
  BY <1>1, <1>2, <1>6, <1>7

(* A call that has just asked the bucket of the moment. *)
LEMMA AskedIsServed ==
  ASSUME TypeOK, TypeOK', wall = now, NEW c \in Calls, Forward(current), Acquire(c), Logged(c)
  PROVE  Served(c)'
<1> DEFINE b == current
<1>1. b \in Buckets /\ Len(requests[b]) \in Nat
  BY DEF TypeOK
<1>2. /\ TryAcquire(c, b, 1) /\ Gives(b)
      /\ bucket'[c] = b /\ since'[c] = Len(requests[b])
  BY AcquireIsLogged DEF TypeOK, Acquire
<1> HIDE DEF b
<1>3. CASE Sleeps(c, b, 1)
  <2>1. Others(c)' = 0 /\ since'[c] <= Len(requests'[b])
    BY <1>1, <1>2, <1>3 DEF Others, Sleeps
  <2>2. Fast(bucket[c])' => Fast(b) /\ PerTick[b] = PerTick[bucket'[c]]
    BY <1>2 DEF Fast
  <2>3. ASSUME Fast(b) PROVE ByWakeUp(c)' > Token - PerTick[b]
    BY <1>1, <1>2, <1>3, <2>3, SleepIsEnough DEF b
  <2>4. pc'[c] = "sleeping" /\ attempt'[c] = 1
    BY <1>3 DEF Sleeps
  <2>5. QED
    BY <1>2, <2>1, <2>2, <2>3, <2>4 DEF Served, Waits
<1>4. CASE pc'[c] = "sent"
  <2>1. Len(requests'[b]) >= Len(requests[b])
    <3>1. requests'[b] \in {requests[b], Append(requests[b], wall)}
      BY <1>1, <1>2, TryOnBucket DEF Refills, Grants
    <3>2. Len(Append(requests[b], wall)) = Len(requests[b]) + 1
      BY <1>1 DEF TypeOK
    <3>3. QED
      BY <1>1, <3>1, <3>2
  <2>2. QED
    BY <1>2, <1>4, <2>1 DEF Served
<1>5. QED
  BY <1>1, <1>2, <1>3, <1>4, TryOnCall

(* A call that looks at its bucket again and goes on sleeping. *)
LEMMA WokenWaits ==
  ASSUME TypeOK, TypeOK', wall = now, NEW c \in Calls, now >= wakeAt[c], Waits(c),
         Forward(bucket[c]), Fast(bucket[c]), Sleeps(c, bucket[c], attempt[c] + 1),
         bucket' = bucket, since' = since
  PROVE  Waits(c)'
<1> DEFINE b == bucket[c]
<1>1. b \in Buckets
  BY DEF TypeOK
<1>2. attempt[c] \in Int /\ wakeAt[c] \in Int /\ wall \in Int /\ since[c] \in Int
  BY DEF TypeOK
<1>3. level[b] \in Int /\ last[b] \in Int /\ Len(requests[b]) \in Int
  BY <1>1 DEF TypeOK
<1>4. PerTick[b] \in Nat /\ Token \in Int
  BY <1>1, CapacityType, SizesAssumption
<1>5. Refilled(b) \in Int /\ Refilled(b) >= ByWakeUp(c)
  <2>1. Refilled(b) < Token
    BY DEF Sleeps
  <2>2. Refilled(b) # Capacity(b)
    BY <1>1, <2>1, FastIsLarge
  <2>3. /\ Refilled(b) = level[b] + PerTick[b] * (wall - last[b])
        /\ Refilled(b) \in Int /\ PerTick[b] * (wall - last[b]) \in Int
    BY <1>1, <2>2, RefillBounds
  <2>4. wakeAt[c] - last[b] \in Int /\ wall - last[b] \in Int /\ wakeAt[c] - last[b] <= wall - last[b]
    BY <1>2, <1>3
  <2>5. /\ PerTick[b] * (wakeAt[c] - last[b]) \in Int
        /\ PerTick[b] * (wakeAt[c] - last[b]) <= PerTick[b] * (wall - last[b])
    BY <1>4, <2>4, Scaled
  <2>6. ByWakeUp(c) = level[b] + PerTick[b] * (wakeAt[c] - last[b])
    BY DEF ByWakeUp
  <2> HIDE DEF b
  <2>7. QED
    BY <1>3, <2>3, <2>5, <2>6
<1>6. bucket'[c] = b /\ Others(c) \in Int /\ Others(c)' = Others(c)
  BY <1>2, <1>3 DEF Others, Sleeps
<1>7. ByWakeUp(c) \in Int
  <2>1. PerTick[b] * (wakeAt[c] - last[b]) \in Int
    BY <1>2, <1>3, <1>4
  <2>2. QED
    BY <1>3, <2>1 DEF ByWakeUp
<1>8. attempt'[c] = attempt[c] + 1 /\ Refilled(b) < Token
  BY DEF Sleeps
<1>9. /\ ByWakeUp(c)' \in Int /\ ByWakeUp(c)' > Token - PerTick[b]
      /\ Refilled(b) > Token - PerTick[b] => ByWakeUp(c)' >= Token
  BY <1>1, <1>6, SleepIsEnough
<1>10. /\ attempt[c] <= 2 * Others(c) + 2
       /\ attempt[c] = 2 * Others(c) + 1 => ByWakeUp(c) > Token - PerTick[b]
       /\ attempt[c] = 2 * Others(c) + 2 => ByWakeUp(c) >= Token
  BY DEF Waits
<1> HIDE DEF b
<1>11. attempt[c] # 2 * Others(c) + 2
  BY <1>4, <1>5, <1>7, <1>8, <1>10
<1>12. attempt[c] = 2 * Others(c) + 1 => ByWakeUp(c)' >= Token
  BY <1>4, <1>5, <1>7, <1>9, <1>10
<1>13. /\ attempt'[c] <= 2 * Others(c) + 2
       /\ attempt'[c] = 2 * Others(c) + 2 => ByWakeUp(c)' >= Token
  BY <1>2, <1>6, <1>8, <1>10, <1>11, <1>12
<1>14. QED
  BY <1>6, <1>9, <1>13 DEF Waits

LEMMA WokenIsServed ==
  ASSUME TypeOK, TypeOK', wall = now, NEW c \in Calls, Forward(bucket[c]), Served(c), WakesUp(c),
         Logged(c)
  PROVE  Served(c)'
<1> DEFINE b == bucket[c]
<1>1. b \in Buckets /\ Len(requests[b]) \in Nat /\ since[c] \in Int /\ attempt[c] \in 0..MaxAttempts
  <2>1. b \in Buckets
    BY DEF TypeOK
  <2>2. QED
    BY <2>1 DEF TypeOK
<1>2. /\ pc[c] = "sleeping" /\ now >= wakeAt[c] /\ bucket' = bucket /\ since' = since
      /\ since[c] <= Len(requests[b])
      /\ Fast(b) => Waits(c)
  BY DEF WakesUp, Served
<1>3. Fast(bucket[c])' = Fast(b) /\ bucket'[c] = b /\ since'[c] = since[c]
  BY <1>2 DEF Fast
<1>4. CASE attempt[c] < MaxAttempts
  <2>1. TryAcquire(c, b, attempt[c] + 1) /\ Gives(b)
    BY <1>1, <1>2, <1>4, TryIsLogged DEF WakesUp
  <2>2. CASE Sleeps(c, b, attempt[c] + 1)
    <3>1. pc'[c] = "sleeping" /\ requests'[b] = requests[b]
      BY <2>2 DEF Sleeps
    <3>2. ASSUME Fast(b) PROVE Waits(c)'
      <4>1. Waits(c) /\ now >= wakeAt[c] /\ bucket' = bucket /\ since' = since
        BY <1>2, <3>2
      <4>2. QED
        BY <2>2, <3>2, <4>1, WokenWaits
    <3>3. QED
      BY <1>2, <1>3, <3>1, <3>2 DEF Served
  <2>3. CASE pc'[c] = "sent"
    <3>1. requests'[b] \in {requests[b], Append(requests[b], wall)}
      BY <1>1, <2>1, TryOnBucket DEF Refills, Grants
    <3>2. Len(Append(requests[b], wall)) = Len(requests[b]) + 1
      BY <1>1 DEF TypeOK
    <3>3. since'[c] <= Len(requests'[b])
      <4>1. Len(requests'[b]) \in Nat /\ Len(requests'[b]) >= Len(requests[b])
        BY <1>1, <3>1, <3>2
      <4>2. since[c] <= Len(requests[b])
        BY <1>2
      <4> HIDE DEF b
      <4>3. QED
        BY <1>1, <1>3, <4>1, <4>2
    <3>4. QED
      BY <1>3, <2>3, <3>3 DEF Served
  <2>4. QED
    BY <1>1, <2>1, <2>2, <2>3, TryOnCall
<1>5. CASE ~(attempt[c] < MaxAttempts)
  <2>1. pc'[c] = "refused" /\ requests' = requests
    BY <1>5 DEF WakesUp, Logged, TypeOK
  <2>2. Others(c)' = Others(c) /\ Others(c) \in Int
    BY <1>1, <1>2, <1>3, <2>1 DEF Others
  <2>3. attempt[c] = MaxAttempts /\ MaxAttempts \in Nat
    BY <1>1, <1>5, SizesAssumption
  <2>4. ASSUME Fast(b) PROVE Others(c) >= (MaxAttempts - 1) \div 2
    <3>1. MaxAttempts <= 2 * Others(c) + 2
      <4>1. attempt[c] <= 2 * Others(c) + 2
        BY <1>2, <2>4 DEF Waits
      <4>2. QED
        BY <2>3, <4>1
    <3>2. QED
      BY <2>2, <2>3, <3>1
  <2>5. QED
    BY <1>2, <1>3, <2>1, <2>2, <2>4 DEF Served
<1>6. QED
  BY <1>4, <1>5

LEMMA ClockStep ==
  ASSUME TypeOK, [Next]_vars, ~wasSet', wall = now
  PROVE  ~wasSet /\ wall' = now' /\ wall' >= wall
<1>1. wall \in Int /\ now \in Int
  BY DEF TypeOK
<1>2. CASE Tick
  BY <1>1, <1>2 DEF Tick
<1>3. CASE ClockIsSet
  BY <1>3 DEF ClockIsSet
<1>4. ASSUME NEW c \in Calls, CallStep(c) PROVE UNCHANGED clockVars
  BY <1>4 DEF CallStep, Begins, WakesUp, Answered, NetworkFails, Retries
<1>5. CASE SetRateLimitPerSecond \/ UNCHANGED vars
  BY <1>1, <1>5 DEF SetRateLimitPerSecond, vars, clockVars
<1>6. QED
  BY <1>1, <1>2, <1>3, <1>4, <1>5 DEF Next, clockVars

LEMMA LoadStep ==
  ASSUME LoadInv, [Next]_vars
  PROVE  LoadInv'
<1>1. RateInv /\ RateInv' /\ TypeOK /\ TypeOK'
  BY RateStep DEF LoadInv, RateInv
<1>2. SUFFICES ASSUME ~wasSet' PROVE Unset'
  BY <1>1 DEF LoadInv
<1>3. ~wasSet
  BY <1>2 DEF Next, CallStep, Begins, WakesUp, Answered, NetworkFails, Retries, Tick, ClockIsSet,
              SetRateLimitPerSecond, vars, clockVars
<1>4. Unset
  BY <1>3 DEF LoadInv
<1>5. wall = now /\ wall' = now' /\ wall' >= wall
  BY <1>1, <1>2, <1>4, ClockStep DEF Unset
<1>6. ASSUME NEW b \in Buckets PROVE Forward(b)'
  BY <1>1, <1>4, <1>5, BucketStep, StaysForward DEF Unset
<1>7. ASSUME NEW c \in Calls PROVE Served(c)'
  <2>1. Served(c) /\ bucket[c] \in Buckets /\ current \in Buckets
    BY <1>1, <1>4 DEF Unset, TypeOK
  <2>2. Forward(bucket[c]) /\ Forward(current)
    BY <1>4, <2>1 DEF Unset
  <2>3. CASE Kept(c)
    <3>1. ~Replaces(bucket[c])
      <4>1. bucket[c] <= current /\ bucket[c] \in Int /\ current \in Int
        BY <1>1, <2>1, BucketsAssumption DEF RateInv, Buckets
      <4>2. QED
        BY <4>1 DEF Replaces
    <3>2. QED
      BY <1>1, <2>1, <2>3, <3>1, BucketStep, KeptIsServed
  <2>4. CASE Acquire(c) /\ Logged(c)
    BY <1>1, <1>5, <2>2, <2>4, AskedIsServed
  <2>5. CASE WakesUp(c) /\ Logged(c)
    BY <1>1, <1>5, <2>1, <2>2, <2>5, WokenIsServed
  <2>6. CASE (Answered(c) \/ NetworkFails(c)) /\ Logged(c)
    <3>1. /\ pc'[c] \in {"done", "failed", "backoff"}
          /\ requests' = requests /\ bucket' = bucket /\ since' = since
      BY <1>1, <2>6, OtherStepsSendNothing DEF Answered, NetworkFails, TypeOK
    <3>2. QED
      BY <2>1, <3>1 DEF Served
  <2>7. QED
    BY <1>1, <2>3, <2>4, <2>5, <2>6, CallChange DEF CallStep, Begins, Retries
<1>8. QED
  BY <1>5, <1>6, <1>7 DEF Unset

LEMMA LoadInit == Init => LoadInv
<1> SUFFICES ASSUME Init PROVE LoadInv
  OBVIOUS
<1>1. RateInv /\ TypeOK
  BY RateInit DEF RateInv
<1>2. wall = now
  BY DEF Init
<1>3. ASSUME NEW b \in Buckets PROVE Forward(b)
  <2>1. level[b] = Capacity(b) /\ last[b] = 0 /\ wall = 0 /\ Capacity(b) \in Nat
    BY CapacityType DEF Init
  <2>2. QED
    BY <2>1 DEF Forward
<1>4. ASSUME NEW c \in Calls PROVE Served(c)
  <2>1. 1 \in Buckets
    BY BucketsAssumption DEF Buckets
  <2>2. pc[c] = "idle" /\ since[c] = 0 /\ bucket[c] = 1 /\ requests[1] = <<>> /\ Len(<<>>) = 0
    BY <2>1 DEF Init
  <2>3. QED
    BY <2>2 DEF Served
<1>5. QED
  BY <1>1, <1>2, <1>3, <1>4 DEF LoadInv, Unset

(* As long as the wall clock is not set, a call is refused only if its bucket *)
(* let through others: one for every two of its sleeps but the last, for   *)
(* any number of calls and passes and whenever the rate is changed.           *)
THEOREM RefusalsNeedLoad == Spec => []RefusedUnderLoad
<1>1. LoadInv => RefusedUnderLoad
  BY DEF LoadInv, Unset, Served, Fast, Others, RefusedUnderLoad
<1>2. QED
  BY <1>1, LoadInit, LoadStep, PTL DEF Spec

===============================================================================
