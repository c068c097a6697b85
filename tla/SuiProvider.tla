----------------------------- MODULE SuiProvider ------------------------------
(***************************************************************************)
(* The calls of OryaSUIProvider (packages/wallet-core/src/sui/             *)
(* rpc-provider.ts): each goes through executeWithRetry, which asks the    *)
(* TokenBucket of the moment for a token before every request.             *)
(*                                                                         *)
(* One action is the code between two awaits; calls run concurrently.      *)
(* Time is in ticks, a millisecond in the code: now is the clock that      *)
(* setTimeout goes by, wall is Date.now(), which may be set to any time.   *)
(* Levels of a bucket are in units that make the refill of a tick and a    *)
(* token whole numbers; the code's floating point is taken as exact.  A    *)
(* read that its cache answers never gets here, and caches are left out.   *)
(***************************************************************************)
EXTENDS Integers, Sequences

CONSTANTS
  Calls,
  Rates,          \* number of buckets: the constructor's, then one for every
                  \* setRateLimitPerSecond
  PerTick,        \* the refill of each bucket in a tick; the rate may be zero
  Token,          \* the level units of a token
  Second,         \* ticks: a bucket holds the refill of a second
  MaxSleep,       \* the 100 milliseconds of acquireToken
  MaxAttempts,    \* its maxRetries
  MaxRetries,     \* executeWithRetry's maxRetries
  ClockSettings,  \* what the wall clock may be set to
  MaxTime         \* bound on now

Buckets == 1..Rates

ASSUME BucketsAssumption ==
  /\ Rates \in Nat \ {0}
  /\ PerTick \in [Buckets -> Nat]
ASSUME SizesAssumption ==
  /\ Token \in Nat \ {0} /\ Second \in Nat \ {0}
  /\ MaxSleep \in Nat \ {0} /\ MaxSleep <= Second
  /\ MaxAttempts \in Nat \ {0} /\ MaxRetries \in Nat
ASSUME TimeAssumption == ClockSettings \subseteq Int /\ MaxTime \in Nat

VARIABLES
  now, wall,
  level, last,   \* tokens and lastRefillTime of each bucket
  current,       \* the provider's rateLimiter
  pc,            \* where each call awaits, or how it ended
  retry,         \* attempt of executeWithRetry
  bucket,        \* the bucket acquireToken runs on
  attempt,       \* attempt of acquireToken
  wakeAt,        \* when its setTimeout is due
  (* for the properties only *)
  requests,      \* when requests went out on each bucket, by the wall clock
  since,         \* requests there had been on the bucket when the call asked it
  wasSet         \* the wall clock was set

clockVars == <<now, wall, wasSet>>
bucketVars == <<level, last>>
callVars == <<pc, retry, bucket, attempt, wakeAt, since>>
vars == <<clockVars, bucketVars, requests, current, callVars>>

Capacity(b) == PerTick[b] * Second

Init ==
  /\ now = 0 /\ wall = 0 /\ wasSet = FALSE
  /\ level = [b \in Buckets |-> Capacity(b)]
  /\ last = [b \in Buckets |-> 0]
  /\ requests = [b \in Buckets |-> <<>>]
  /\ current = 1
  /\ pc = [c \in Calls |-> "idle"]
  /\ retry = [c \in Calls |-> 0]
  /\ bucket = [c \in Calls |-> 1]
  /\ attempt = [c \in Calls |-> 0]
  /\ wakeAt = [c \in Calls |-> 0]
  /\ since = [c \in Calls |-> 0]

-------------------------------------------------------------------------------
(* TokenBucket *)

AtMost(x, bound) == IF x <= bound THEN x ELSE bound

(* The level refill leaves; less than before if the clock was set back. *)
Refilled(b) == AtMost(level[b] + PerTick[b] * (wall - last[b]), Capacity(b))

(* Mutant: the shortest sleep, whatever is missing. *)
Sleep_Short(b, l) == 1

(* setTimeout with what is missing, which it rounds down to whole ticks, at   *)
(* least one; what never comes is waited for the longest.                     *)
Sleep(b, l) ==
  LET ticks == (Token - l) \div PerTick[b]
  IN  IF PerTick[b] = 0 THEN MaxSleep
      ELSE AtMost(IF ticks < 1 THEN 1 ELSE ticks, MaxSleep)

(* A pass of acquireToken's loop, the a-th: a token and the request goes out, *)
(* or sleep.                                                                  *)
TryAcquire(c, b, a) ==
  LET full == Refilled(b)
  IN  /\ last' = [last EXCEPT ![b] = wall]
      /\ IF full >= Token
           THEN /\ level' = [level EXCEPT ![b] = full - Token]
                /\ pc' = [pc EXCEPT ![c] = "sent"]
                /\ UNCHANGED <<attempt, wakeAt>>
           ELSE /\ level' = [level EXCEPT ![b] = full]
                /\ pc' = [pc EXCEPT ![c] = "sleeping"]
                /\ attempt' = [attempt EXCEPT ![c] = a]
                /\ wakeAt' = [wakeAt EXCEPT ![c] = now + Sleep(b, full)]

(* acquireToken is called on the bucket of the moment. *)
Acquire(c) ==
  /\ bucket' = [bucket EXCEPT ![c] = current]
  /\ since' = [since EXCEPT ![c] = Len(requests[current])]
  /\ TryAcquire(c, current, 1)

(* The timer fires; after the last sleep the bucket is not looked at again,   *)
(* and executeWithRetry passes the refusal on.                                *)
WakesUp(c) ==
  /\ pc[c] = "sleeping" /\ now >= wakeAt[c]
  /\ IF attempt[c] < MaxAttempts
       THEN TryAcquire(c, bucket[c], attempt[c] + 1)
       ELSE /\ pc' = [pc EXCEPT ![c] = "refused"]
            /\ UNCHANGED <<bucketVars, attempt, wakeAt>>
  /\ UNCHANGED <<clockVars, current, retry, bucket, since>>

-------------------------------------------------------------------------------
(* executeWithRetry *)

Begins(c) ==
  /\ pc[c] = "idle"
  /\ Acquire(c)
  /\ UNCHANGED <<clockVars, current, retry>>

(* The request is answered, or fails in a way that is not the network's. *)
Answered(c) ==
  /\ pc[c] = "sent"
  /\ \/ pc' = [pc EXCEPT ![c] = "done"]
     \/ pc' = [pc EXCEPT ![c] = "failed"]
  /\ UNCHANGED <<clockVars, bucketVars, current, retry, bucket, attempt, wakeAt, since>>

(* A network error is retried while there are retries left. *)
NetworkFails(c) ==
  /\ pc[c] = "sent"
  /\ IF retry[c] < MaxRetries
       THEN /\ pc' = [pc EXCEPT ![c] = "backoff"]
            /\ retry' = [retry EXCEPT ![c] = @ + 1]
       ELSE /\ pc' = [pc EXCEPT ![c] = "failed"]
            /\ UNCHANGED retry
  /\ UNCHANGED <<clockVars, bucketVars, current, bucket, attempt, wakeAt, since>>

(* Mutant: the retry goes out on the token of the first attempt. *)
Retries_OnOldToken(c) ==
  /\ pc[c] = "backoff"
  /\ pc' = [pc EXCEPT ![c] = "sent"]
  /\ UNCHANGED <<clockVars, bucketVars, current, retry, bucket, attempt, wakeAt, since>>

(* The delay is over; how long it takes is left open. *)
Retries(c) ==
  /\ pc[c] = "backoff"
  /\ Acquire(c)
  /\ UNCHANGED <<clockVars, current, retry>>

-------------------------------------------------------------------------------
(* A new bucket, full; calls that sleep stay with the one they asked. *)
SetRateLimitPerSecond ==
  /\ current < Rates
  /\ current' = current + 1
  /\ level' = [level EXCEPT ![current + 1] = Capacity(current + 1)]
  /\ last' = [last EXCEPT ![current + 1] = wall]
  /\ UNCHANGED <<clockVars, requests, callVars>>

Tick ==
  /\ now < MaxTime
  /\ now' = now + 1
  /\ wall' = wall + 1
  /\ UNCHANGED <<wasSet, bucketVars, requests, current, callVars>>

(* Date.now() is what the user or a time service makes it. *)
ClockIsSet ==
  /\ \E t \in ClockSettings : wall' = t
  /\ wasSet' = TRUE
  /\ UNCHANGED <<now, bucketVars, requests, current, callVars>>

(* A step that leaves the call at its request sends one, however it came by   *)
(* the right to: the log is not kept by acquireToken.                         *)
Logged(c) ==
  requests' = IF pc'[c] = "sent" THEN [requests EXCEPT ![bucket'[c]] = Append(@, wall)]
                                 ELSE requests

CallStep(c) ==
  /\ \/ Begins(c) \/ WakesUp(c)
     \/ Answered(c) \/ NetworkFails(c) \/ Retries(c)
  /\ Logged(c)

Next ==
  \/ \E c \in Calls : CallStep(c)
  \/ SetRateLimitPerSecond
  \/ Tick
  \/ ClockIsSet

Spec == Init /\ [][Next]_vars

-------------------------------------------------------------------------------
Places == {"idle", "sleeping", "sent", "backoff", "done", "failed", "refused"}

TypeOK ==
  /\ now \in Nat /\ wall \in Int /\ wasSet \in BOOLEAN
  /\ level \in [Buckets -> Int]
  /\ last \in [Buckets -> Int]
  /\ requests \in [Buckets -> Seq(Int)]
  /\ current \in Buckets
  /\ pc \in [Calls -> Places]
  /\ retry \in [Calls -> 0..MaxRetries]
  /\ bucket \in [Calls -> Buckets]
  /\ attempt \in [Calls -> 0..MaxAttempts]
  /\ wakeAt \in [Calls -> Int]
  /\ since \in [Calls -> Nat]

(* The rate limit proper: in any stretch of time the requests that go out on  *)
(* a bucket, first attempts and retries of all calls together, are at most a  *)
(* full bucket and what it refills in that time by its own clock, wherever    *)
(* that is set.  A bucket that replaces another starts full and counts its    *)
(* own requests only.                                                         *)
RateIsLimited ==
  \A b \in Buckets : \A j \in 1..Len(requests[b]) : \A i \in 1..j :
    (j - i + 1) * Token <= Capacity(b) + PerTick[b] * (requests[b][j] - requests[b][i])

(* acquireToken gives up only under load: if the bucket refills a token in    *)
(* the longest sleep, a call that is refused has seen at least one request of *)
(* another call go out for every two of its sleeps but the last, unless the   *)
(* wall clock was set.                                                        *)
RefusedUnderLoad ==
  \A c \in Calls :
    pc[c] = "refused" /\ ~wasSet /\ PerTick[bucket[c]] * MaxSleep >= Token
      => Len(requests[bucket[c]]) - since[c] >= (MaxAttempts - 1) \div 2
===============================================================================
