------------------------------ MODULE RPCManager ------------------------------
(***************************************************************************)
(* RPCManager (packages/wallet-core/src/services/RPCManager.ts) for one    *)
(* chain: JSON-RPC requests with automatic failover over the healthy       *)
(* providers, a one-second rate-limit window per provider, the periodic    *)
(* health check, and providers registered and removed at run time.         *)
(*                                                                         *)
(* JavaScript runs one callback at a time, so everything between two       *)
(* awaits is one action; requests and health-check rounds interleave at    *)
(* the awaits.  A caller is one pending request() call; a checker is one   *)
(* pending performHealthChecks() call (rounds overlap when one takes       *)
(* longer than the timer's period).                                        *)
(*                                                                         *)
(* An entry is one RPCProviderConfig object.  All the maps are keyed by    *)
(* the provider id, and two entries may share an id: addProvider pushes    *)
(* without looking for the name.  Ids of different chains never meet, so   *)
(* one chain is enough.                                                    *)
(***************************************************************************)
EXTENDS Naturals, FiniteSets

CONSTANTS
  Entries,                 \* provider configuration objects
  Ids,                     \* provider ids (chain:name)
  IdOf,                    \* the id of an entry
  Rank,                    \* position of an entry in the sorted list
  RateLimit,               \* requests per window of an entry, 0 = unlimited
  Initial,                 \* the entries initializeProviders registers
  Callers,                 \* concurrent request() calls
  Checkers,                \* concurrent performHealthChecks() rounds
  MaxConsecutiveFailures,  \* failures that make a provider unhealthy
  None                     \* no entry, no preferred provider

ASSUME EntriesAssumption ==
  /\ None \notin Entries /\ None \notin Ids
  /\ IdOf \in [Entries -> Ids]
  /\ RateLimit \in [Entries -> Nat]
  /\ Initial \subseteq Entries
ASSUME RankAssumption ==
  /\ Rank \in [Entries -> Nat]
  /\ \A d, e \in Entries : Rank[d] = Rank[e] => d = e
ASSUME FiniteAssumption == IsFiniteSet(Entries) /\ IsFiniteSet(Callers)
ASSUME ThresholdAssumption == MaxConsecutiveFailures \in Nat \ {0}

VARIABLES
  providers,   \* the entries in the chain's provider list
  known,       \* the ids that have a healthStatus record
  isHealthy,   \* its isHealthy field, FALSE without a record
  failures,    \* its consecutiveFailures field, 0 without a record
  count,       \* requestCounts, 0 for an absent key
  elapsed,     \* more than a window has passed since rateLimitReset
  pc,          \* caller: fetch (awaiting headers), body (awaiting json);
               \* between requests gaveUp after ALL_PROVIDERS_FAILED, else idle
  todo,        \* caller: the entries its for loop has still to visit
  cur,         \* caller: the entry whose request is in flight
  pref,        \* caller: options.preferredProvider
  list,        \* history: the list the caller's request started with
  passed,      \* history: its entries that failed or were out of requests
  checking,    \* checker: the entry whose probe is in flight
  toCheck,     \* checker: the entries of its list not probed yet
  live,        \* checker: it walks the list that is still in providers
  timerOn      \* the health-check interval is running

healthVars == <<known, isHealthy, failures>>
rateVars == <<count, elapsed>>
callerVars == <<pc, todo, cur, pref, list, passed>>
checkVars == <<checking, toCheck, live, timerOn>>
vars == <<providers, healthVars, rateVars, callerVars, checkVars>>

-------------------------------------------------------------------------------
(* getHealthyProviders: registered, with a healthy record, not skipped. *)
Candidates(skip) ==
  {e \in providers : isHealthy[IdOf[e]] /\ IdOf[e] \notin skip}

(* sortProviders puts the preferred provider first, then goes by rank.  The *)
(* first entry of that name stands for all of them: the others are dropped. *)
Before(p, d, e) ==
  \/ IdOf[d] = p /\ IdOf[e] # p
  \/ (IdOf[d] = p <=> IdOf[e] = p) /\ Rank[d] < Rank[e]

Sorted(p, S) ==
  {e \in S : IdOf[e] = p => \A d \in S : IdOf[d] = p => Rank[e] <= Rank[d]}

(* Mutant: the limit itself still admits. *)
CanMakeRequest_AtLimit(e) ==
  \/ RateLimit[e] = 0
  \/ elapsed[IdOf[e]]
  \/ count[IdOf[e]] <= RateLimit[e]

(* canMakeRequest: no limit, or the window is over, or there is room in it. *)
CanMakeRequest(e) ==
  \/ RateLimit[e] = 0
  \/ elapsed[IdOf[e]]
  \/ count[IdOf[e]] < RateLimit[e]

(* Mutant: the list is walked in whatever order it is in. *)
Admits_AnyOrder(p, S, e) == e \in S /\ CanMakeRequest(e)

(* What the loop does from the rest S of its list to its next await: it      *)
(* passes over the rate-limited entries and sends to the first admitted one, *)
(* restarting that entry's window if it is over; with none left it throws.   *)
Admits(p, S, e) ==
  /\ e \in S /\ CanMakeRequest(e)
  /\ \A d \in S : CanMakeRequest(d) /\ d # e => Before(p, e, d)

SendTo(c, p, S, e, gone) ==
  /\ Admits(p, S, e)
  /\ pc' = [pc EXCEPT ![c] = "fetch"]
  /\ cur' = [cur EXCEPT ![c] = e]
  /\ todo' = [todo EXCEPT ![c] = {d \in S : Before(p, e, d)}]
  /\ passed' = [passed EXCEPT ![c] = gone \cup
                   {d \in S : Before(p, d, e) /\ ~CanMakeRequest(d)}]
  /\ IF RateLimit[e] # 0 /\ elapsed[IdOf[e]]
       THEN /\ count' = [count EXCEPT ![IdOf[e]] = 0]
            /\ elapsed' = [elapsed EXCEPT ![IdOf[e]] = FALSE]
       ELSE UNCHANGED rateVars

(* Mutant: leave the loop, not the iteration, at a rate-limited entry. *)
GiveUp_OnFirstLimit(c, S, gone) ==
  /\ S = {} \/ \E e \in S : ~CanMakeRequest(e)
  /\ pc' = [pc EXCEPT ![c] = "gaveUp"]
  /\ cur' = [cur EXCEPT ![c] = None]
  /\ todo' = [todo EXCEPT ![c] = {}]
  /\ passed' = [passed EXCEPT ![c] = gone \cup {d \in S : ~CanMakeRequest(d)}]
  /\ UNCHANGED rateVars

GiveUp(c, S, gone) ==
  /\ \A e \in S : ~CanMakeRequest(e)
  /\ pc' = [pc EXCEPT ![c] = "gaveUp"]
  /\ cur' = [cur EXCEPT ![c] = None]
  /\ todo' = [todo EXCEPT ![c] = {}]
  /\ passed' = [passed EXCEPT ![c] = gone \cup {d \in S : ~CanMakeRequest(d)}]
  /\ UNCHANGED rateVars

Proceed(c, p, S, gone) ==
  \/ \E e \in S : SendTo(c, p, S, e, gone)
  \/ GiveUp(c, S, gone)

(* Mutant: the counter is cleared, the verdict stays. *)
RecordSuccess_KeepsVerdict(i) ==
  IF i \in known
    THEN failures' = [failures EXCEPT ![i] = 0] /\ UNCHANGED <<known, isHealthy>>
    ELSE UNCHANGED healthVars

(* recordSuccess and recordFailure write only an existing health record. *)
RecordSuccess(i) ==
  IF i \in known
    THEN /\ isHealthy' = [isHealthy EXCEPT ![i] = TRUE]
         /\ failures' = [failures EXCEPT ![i] = 0]
         /\ UNCHANGED known
    ELSE UNCHANGED healthVars

RecordFailure(i) ==
  IF i \in known
    THEN /\ failures' = [failures EXCEPT ![i] = @ + 1]
         /\ isHealthy' = [isHealthy EXCEPT ![i] =
                            @ /\ failures[i] + 1 < MaxConsecutiveFailures]
         /\ UNCHANGED known
    ELSE UNCHANGED healthVars

(* Mutant: the slot is released at the answer, but none was taken before. *)
RecordRequest_Releases(i) ==
  /\ count' = [count EXCEPT ![i] = @ - 1]
  /\ UNCHANGED elapsed

(* recordRequest creates the key again for a provider removed meanwhile. *)
RecordRequest(i) ==
  /\ count' = [count EXCEPT ![i] = @ + 1]
  /\ UNCHANGED elapsed

-------------------------------------------------------------------------------
Init ==
  /\ providers = Initial
  /\ known = {IdOf[e] : e \in Initial}
  /\ isHealthy = [i \in Ids |-> i \in {IdOf[e] : e \in Initial}]
  /\ failures = [i \in Ids |-> 0]
  /\ count = [i \in Ids |-> 0]
  /\ elapsed = [i \in Ids |-> FALSE]
  /\ pc = [c \in Callers |-> "idle"]
  /\ todo = [c \in Callers |-> {}]
  /\ cur = [c \in Callers |-> None]
  /\ pref = [c \in Callers |-> None]
  /\ list = [c \in Callers |-> {}]
  /\ passed = [c \in Callers |-> {}]
  /\ checking = [h \in Checkers |-> None]
  /\ toCheck = [h \in Checkers |-> {}]
  /\ live = [h \in Checkers |-> FALSE]
  /\ timerOn = TRUE

(* request: snapshot the healthy providers, then loop up to the first await. *)
Request(c, p, skip) ==
  LET S == Sorted(p, Candidates(skip))
  IN  /\ pc[c] \in {"idle", "gaveUp"}
      /\ S # {}
      /\ pref' = [pref EXCEPT ![c] = p]
      /\ list' = [list EXCEPT ![c] = S]
      /\ Proceed(c, p, S, {})
      /\ UNCHANGED <<providers, healthVars, checkVars>>

(* The request is over: nothing of its list, or of its history, is kept. *)
Finish(c) ==
  /\ pc' = [pc EXCEPT ![c] = "idle"]
  /\ cur' = [cur EXCEPT ![c] = None]
  /\ pref' = [pref EXCEPT ![c] = None]
  /\ todo' = [todo EXCEPT ![c] = {}]
  /\ list' = [list EXCEPT ![c] = {}]
  /\ passed' = [passed EXCEPT ![c] = {}]

(* request with no healthy provider throws NO_PROVIDERS at once. *)
RequestRefused(c, skip) ==
  /\ pc[c] \in {"idle", "gaveUp"}
  /\ Candidates(skip) = {}
  /\ Finish(c)
  /\ UNCHANGED <<providers, healthVars, rateVars, checkVars>>

(* The headers arrive with an ok status; the abort timer is cleared here. *)
Headers(c) ==
  /\ pc[c] = "fetch"
  /\ pc' = [pc EXCEPT ![c] = "body"]
  /\ UNCHANGED <<providers, healthVars, rateVars, todo, cur, pref, list,
                 passed, checkVars>>

(* executeRequest returns a result: the catch-free end of the loop body. *)
Answer(c) ==
  /\ pc[c] = "body"
  /\ RecordSuccess(IdOf[cur[c]])
  /\ RecordRequest(IdOf[cur[c]])
  /\ Finish(c)
  /\ UNCHANGED <<providers, checkVars>>

(* Mutant: the failed entry stays on the list. *)
Failed_RetriesSame(c) ==
  /\ RecordFailure(IdOf[cur[c]])
  /\ Proceed(c, pref[c], todo[c] \cup {cur[c]}, passed[c])
  /\ UNCHANGED <<providers, pref, list, checkVars>>

(* executeRequest throws (timeout, network, HTTP status, bad body, RPC      *)
(* error): record the failure and go on with the rest of the same list.     *)
Failed(c) ==
  /\ RecordFailure(IdOf[cur[c]])
  /\ Proceed(c, pref[c], todo[c], passed[c] \cup {cur[c]})
  /\ UNCHANGED <<providers, pref, list, checkVars>>

FetchFails(c) == pc[c] = "fetch" /\ Failed(c)
BodyFails(c)  == pc[c] = "body" /\ Failed(c)

(* A rate-limit window of a provider runs out (the clock). *)
WindowElapses(i) ==
  /\ i \in known /\ ~elapsed[i]
  /\ elapsed' = [elapsed EXCEPT ![i] = TRUE]
  /\ UNCHANGED <<providers, healthVars, count, callerVars, checkVars>>

(* resetRateLimit and resetAllRateLimits, called from outside.  A name that   *)
(* is not registered is left out: registering it starts its entries anew.     *)
ResetRateLimits(I) ==
  /\ count' = [i \in Ids |-> IF i \in I THEN 0 ELSE count[i]]
  /\ elapsed' = [i \in Ids |-> elapsed[i] /\ i \notin I]
  /\ UNCHANGED <<providers, healthVars, callerVars, checkVars>>

(* addProvider pushes onto the list in place, so rounds that walk this list *)
(* will reach the new entry, and starts a fresh record under its id.        *)
AddProvider(e) ==
  /\ e \notin providers
  /\ providers' = providers \cup {e}
  /\ known' = known \cup {IdOf[e]}
  /\ isHealthy' = [isHealthy EXCEPT ![IdOf[e]] = TRUE]
  /\ failures' = [failures EXCEPT ![IdOf[e]] = 0]
  /\ count' = [count EXCEPT ![IdOf[e]] = 0]
  /\ elapsed' = [elapsed EXCEPT ![IdOf[e]] = FALSE]
  /\ toCheck' = [h \in Checkers |->
                   IF live[h] /\ checking[h] # None
                     THEN toCheck[h] \cup {e} ELSE toCheck[h]]
  /\ UNCHANGED <<callerVars, checking, live, timerOn>>

(* Mutant: the first entry of the name goes, and the record with it. *)
RemoveProvider_FirstOnly(i) ==
  \E e \in providers :
    /\ IdOf[e] = i
    /\ \A d \in providers : IdOf[d] = i => Rank[e] <= Rank[d]
    /\ providers' = providers \ {e}
    /\ known' = known \ {i}
    /\ isHealthy' = [isHealthy EXCEPT ![i] = FALSE]
    /\ failures' = [failures EXCEPT ![i] = 0]
    /\ count' = [count EXCEPT ![i] = 0]
    /\ elapsed' = [elapsed EXCEPT ![i] = FALSE]
    /\ live' = [h \in Checkers |-> FALSE]
    /\ UNCHANGED <<callerVars, checking, toCheck, timerOn>>

(* removeProvider replaces the list by one without the name and deletes the *)
(* records; requests and rounds in flight keep the list they have.          *)
RemoveProvider(i) ==
  /\ \E e \in providers : IdOf[e] = i
  /\ providers' = {e \in providers : IdOf[e] # i}
  /\ known' = known \ {i}
  /\ isHealthy' = [isHealthy EXCEPT ![i] = FALSE]
  /\ failures' = [failures EXCEPT ![i] = 0]
  /\ count' = [count EXCEPT ![i] = 0]
  /\ elapsed' = [elapsed EXCEPT ![i] = FALSE]
  /\ live' = [h \in Checkers |-> FALSE]
  /\ UNCHANGED <<callerVars, checking, toCheck, timerOn>>

-------------------------------------------------------------------------------
(* The interval fires: a new round walks the current list. *)
StartChecks(h, e) ==
  /\ timerOn
  /\ checking[h] = None
  /\ e \in providers
  /\ checking' = [checking EXCEPT ![h] = e]
  /\ toCheck' = [toCheck EXCEPT ![h] = providers \ {e}]
  /\ live' = [live EXCEPT ![h] = TRUE]
  /\ UNCHANGED <<providers, healthVars, rateVars, callerVars, timerOn>>

(* After a probe the round goes on to another entry of its list, or ends. *)
NextCheck(h) ==
  /\ \/ /\ toCheck[h] = {}
        /\ checking' = [checking EXCEPT ![h] = None]
        /\ toCheck' = toCheck
     \/ \E e \in toCheck[h] :
          /\ checking' = [checking EXCEPT ![h] = e]
          /\ toCheck' = [toCheck EXCEPT ![h] = @ \ {e}]
  /\ UNCHANGED <<providers, rateVars, callerVars, live, timerOn>>

(* Mutant: the probe lifts the verdict and leaves the counter. *)
CheckOk_KeepsFailures(h) ==
  /\ checking[h] # None
  /\ isHealthy' = [isHealthy EXCEPT ![IdOf[checking[h]]] =
                     IdOf[checking[h]] \in known]
  /\ UNCHANGED <<known, failures>>
  /\ NextCheck(h)

(* healthCheckProvider with response.ok *)
CheckOk(h) ==
  /\ checking[h] # None
  /\ RecordSuccess(IdOf[checking[h]])
  /\ NextCheck(h)

(* healthCheckProvider with another status: the record stays as it is *)
CheckNotOk(h) ==
  /\ checking[h] # None
  /\ UNCHANGED healthVars
  /\ NextCheck(h)

(* healthCheckProvider whose fetch throws: unhealthy at once, and            *)
(* consecutiveFailures is left alone.                                        *)
CheckThrows(h) ==
  /\ checking[h] # None
  /\ isHealthy' = [isHealthy EXCEPT ![IdOf[checking[h]]] = FALSE]
  /\ UNCHANGED <<known, failures>>
  /\ NextCheck(h)

(* shutdown clears the interval; the singleton goes on serving requests. *)
Shutdown ==
  /\ timerOn
  /\ timerOn' = FALSE
  /\ UNCHANGED <<providers, healthVars, rateVars, callerVars, checking,
                 toCheck, live>>

CallerStep(c) ==
  \/ \E p \in Ids \cup {None}, skip \in SUBSET Ids : Request(c, p, skip)
  \/ \E skip \in SUBSET Ids : RequestRefused(c, skip)
  \/ Headers(c)
  \/ Answer(c)
  \/ FetchFails(c)
  \/ BodyFails(c)

CheckerStep(h) ==
  \/ \E e \in Entries : StartChecks(h, e)
  \/ CheckOk(h)
  \/ CheckNotOk(h)
  \/ CheckThrows(h)

Environment ==
  \/ \E i \in Ids : WindowElapses(i) \/ RemoveProvider(i)
  \/ \E I \in {known} \cup {{i} : i \in known} : ResetRateLimits(I)
  \/ \E e \in Entries : AddProvider(e)
  \/ Shutdown

Next ==
  \/ \E c \in Callers : CallerStep(c)
  \/ \E h \in Checkers : CheckerStep(h)
  \/ Environment

Spec == Init /\ [][Next]_vars

(* A fetch settles: its AbortController fires at the timeout and rejects it. *)
(* Reading the body has no timer (it is cleared at the headers), so nothing  *)
(* is assumed of the body phase.  The interval keeps firing and a probe      *)
(* settles (it has its own abort timer); that a provider which is probed for *)
(* ever answers some probe is the hypothesis under which it has to recover.  *)
FairSpec ==
  /\ Spec
  /\ \A c \in Callers : WF_vars(Headers(c) \/ FetchFails(c))
  /\ \A h \in Checkers :
       /\ WF_vars(\E e \in Entries : StartChecks(h, e))
       /\ WF_vars(CheckOk(h) \/ CheckNotOk(h) \/ CheckThrows(h))
  /\ \A i \in Ids :
       SF_vars(\E h \in Checkers :
                 checking[h] # None /\ IdOf[checking[h]] = i /\ CheckOk(h))

-------------------------------------------------------------------------------
TypeOK ==
  /\ providers \subseteq Entries
  /\ known \subseteq Ids
  /\ isHealthy \in [Ids -> BOOLEAN]
  /\ failures \in [Ids -> Nat]
  /\ count \in [Ids -> Nat]
  /\ elapsed \in [Ids -> BOOLEAN]
  /\ pc \in [Callers -> {"idle", "gaveUp", "fetch", "body"}]
  /\ todo \in [Callers -> SUBSET Entries]
  /\ cur \in [Callers -> Entries \cup {None}]
  /\ pref \in [Callers -> Ids \cup {None}]
  /\ list \in [Callers -> SUBSET Entries]
  /\ passed \in [Callers -> SUBSET Entries]
  /\ checking \in [Checkers -> Entries \cup {None}]
  /\ toCheck \in [Checkers -> SUBSET Entries]
  /\ live \in [Checkers -> BOOLEAN]
  /\ timerOn \in BOOLEAN

(* Whatever the order in which late answers, late failures, overlapping       *)
(* health-check rounds and re-registrations land on one record, a provider    *)
(* offered to requests has fewer than maxConsecutiveFailures on its record,   *)
(* so the next failure counts from a clean or nearly clean slate.             *)
HealthyBelowThreshold ==
  \A i \in Ids : isHealthy[i] => failures[i] < MaxConsecutiveFailures

(* The provider list and the health map agree: every registered entry has a   *)
(* record (without one getHealthyProviders would silently drop it for good)   *)
(* and no record outlives the last entry of its name.                         *)
RecordsMatchProviders == known = {IdOf[e] : e \in providers}

(* The callers whose admitted request to provider i is still in flight. *)
InFlight(i) == {c \in Callers : cur[c] # None /\ IdOf[cur[c]] = i}

(* canMakeRequest reads the counter before the await and recordRequest        *)
(* writes it after, so concurrent requests overshoot a limit; never by more   *)
(* than the other callers: what is counted plus what is in flight stays       *)
(* below the limit plus the number of callers.                                *)
RateOvershootBounded ==
  \A i \in {IdOf[e] : e \in Entries}, L \in {RateLimit[e] : e \in Entries} :
    (\A e \in Entries : IdOf[e] = i => RateLimit[e] \in 1..L) =>
      count[i] + Cardinality(InFlight(i)) < L + Cardinality(Callers)

(* The entries of provider i that pending requests may still fail on. *)
Exposure(i) ==
  {v \in Callers \X {e \in Entries : IdOf[e] = i} :
     v[2] \in todo[v[1]] \/ v[2] = cur[v[1]]}

(* A request works through the list it took at its start, so providers        *)
(* already marked unhealthy go on being called and go on failing: the failure *)
(* counter of a provider passes the threshold by no more than the visits      *)
(* still pending when it was crossed.                                         *)
FailureOvershootBounded ==
  \A i \in Ids :
    failures[i] + Cardinality(Exposure(i)) <
      MaxConsecutiveFailures
        + Cardinality(Callers) * Cardinality({e \in Entries : IdOf[e] = i})

(* Automatic failover is in order: a request waits on an entry only after     *)
(* every entry before it in its sorted list has failed or was out of requests. *)
FailoverInOrder ==
  \A c \in Callers : \A d \in list[c] :
    pc[c] \in {"fetch", "body"} /\ d # cur[c] =>
      (d \in passed[c] <=> Before(pref[c], d, cur[c]))

(* ALL_PROVIDERS_FAILED is the truth: a request reports it only after each    *)
(* healthy provider it started with has failed it or was out of requests.     *)
GivesUpOnlyWhenExhausted ==
  \A c \in Callers : pc[c] = "gaveUp" => list[c] = passed[c]

(* A request does not fail over for ever: once its abort timer is running it  *)
(* gets headers, or gives up, whatever is added, removed or reset meanwhile.  *)
LeavesFetch == \A c \in Callers : pc[c] = "fetch" ~> pc[c] # "fetch"

(* While the interval runs, a provider marked unhealthy comes back, or is     *)
(* removed, as soon as it answers probes again: no other route leads back for *)
(* a provider no request will pick.                                           *)
Recovers ==
  \A i \in Ids : i \in known /\ ~isHealthy[i]
                   ~> isHealthy[i] \/ i \notin known \/ ~timerOn
===============================================================================
