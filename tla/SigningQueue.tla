----------------------------- MODULE SigningQueue -----------------------------
(***************************************************************************)
(* SigningQueue (packages/wallet-core/src/connectivity/reown_disabled/     *)
(* SigningQueue.ts) over the signing part of sessionStore.ts: requests     *)
(* that wait for the user's answer, each with a timeout that rejects it.   *)
(*                                                                         *)
(* A request's id is fresh (time and random digits), so an id that left    *)
(* the store never comes back: "removed" is not "absent".  Signatures,     *)
(* hashes and the other payload are left out; only the status is read by   *)
(* the code that decides.                                                  *)
(***************************************************************************)
EXTENDS Naturals, FiniteSets

CONSTANTS
  Requests,      \* request ids
  MaxQueueSize   \* config.maxQueueSize

ASSUME SizeAssumption == MaxQueueSize \in Nat

VARIABLES
  status,   \* status of the request in the store
  timer     \* it has an entry in requestTimers

queueVars == <<status, timer>>

Statuses == {"pending", "signed", "rejected", "broadcasted", "confirmed", "failed"}

InStore(r) == status[r] \in Statuses

(* getPendingSigningRequests *)
Pending == {r \in Requests : status[r] = "pending"}

QueueInit ==
  /\ status = [r \in Requests |-> "absent"]
  /\ timer = [r \in Requests |-> FALSE]

(* addRequest; with the queue full it throws and nothing changes. *)
AddRequest(r) ==
  /\ status[r] = "absent"
  /\ Cardinality(Pending) < MaxQueueSize
  /\ status' = [status EXCEPT ![r] = "pending"]
  /\ timer' = [timer EXCEPT ![r] = TRUE]

(* Mutant: the timer is cleared before the empty signature is refused. *)
ApproveRequest_ClearsFirst(r) ==
  /\ status[r] = "pending"
  /\ \/ status' = [status EXCEPT ![r] = "signed"]
     \/ UNCHANGED status
  /\ timer' = [timer EXCEPT ![r] = FALSE]

(* approveRequest and rejectRequest answer pending requests only. *)
ApproveRequest(r) ==
  /\ status[r] = "pending"
  /\ status' = [status EXCEPT ![r] = "signed"]
  /\ timer' = [timer EXCEPT ![r] = FALSE]

RejectRequest(r) ==
  /\ status[r] = "pending"
  /\ status' = [status EXCEPT ![r] = "rejected"]
  /\ timer' = [timer EXCEPT ![r] = FALSE]

(* markBroadcasted, updateConfirmations and markFailed write over any status *)
(* of a known request and leave its timer alone.                             *)
MarkBroadcasted(r) ==
  /\ InStore(r)
  /\ status' = [status EXCEPT ![r] = "broadcasted"]
  /\ UNCHANGED timer

(* Mutant: a report without a status is written as it is. *)
UpdateConfirmations_NoDefault(r, s) ==
  /\ InStore(r)
  /\ \E t \in {s, "undefined"} : status' = [status EXCEPT ![r] = t]
  /\ UNCHANGED timer

(* The report names its status: broadcasted or confirmed in every call there  *)
(* is, though the method would take any.                                      *)
UpdateConfirmations(r, s) ==
  /\ InStore(r)
  /\ status' = [status EXCEPT ![r] = s]
  /\ UNCHANGED timer

MarkFailed(r) ==
  /\ InStore(r)
  /\ status' = [status EXCEPT ![r] = "failed"]
  /\ UNCHANGED timer

RemoveRequest(r) ==
  /\ InStore(r)
  /\ status' = [status EXCEPT ![r] = "removed"]
  /\ timer' = [timer EXCEPT ![r] = FALSE]

(* clear removes the pending requests. *)
Clear ==
  /\ Pending # {}
  /\ status' = [r \in Requests |-> IF r \in Pending THEN "removed" ELSE status[r]]
  /\ timer' = [r \in Requests |-> timer[r] /\ r \notin Pending]

(* Mutant: the callback rejects whatever the status is. *)
RequestTimesOut_Unguarded(r) ==
  /\ timer[r]
  /\ status' = [status EXCEPT ![r] = IF InStore(r) THEN "rejected" ELSE @]
  /\ timer' = [timer EXCEPT ![r] = FALSE]

(* The timer fires: only a request that is still pending is rejected. *)
RequestTimesOut(r) ==
  /\ timer[r]
  /\ status' = [status EXCEPT ![r] = IF @ = "pending" THEN "rejected" ELSE @]
  /\ timer' = [timer EXCEPT ![r] = FALSE]

(* The manager's destroy: the store is reset, every timer is cleared. *)
QueueDestroy ==
  /\ status' = [r \in Requests |-> IF InStore(r) THEN "removed" ELSE status[r]]
  /\ timer' = [r \in Requests |-> FALSE]

QueueNext ==
  \/ \E r \in Requests :
       \/ AddRequest(r) \/ ApproveRequest(r) \/ RejectRequest(r)
       \/ MarkBroadcasted(r) \/ MarkFailed(r) \/ RemoveRequest(r)
       \/ \E s \in {"broadcasted", "confirmed"} : UpdateConfirmations(r, s)
       \/ RequestTimesOut(r)
  \/ Clear
  \/ QueueDestroy

QueueSpec == QueueInit /\ [][QueueNext]_queueVars

(* setTimeout fires unless it is cleared. *)
QueueFairSpec == QueueSpec /\ \A r \in Requests : WF_queueVars(RequestTimesOut(r))

-------------------------------------------------------------------------------
QueueTypeOK ==
  /\ status \in [Requests -> Statuses \cup {"absent", "removed"}]
  /\ timer \in [Requests -> BOOLEAN]

(* The signing queue never holds more than maxQueueSize unanswered requests:  *)
(* no report of the network, timeout or removal puts a request back.          *)
QueueBounded == Cardinality(Pending) <= MaxQueueSize

(* Whatever answers, reports, removals and clears come in between, a pending  *)
(* request still has the timer that will answer it; one without would hold a  *)
(* place in the queue until the next destroy.                                 *)
PendingHasTimer == \A r \in Requests : status[r] = "pending" => timer[r]

(* An answer is given once: neither a late signature, nor a second click, nor *)
(* a timer left running by markFailed signs or rejects a request again.       *)
AnsweredOnce ==
  [][\A r \in Requests :
       status'[r] \in {"signed", "rejected"} /\ status'[r] # status[r]
         => status[r] = "pending"]_queueVars

Lifecycle == INSTANCE SigningLifecycle WITH Capacity <- MaxQueueSize

(* The queue implements its contract, the answering of every request included;  *)
(* under ReownAdapter, whose steps mark a request several times over, so do   *)
(* the adapter, the user and the timers together.                             *)
ImplementsLifecycle == Lifecycle!FairSpec
===============================================================================
