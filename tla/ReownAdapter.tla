----------------------------- MODULE ReownAdapter -----------------------------
(***************************************************************************)
(* ReownAdapter (packages/wallet-core/src/connectivity/reown_disabled/     *)
(* ReownAdapter.ts) composed with the SigningQueue it drives: per request  *)
(* one pending processTransactionRequest() call, the status poller it may  *)
(* leave behind, and the polls in flight (setInterval starts a poll        *)
(* whether or not the last one has answered).                              *)
(*                                                                         *)
(* One action is the code between two awaits.  The user, who may approve,  *)
(* reject or remove a request at any time, and the timeout work on the     *)
(* same queue.  chain is the network and the wallet behind the providers:  *)
(* what has become of the request's transaction.  The transaction provider *)
(* has all three methods; one without broadcast takes the 'engine' branch. *)
(* processedRequests is left out: its guard looks for an id that is fresh. *)
(***************************************************************************)
EXTENDS SigningQueue

CONSTANTS
  Polls,     \* slots for the polls of one request that are in flight
  Waited     \* requests whose caller is in waitForSigningResult

ASSUME PollsAssumption == "idle" \notin Polls
ASSUME WaitedAssumption == Waited \subseteq Requests

VARIABLES
  up,              \* the adapter is initialised (walletManager, signingQueue)
  broadcastMode,
  pc,       \* where processTransactionRequest awaits: the appKit's open, the
            \* signature, the broadcast; "none" before and after
  hashed,   \* the awaited broadcast follows a signature that named a txHash
  poller,   \* statusPollers has an interval for the request
  polls,    \* each poll in flight: the state of the chain when it started
  chain     \* the transaction on the network

pipelineVars == <<pc, hashed>>
pollVars == <<poller, polls>>
vars == <<queueVars, up, broadcastMode, pipelineVars, pollVars, chain>>

OnChain == {"none", "sent", "confirmed", "failed"}
NoPolls == [p \in Polls |-> "idle"]

-------------------------------------------------------------------------------
Init ==
  /\ QueueInit
  /\ up = TRUE
  /\ broadcastMode \in {"adapter", "engine"}
  /\ pc = [r \in Requests |-> "none"]
  /\ hashed = [r \in Requests |-> FALSE]
  /\ poller = [r \in Requests |-> FALSE]
  /\ polls = [r \in Requests |-> NoPolls]
  /\ chain = [r \in Requests |-> "none"]

(* A status written through signingQueue?.: nothing after destroy, nothing    *)
(* for a request that was removed.                                            *)
Marked(r, s) == [status EXCEPT ![r] = IF up /\ InStore(r) THEN s ELSE @]

(* signTransaction: queue the request, go on to the appKit's open. *)
SignTransaction(r) ==
  /\ up
  /\ AddRequest(r)
  /\ pc' = [pc EXCEPT ![r] = "open"]
  /\ UNCHANGED <<up, broadcastMode, hashed, pollVars, chain>>

(* signMessage: the user's answer is all the request waits for. *)
SignMessage(r) ==
  /\ up
  /\ AddRequest(r)
  /\ UNCHANGED <<up, broadcastMode, pipelineVars, pollVars, chain>>

(* The user answers or removes requests (useReOwnApprovals, the modal). *)
UserActs ==
  /\ up
  /\ \/ \E r \in Requests :
          ApproveRequest(r) \/ RejectRequest(r) \/ RemoveRequest(r)
     \/ Clear
  /\ UNCHANGED <<up, broadcastMode, pipelineVars, pollVars, chain>>

Timeout(r) ==
  /\ RequestTimesOut(r)
  /\ UNCHANGED <<up, broadcastMode, pipelineVars, pollVars, chain>>

SetBroadcastMode(m) ==
  /\ broadcastMode # m
  /\ broadcastMode' = m
  /\ UNCHANGED <<queueVars, up, pipelineVars, pollVars, chain>>

-------------------------------------------------------------------------------
(* processTransactionRequest, await by await *)

Opened(r) ==
  /\ pc[r] = "open"
  /\ pc' = [pc EXCEPT ![r] = "sign"]
  /\ UNCHANGED <<queueVars, up, broadcastMode, hashed, pollVars, chain>>

(* Mutant: the payload is written into the request, whatever its status. *)
Approve_Unguarded(r, h) ==
  /\ status' = Marked(r, IF broadcastMode = "engine" /\ h THEN "broadcasted"
                                                          ELSE "signed")
  /\ timer' = [timer EXCEPT ![r] = FALSE]

(* approveSigningRequest, whose verdict nobody reads, and in engine mode the  *)
(* mark for the hash that came with the signature.                            *)
Approve(r, h) ==
  LET approved == up /\ status[r] = "pending"
  IN  /\ status' = IF broadcastMode = "engine" /\ h THEN Marked(r, "broadcasted")
                   ELSE IF approved THEN [status EXCEPT ![r] = "signed"]
                   ELSE status
      /\ timer' = [timer EXCEPT ![r] = @ /\ ~approved]

(* requestSignature resolves; h: the response names a transaction hash. *)
SignatureArrives(r, h) ==
  /\ pc[r] = "sign"
  /\ h => chain[r] # "none"
  /\ Approve(r, h)
  /\ pc' = [pc EXCEPT ![r] = IF broadcastMode = "adapter" THEN "broadcast"
                                                          ELSE "none"]
  /\ hashed' = [hashed EXCEPT ![r] = h /\ broadcastMode = "adapter"]
  /\ UNCHANGED <<up, broadcastMode, pollVars, chain>>

(* What a broadcast may answer: a hash of a transaction that was sent, and a  *)
(* status the network bears out ("failed" also for one it refused).           *)
BroadcastAnswer(r, h, s) ==
  /\ h => chain[r] # "none"
  /\ s = "confirmed" => chain[r] = "confirmed"
  /\ s = "failed" => chain[r] \in {"none", "failed"}

(* Mutant: a broadcast that says nothing of its status is taken as final. *)
AfterBroadcast_Optimistic(h, s) ==
  IF s \in {"confirmed", "failed"} THEN s
  ELSE IF h THEN "confirmed" ELSE "unchanged"

(* The status the marks after a broadcast leave behind. *)
AfterBroadcast(h, s) ==
  IF s \in {"confirmed", "failed"} THEN s
  ELSE IF h THEN "broadcasted" ELSE "unchanged"

(* broadcast resolves; with a hash and no verdict the poller starts, and its  *)
(* first poll at once.                                                        *)
BroadcastResolves(r, h, s) ==
  LET named == h \/ hashed[r]
      mark  == AfterBroadcast(named, s)
      track == named /\ s = "pending"
  IN  /\ pc[r] = "broadcast"
      /\ BroadcastAnswer(r, h, s)
      /\ status' = IF mark = "unchanged" THEN status ELSE Marked(r, mark)
      /\ pc' = [pc EXCEPT ![r] = "none"]
      /\ hashed' = [hashed EXCEPT ![r] = FALSE]
      /\ poller' = [poller EXCEPT ![r] = track]
      /\ IF track
           THEN \E p \in Polls : polls' = [polls EXCEPT ![r][p] = chain[r]]
           ELSE UNCHANGED polls
      /\ UNCHANGED <<timer, up, broadcastMode, chain>>

(* open, requestSignature (or a response without signature) or broadcast      *)
(* throws: markFailed comes first, so the rejection after it finds the        *)
(* request no longer pending and does nothing.                                *)
PipelineThrows(r) ==
  /\ pc[r] # "none"
  /\ status' = Marked(r, "failed")
  /\ pc' = [pc EXCEPT ![r] = "none"]
  /\ hashed' = [hashed EXCEPT ![r] = FALSE]
  /\ poller' = [poller EXCEPT ![r] = FALSE]
  /\ UNCHANGED <<timer, up, broadcastMode, polls, chain>>

-------------------------------------------------------------------------------
(* startStatusPolling *)

(* The interval ticks. *)
PollStarts(r, p) ==
  /\ poller[r]
  /\ polls[r][p] = "idle"
  /\ polls' = [polls EXCEPT ![r][p] = chain[r]]
  /\ UNCHANGED <<queueVars, up, broadcastMode, pipelineVars, poller, chain>>

(* Mutant: a failed transaction leaves the interval running. *)
StopsPolling_OnlyConfirmed(v) == v = "confirmed"

(* The answers that end the polling. *)
StopsPolling(v) == v \in {"confirmed", "failed"}

(* A poll answers with what the chain was at some time since it started;      *)
(* a transaction not decided yet, or not known, is 'pending'.                 *)
PollAnswers(r, p, v) ==
  /\ polls[r][p] # "idle"
  /\ v \in {polls[r][p], chain[r]}
  /\ status' = Marked(r, IF v \in {"confirmed", "failed"} THEN v ELSE "broadcasted")
  /\ poller' = [poller EXCEPT ![r] = @ /\ ~StopsPolling(v)]
  /\ polls' = [polls EXCEPT ![r][p] = "idle"]
  /\ UNCHANGED <<timer, up, broadcastMode, pipelineVars, chain>>

(* Mutant: an empty answer ends the polling. *)
PollIsVoid_Stops(r, p) ==
  /\ polls[r][p] # "idle"
  /\ polls' = [polls EXCEPT ![r][p] = "idle"]
  /\ poller' = [poller EXCEPT ![r] = FALSE]
  /\ UNCHANGED <<queueVars, up, broadcastMode, pipelineVars, chain>>

(* A poll resolves to nothing. *)
PollIsVoid(r, p) ==
  /\ polls[r][p] # "idle"
  /\ polls' = [polls EXCEPT ![r][p] = "idle"]
  /\ UNCHANGED <<queueVars, up, broadcastMode, pipelineVars, poller, chain>>

(* A poll throws: the request is marked failed, whatever the chain will say. *)
PollThrows(r, p) ==
  /\ polls[r][p] # "idle"
  /\ status' = Marked(r, "failed")
  /\ poller' = [poller EXCEPT ![r] = FALSE]
  /\ polls' = [polls EXCEPT ![r][p] = "idle"]
  /\ UNCHANGED <<timer, up, broadcastMode, pipelineVars, chain>>

(* waitForSigningResult returns on one of the caller's resolveStatuses, any   *)
(* but pending, and stops the polling.                                        *)
WaiterReturns(r) ==
  /\ r \in Waited
  /\ up /\ InStore(r) /\ status[r] # "pending"
  /\ poller[r]
  /\ poller' = [poller EXCEPT ![r] = FALSE]
  /\ UNCHANGED <<queueVars, up, broadcastMode, pipelineVars, polls, chain>>

-------------------------------------------------------------------------------
(* destroy; what is awaited goes on, and finds no manager and no queue. *)
Destroy ==
  /\ up
  /\ up' = FALSE
  /\ QueueDestroy
  /\ poller' = [r \in Requests |-> FALSE]
  /\ UNCHANGED <<broadcastMode, pipelineVars, polls, chain>>

(* The same adapter is initialised again (connect does it when needed), with  *)
(* a new manager and a new queue over the store.                              *)
Initialize ==
  /\ ~up
  /\ up' = TRUE
  /\ UNCHANGED <<queueVars, broadcastMode, pipelineVars, pollVars, chain>>

(* The wallet or the provider's broadcast puts the transaction on the network *)
(* while it is asked to; later the network decides.                           *)
ChainSends(r) ==
  /\ pc[r] \in {"sign", "broadcast"}
  /\ chain[r] = "none"
  /\ chain' = [chain EXCEPT ![r] = "sent"]
  /\ UNCHANGED <<queueVars, up, broadcastMode, pipelineVars, pollVars>>

ChainDecides(r) ==
  /\ chain[r] = "sent"
  /\ \E v \in {"confirmed", "failed"} : chain' = [chain EXCEPT ![r] = v]
  /\ UNCHANGED <<queueVars, up, broadcastMode, pipelineVars, pollVars>>

Pipeline(r) ==
  \/ SignTransaction(r)
  \/ SignMessage(r)
  \/ Opened(r)
  \/ \E h \in BOOLEAN : SignatureArrives(r, h)
  \/ \E h \in BOOLEAN, s \in {"pending", "confirmed", "failed"} :
       BroadcastResolves(r, h, s)
  \/ PipelineThrows(r)

Poll(r, p) ==
  \/ PollStarts(r, p)
  \/ \E v \in OnChain : PollAnswers(r, p, v)
  \/ PollIsVoid(r, p)
  \/ PollThrows(r, p)

Next ==
  \/ \E r \in Requests :
       \/ Pipeline(r)
       \/ \E p \in Polls : Poll(r, p)
       \/ Timeout(r)
       \/ WaiterReturns(r)
       \/ ChainSends(r) \/ ChainDecides(r)
  \/ UserActs
  \/ \E m \in {"adapter", "engine"} : SetBroadcastMode(m)
  \/ Destroy
  \/ Initialize

Spec == Init /\ [][Next]_vars

(* Timers fire unless they are cleared, the interval ticks, the network       *)
(* decides, and a provider does not stay silent for ever on a transaction     *)
(* that has been decided.                                                     *)
FairSpec ==
  /\ Spec
  /\ \A r \in Requests :
       /\ WF_vars(Timeout(r))
       /\ WF_vars(ChainDecides(r))
       /\ \A p \in Polls :
            /\ WF_vars(PollStarts(r, p))
            /\ SF_vars(chain[r] \in {"confirmed", "failed"}
                         /\ PollAnswers(r, p, chain[r]))

-------------------------------------------------------------------------------
TypeOK ==
  /\ QueueTypeOK
  /\ up \in BOOLEAN
  /\ broadcastMode \in {"adapter", "engine"}
  /\ pc \in [Requests -> {"none", "open", "sign", "broadcast"}]
  /\ hashed \in [Requests -> BOOLEAN]
  /\ poller \in [Requests -> BOOLEAN]
  /\ polls \in [Requests -> [Polls -> OnChain \cup {"idle"}]]
  /\ chain \in [Requests -> OnChain]

(* A request is shown as confirmed only if the network confirmed it, whatever *)
(* the order of broadcast answers, polls, destroys and user actions.          *)
ConfirmedIsTrue ==
  \A r \in Requests : status[r] = "confirmed" => chain[r] = "confirmed"

(* A poller runs only for a request that is broadcast and not yet decided: a  *)
(* verdict, even one of an overlapping older poll, stops the interval.        *)
PollerMeansBroadcasted ==
  \A r \in Requests :
    poller[r] /\ InStore(r) => status[r] = "broadcasted"

(* Once the pipeline of a request is through, its poller stopped and no poll  *)
(* in flight, its status is final: only removal is left.  (Before that a late *)
(* 'pending' may still replace a confirmation, and it is then broadcasted     *)
(* that is final: see TrackedIsDecided.)                                      *)
Quiet(r) == pc[r] = "none" /\ ~poller[r] /\ polls[r] = NoPolls

SettledWhenQuiet ==
  [][\A r \in Requests :
       Quiet(r) /\ InStore(r) /\ status[r] # "pending"
         => status'[r] \in {status[r], "removed"}]_vars

(* The README's promise: a signature needs the user's confirmation and comes  *)
(* before the timeout, so a rejected request is never handed to broadcast.    *)
NoBroadcastAfterRejection ==
  \A r \in Requests : pc[r] = "broadcast" => status[r] # "rejected"

(* The verdicts a tracked request can end in. *)
Verdict(r) == status[r] \in {"confirmed", "failed", "removed"}

(* The verdict came while a poll was still out that began before the network  *)
(* decided: startStatusPolling does not cancel it, and a 'pending' it answers *)
(* replaces the verdict by broadcasted, with no poller left to correct it.    *)
Overtaken(r) == Verdict(r) /\ \E p \in Polls : polls[r][p] \in {"none", "sent"}

(* A request that is being tracked gets a verdict and keeps it for ever,      *)
(* through empty answers, errors, destroy and re-initialisation.  The one way *)
(* to lose it is the one named: a poll that overlaps the deciding one and     *)
(* began before the network decided.                                          *)
TrackedIsDecided ==
  \A r \in Requests \ Waited :
    poller[r] ~> ([]Verdict(r) \/ Overtaken(r))
===============================================================================
