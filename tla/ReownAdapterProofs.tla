-------------------------- MODULE ReownAdapterProofs --------------------------
(* Proofs about SigningQueue and ReownAdapter, for every set of requests,     *)
(* finite or not, every queue size and every set of polls.                    *)
EXTENDS ReownAdapter, FiniteSetTheorems, TLAPS

USE SizeAssumption, PollsAssumption, WaitedAssumption

-------------------------------------------------------------------------------
(* What the contract gives whatever implements it, in any one step *)

(* The instance brings its own copy of the standard operator. *)
LEMMA SameCardinality ==
  ASSUME NEW S
  PROVE  Lifecycle!Cardinality(S) = Cardinality(S)
BY DEF Cardinality, Lifecycle!Cardinality, IsFiniteSet, Lifecycle!IsFiniteSet

(* Requests need not be finite: those that wait are. *)
Bounded == IsFiniteSet(Pending) /\ QueueBounded

LEMMA PendingGrowth ==
  ASSUME QueueTypeOK, [Lifecycle!Next]_status
  PROVE  \/ Pending' \subseteq Pending
         \/ \E r \in Requests : /\ Pending' = Pending \cup {r} /\ r \notin Pending
                                /\ Cardinality(Pending) < MaxQueueSize
<1> USE DEF QueueTypeOK, Pending
<1>1. ASSUME NEW r \in Requests, Lifecycle!Enter(r)
      PROVE  /\ Pending' = Pending \cup {r} /\ r \notin Pending
             /\ Cardinality(Pending) < MaxQueueSize
  BY <1>1, SameCardinality DEF Lifecycle!Enter
<1>2. ASSUME NEW r \in Requests, Lifecycle!Answer(r) \/ Lifecycle!Report(r)
      PROVE  Pending' \subseteq Pending
  BY <1>2 DEF Lifecycle!Answer, Lifecycle!Answers, Lifecycle!Report,
              Lifecycle!Reports
<1>3. ASSUME NEW S \in SUBSET Requests, Lifecycle!Forget(S)
      PROVE  Pending' \subseteq Pending
  BY <1>3 DEF Lifecycle!Forget
<1>4. CASE UNCHANGED status
  BY <1>4
<1> QED
  BY <1>1, <1>2, <1>3, <1>4 DEF Lifecycle!Next

LEMMA BoundedStep ==
  ASSUME QueueTypeOK, Bounded, [Lifecycle!Next]_status
  PROVE  Bounded'
<1>0. Cardinality(Pending) \in Nat
  BY FS_CardinalityType DEF Bounded, QueueBounded
<1>1. CASE Pending' \subseteq Pending
  BY <1>0, <1>1, FS_Subset, FS_CardinalityType DEF Bounded, QueueBounded
<1>2. ASSUME NEW r \in Requests, Pending' = Pending \cup {r}, r \notin Pending,
             Cardinality(Pending) < MaxQueueSize
      PROVE  Bounded'
  <2>1. IsFiniteSet(Pending') /\ Cardinality(Pending') = Cardinality(Pending) + 1
    BY <1>2, FS_AddElement DEF Bounded, QueueBounded
  <2> QED
    BY <1>0, <1>2, <2>1 DEF Bounded, QueueBounded
<1> QED
  BY <1>1, <1>2, PendingGrowth

LEMMA NoneWaitAtFirst == QueueInit => Bounded
<1> SUFFICES ASSUME QueueInit PROVE Bounded
  OBVIOUS
<1>1. Pending = {}
  BY DEF QueueInit, Pending
<1> QED
  BY <1>1, FS_EmptySet DEF Bounded, QueueBounded

(* In one step of the contract, only a waiting request is signed or rejected. *)
AnswersWaiting ==
  \A r \in Requests :
    status'[r] \in {"signed", "rejected"} /\ status'[r] # status[r]
      => status[r] = "pending"

LEMMA OnceStep ==
  ASSUME QueueTypeOK, [Lifecycle!Next]_status
  PROVE  AnswersWaiting
<1> USE DEF QueueTypeOK, AnswersWaiting
<1>0. ASSUME NEW q \in Requests, NEW s, status' = [status EXCEPT ![q] = s],
             s \in {"signed", "rejected"} => status[q] = "pending"
      PROVE  AnswersWaiting
  BY <1>0
<1>1. ASSUME NEW q \in Requests,
             Lifecycle!Enter(q) \/ Lifecycle!Answer(q) \/ Lifecycle!Report(q)
      PROVE  AnswersWaiting
  <2>1. \E s : /\ status' = [status EXCEPT ![q] = s]
               /\ s \in {"signed", "rejected"} => status[q] = "pending"
    BY <1>1 DEF Lifecycle!Enter, Lifecycle!Answer, Lifecycle!Report, Lifecycle!Reports
  <2> HIDE DEF AnswersWaiting
  <2> QED
    BY <1>0, <2>1
<1>2. ASSUME NEW S \in SUBSET Requests, Lifecycle!Forget(S)
      PROVE  AnswersWaiting
  BY <1>2 DEF Lifecycle!Forget
<1> QED
  BY <1>1, <1>2 DEF Lifecycle!Next

-------------------------------------------------------------------------------
(* SigningQueue by itself *)

LEMMA QueueTypeStep == QueueTypeOK /\ [QueueNext]_queueVars => QueueTypeOK'
<1> SUFFICES ASSUME QueueTypeOK, [QueueNext]_queueVars PROVE QueueTypeOK'
  OBVIOUS
<1> USE DEF QueueTypeOK, Statuses
<1>1. ASSUME NEW r \in Requests, AddRequest(r) PROVE QueueTypeOK'
  BY <1>1 DEF AddRequest
<1>2. ASSUME NEW r \in Requests, ApproveRequest(r) PROVE QueueTypeOK'
  BY <1>2 DEF ApproveRequest
<1>3. ASSUME NEW r \in Requests, RejectRequest(r) PROVE QueueTypeOK'
  BY <1>3 DEF RejectRequest
<1>4. ASSUME NEW r \in Requests, MarkBroadcasted(r) PROVE QueueTypeOK'
  BY <1>4 DEF MarkBroadcasted
<1>5. ASSUME NEW r \in Requests, MarkFailed(r) PROVE QueueTypeOK'
  BY <1>5 DEF MarkFailed
<1>6. ASSUME NEW r \in Requests, RemoveRequest(r) PROVE QueueTypeOK'
  BY <1>6 DEF RemoveRequest
<1>7. ASSUME NEW r \in Requests, NEW s \in {"broadcasted", "confirmed"},
             UpdateConfirmations(r, s)
      PROVE QueueTypeOK'
  BY <1>7 DEF UpdateConfirmations
<1>8. ASSUME NEW r \in Requests, RequestTimesOut(r) PROVE QueueTypeOK'
  BY <1>8 DEF RequestTimesOut
<1>9. CASE Clear
  <2>1. status' \in [Requests -> Statuses \cup {"absent", "removed"}]
    BY <1>9 DEF Clear
  <2>2. timer' \in [Requests -> BOOLEAN]
    BY <1>9 DEF Clear
  <2> QED BY <2>1, <2>2
<1>10. CASE QueueDestroy
  <2>1. status' \in [Requests -> Statuses \cup {"absent", "removed"}]
    BY <1>10 DEF QueueDestroy
  <2>2. timer' \in [Requests -> BOOLEAN]
    BY <1>10 DEF QueueDestroy
  <2> QED BY <2>1, <2>2
<1>11. CASE UNCHANGED queueVars
  BY <1>11 DEF queueVars
<1> QED
  BY <1>1, <1>2, <1>3, <1>4, <1>5, <1>6, <1>7, <1>8, <1>9, <1>10, <1>11 DEF QueueNext

LEMMA QueueTypeInit == QueueInit => QueueTypeOK
BY DEF QueueInit, QueueTypeOK

(* Every variable of the queue keeps its type. *)
THEOREM QueueTypeCorrect == QueueSpec => []QueueTypeOK
BY QueueTypeInit, QueueTypeStep, PTL DEF QueueSpec

(* A pending request has its timer in every reachable state: no operation but *)
(* addRequest makes a request pending, and every one that stops a timer       *)
(* leaves its request answered or gone.                                       *)
THEOREM PendingIsTimed == QueueSpec => []PendingHasTimer
<1>1. QueueInit => PendingHasTimer
  BY DEF QueueInit, PendingHasTimer
<1>2. QueueTypeOK /\ PendingHasTimer /\ [QueueNext]_queueVars => PendingHasTimer'
  <2> SUFFICES ASSUME QueueTypeOK, PendingHasTimer, [QueueNext]_queueVars,
                      NEW q \in Requests, status'[q] = "pending"
               PROVE timer'[q]
    BY DEF PendingHasTimer
  <2> USE DEF QueueTypeOK, PendingHasTimer
  <2>1. ASSUME NEW r \in Requests, AddRequest(r) PROVE timer'[q]
    BY <2>1 DEF AddRequest
  <2>2. ASSUME NEW r \in Requests, ApproveRequest(r) \/ RejectRequest(r)
        PROVE timer'[q]
    BY <2>2 DEF ApproveRequest, RejectRequest
  <2>3. ASSUME NEW r \in Requests,
               MarkBroadcasted(r) \/ MarkFailed(r)
                 \/ \E s \in {"broadcasted", "confirmed"} : UpdateConfirmations(r, s)
        PROVE timer'[q]
    BY <2>3 DEF MarkBroadcasted, MarkFailed, UpdateConfirmations
  <2>4. ASSUME NEW r \in Requests, RemoveRequest(r) PROVE timer'[q]
    BY <2>4 DEF RemoveRequest
  <2>5. ASSUME NEW r \in Requests, RequestTimesOut(r) PROVE timer'[q]
    BY <2>5 DEF RequestTimesOut
  <2>6. CASE Clear
    BY <2>6 DEF Clear, Pending
  <2>7. CASE QueueDestroy
    BY <2>7 DEF QueueDestroy, InStore, Statuses
  <2>8. CASE UNCHANGED queueVars
    BY <2>8 DEF queueVars
  <2> QED
    BY <2>1, <2>2, <2>3, <2>4, <2>5, <2>6, <2>7, <2>8 DEF QueueNext
<1> QED
  BY <1>1, <1>2, QueueTypeCorrect, PTL DEF QueueSpec

LEMMA QueueStepRefines == QueueTypeOK /\ [QueueNext]_queueVars => [Lifecycle!Next]_status
<1> SUFFICES ASSUME QueueTypeOK, [QueueNext]_queueVars PROVE [Lifecycle!Next]_status
  OBVIOUS
<1> USE DEF QueueTypeOK, Statuses, InStore, Pending, Lifecycle!Next, Lifecycle!Known,
            Lifecycle!Answers, Lifecycle!Reports
<1>1. ASSUME NEW r \in Requests, AddRequest(r) PROVE Lifecycle!Next
  <2>1. Cardinality(Pending) = Lifecycle!Cardinality(Pending)
    BY DEF Cardinality, Lifecycle!Cardinality, IsFiniteSet, Lifecycle!IsFiniteSet
  <2> QED
    BY <1>1, <2>1 DEF AddRequest, Lifecycle!Enter
<1>2. ASSUME NEW r \in Requests, ApproveRequest(r) \/ RejectRequest(r)
      PROVE Lifecycle!Next
  BY <1>2 DEF ApproveRequest, RejectRequest, Lifecycle!Answer
<1>3. ASSUME NEW r \in Requests, NEW s \in {"broadcasted", "confirmed"},
             MarkBroadcasted(r) \/ MarkFailed(r) \/ UpdateConfirmations(r, s)
      PROVE Lifecycle!Next
  BY <1>3 DEF MarkBroadcasted, MarkFailed, UpdateConfirmations, Lifecycle!Report
<1>4. ASSUME NEW r \in Requests, RemoveRequest(r) PROVE Lifecycle!Next
  <2>1. status' = [q \in Requests |-> IF q \in {r} THEN "removed" ELSE status[q]]
    BY <1>4 DEF RemoveRequest
  <2>2. Lifecycle!Forget({r})
    BY <1>4, <2>1 DEF RemoveRequest, Lifecycle!Forget
  <2> QED
    BY <2>2
<1>5. ASSUME NEW r \in Requests, RequestTimesOut(r) PROVE [Lifecycle!Next]_status
  BY <1>5 DEF RequestTimesOut, Lifecycle!Answer
<1>6. CASE Clear
  <2>1. Lifecycle!Forget(Pending)
    BY <1>6 DEF Clear, Lifecycle!Forget
  <2> QED
    BY <2>1
<1>7. CASE QueueDestroy
  <2> DEFINE S == {r \in Requests : InStore(r)}
  <2>1. Lifecycle!Forget(S)
    BY <1>7 DEF QueueDestroy, Lifecycle!Forget
  <2> QED
    BY <2>1
<1>8. CASE UNCHANGED queueVars
  BY <1>8 DEF queueVars
<1> QED
  BY <1>1, <1>2, <1>3, <1>4, <1>5, <1>6, <1>7, <1>8 DEF QueueNext

(* The safety half of the contract: every behaviour of the queue is one of    *)
(* SigningLifecycle.  (That every request is answered is checked by TLC.)     *)
THEOREM QueueImplementsLifecycle == QueueSpec => Lifecycle!Spec
<1>1. QueueInit => Lifecycle!Init
  BY DEF QueueInit, Lifecycle!Init
<1> QED
  BY <1>1, QueueStepRefines, QueueTypeCorrect, PTL DEF QueueSpec, Lifecycle!Spec

(* The number of pending requests stays within maxQueueSize, for any          *)
(* requests, finitely many or not.                                            *)
THEOREM QueueIsBounded == QueueSpec => []QueueBounded
<1>1. QueueInit => Bounded
  BY NoneWaitAtFirst
<1>2. QueueTypeOK /\ Bounded /\ [QueueNext]_queueVars => Bounded'
  BY QueueStepRefines, BoundedStep
<1>3. Bounded => QueueBounded
  BY DEF Bounded
<1> QED
  BY <1>1, <1>2, <1>3, QueueTypeCorrect, PTL DEF QueueSpec

(* No request is signed or rejected but from pending, in any step. *)
THEOREM AnsweredOnlyOnce == QueueSpec => AnsweredOnce
<1>1. QueueTypeOK /\ [QueueNext]_queueVars => [AnswersWaiting]_queueVars
  BY QueueStepRefines, OnceStep
<1>2. QueueSpec => [][AnswersWaiting]_queueVars
  BY <1>1, QueueTypeCorrect, PTL DEF QueueSpec
<1> QED
  BY <1>2 DEF AnsweredOnce, AnswersWaiting

-------------------------------------------------------------------------------
(* The adapter *)

Status == Statuses \cup {"absent", "removed"}

(* What a marked status may be. *)
LEMMA MarkedType ==
  ASSUME TypeOK, NEW r \in Requests, NEW s \in Statuses
  PROVE  /\ Marked(r, s) \in [Requests -> Status]
         /\ \A q \in Requests : q # r => Marked(r, s)[q] = status[q]
         /\ Marked(r, s)[r] = IF up /\ InStore(r) THEN s ELSE status[r]
BY DEF TypeOK, QueueTypeOK, Marked, Status

(* Writing one slot. *)
LEMMA PollsType ==
  ASSUME TypeOK, NEW r \in Requests, NEW p \in Polls,
         NEW v \in OnChain \cup {"idle"}
  PROVE  [polls EXCEPT ![r][p] = v] \in [Requests -> [Polls -> OnChain \cup {"idle"}]]
<1>1. [polls[r] EXCEPT ![p] = v] \in [Polls -> OnChain \cup {"idle"}]
  BY DEF TypeOK
<1>2. [polls EXCEPT ![r] = [polls[r] EXCEPT ![p] = v]]
        \in [Requests -> [Polls -> OnChain \cup {"idle"}]]
  BY <1>1 DEF TypeOK
<1> QED
  BY <1>2

LEMMA AfterBroadcastType ==
  ASSUME NEW h \in BOOLEAN, NEW s \in {"pending", "confirmed", "failed"}
  PROVE  AfterBroadcast(h, s) \in {"confirmed", "failed", "broadcasted", "unchanged"}
BY DEF AfterBroadcast

-------------------------------------------------------------------------------
(* Each action keeps the types. *)
LEMMA TypeStep == TypeOK /\ [Next]_vars => TypeOK'
<1> SUFFICES ASSUME TypeOK, [Next]_vars PROVE TypeOK'
  OBVIOUS
<1> USE DEF TypeOK, QueueTypeOK, Statuses, OnChain, pollVars,
            pipelineVars, queueVars
<1>1. ASSUME NEW r \in Requests, SignTransaction(r) \/ SignMessage(r)
      PROVE TypeOK'
  <2>0. AddRequest(r)
    BY <1>1 DEF SignTransaction, SignMessage
  <2>1. status' \in [Requests -> Status] /\ timer' \in [Requests -> BOOLEAN]
    BY <2>0 DEF AddRequest, Status
  <2>2. pc' \in [Requests -> {"none", "open", "sign", "broadcast"}]
    BY <1>1 DEF SignTransaction, SignMessage
  <2>3. UNCHANGED <<up, broadcastMode, hashed, poller, polls, chain>>
    BY <1>1 DEF SignTransaction, SignMessage
  <2> QED
    BY <2>1, <2>2, <2>3 DEF Status
<1>2. ASSUME NEW r \in Requests, Opened(r) PROVE TypeOK'
  BY <1>2 DEF Opened
<1>3. ASSUME NEW r \in Requests, NEW h \in BOOLEAN, SignatureArrives(r, h)
      PROVE TypeOK'
  <2>1. status' \in [Requests -> Status]
    BY <1>3, MarkedType DEF SignatureArrives, Approve, Status
  <2>2. timer' \in [Requests -> BOOLEAN]
    <3> DEFINE a == up /\ status[r] = "pending"
    <3>1. timer' = [timer EXCEPT ![r] = timer[r] /\ ~a]
      BY <1>3 DEF SignatureArrives, Approve
    <3>2. (timer[r] /\ ~a) \in BOOLEAN
      OBVIOUS
    <3> HIDE DEF a
    <3> QED BY <3>1, <3>2
  <2>3. pc' \in [Requests -> {"none", "open", "sign", "broadcast"}]
    BY <1>3 DEF SignatureArrives
  <2>4. hashed' \in [Requests -> BOOLEAN]
    <3> DEFINE b == h /\ broadcastMode = "adapter"
    <3>1. hashed' = [hashed EXCEPT ![r] = b]
      BY <1>3 DEF SignatureArrives
    <3>2. b \in BOOLEAN
      OBVIOUS
    <3> HIDE DEF b
    <3> QED BY <3>1, <3>2
  <2> QED
    BY <1>3, <2>1, <2>2, <2>3, <2>4 DEF SignatureArrives, Status
<1>4. ASSUME NEW r \in Requests, NEW h \in BOOLEAN,
             NEW s \in {"pending", "confirmed", "failed"},
             BroadcastResolves(r, h, s)
      PROVE TypeOK'
  <2> DEFINE named == h \/ hashed[r]
             mark  == AfterBroadcast(named, s)
  <2>1. mark \in {"confirmed", "failed", "broadcasted", "unchanged"}
    BY AfterBroadcastType
  <2>2. status' \in [Requests -> Status]
    BY <1>4, <2>1, MarkedType DEF BroadcastResolves, Status
  <2>3. pc' \in [Requests -> {"none", "open", "sign", "broadcast"}]
    BY <1>4 DEF BroadcastResolves
  <2>4. hashed' \in [Requests -> BOOLEAN]
    BY <1>4 DEF BroadcastResolves
  <2>5. poller' \in [Requests -> BOOLEAN]
    <3> DEFINE b == named /\ s = "pending"
    <3>1. poller' = [poller EXCEPT ![r] = b]
      BY <1>4 DEF BroadcastResolves
    <3>2. b \in BOOLEAN
      OBVIOUS
    <3> HIDE DEF b
    <3> QED BY <3>1, <3>2
  <2>6. polls' \in [Requests -> [Polls -> OnChain \cup {"idle"}]]
    <3>1. chain[r] \in OnChain \cup {"idle"}
      OBVIOUS
    <3>2. ASSUME NEW p \in Polls, polls' = [polls EXCEPT ![r][p] = chain[r]]
          PROVE  polls' \in [Requests -> [Polls -> OnChain \cup {"idle"}]]
      BY <3>1, <3>2, PollsType
    <3>3. \/ \E p \in Polls : polls' = [polls EXCEPT ![r][p] = chain[r]]
          \/ polls' = polls
      BY <1>4 DEF BroadcastResolves
    <3>4. CASE polls' = polls
      BY <3>4
    <3> QED
      BY <3>2, <3>3, <3>4
  <2> QED
    BY <1>4, <2>2, <2>3, <2>4, <2>5, <2>6 DEF BroadcastResolves, Status
<1>5. ASSUME NEW r \in Requests, PipelineThrows(r) PROVE TypeOK'
  BY <1>5, MarkedType DEF PipelineThrows, Status
<1>6. ASSUME NEW r \in Requests, NEW p \in Polls,
             PollStarts(r, p) \/ PollIsVoid(r, p)
      PROVE TypeOK'
  <2>1. chain[r] \in OnChain \cup {"idle"}
    OBVIOUS
  <2>2. polls' \in [Requests -> [Polls -> OnChain \cup {"idle"}]]
    <3>1. \/ polls' = [polls EXCEPT ![r][p] = chain[r]]
          \/ polls' = [polls EXCEPT ![r][p] = "idle"]
      BY <1>6 DEF PollStarts, PollIsVoid
    <3>2. CASE polls' = [polls EXCEPT ![r][p] = chain[r]]
      BY <2>1, <3>2, PollsType
    <3>3. CASE polls' = [polls EXCEPT ![r][p] = "idle"]
      BY <3>3, PollsType
    <3> QED
      BY <3>1, <3>2, <3>3
  <2> QED
    BY <1>6, <2>2 DEF PollStarts, PollIsVoid
<1>7. ASSUME NEW r \in Requests, NEW p \in Polls, NEW v \in OnChain,
             PollAnswers(r, p, v)
      PROVE TypeOK'
  <2>1. status' \in [Requests -> Status]
    BY <1>7, MarkedType DEF PollAnswers, Status
  <2>2. poller' \in [Requests -> BOOLEAN]
    <3> DEFINE b == poller[r] /\ ~StopsPolling(v)
    <3>1. poller' = [poller EXCEPT ![r] = b]
      BY <1>7 DEF PollAnswers
    <3>2. b \in BOOLEAN
      OBVIOUS
    <3> HIDE DEF b
    <3> QED BY <3>1, <3>2
  <2>3. polls' \in [Requests -> [Polls -> OnChain \cup {"idle"}]]
    BY <1>7 DEF PollAnswers
  <2> QED
    BY <1>7, <2>1, <2>2, <2>3 DEF PollAnswers, Status
<1>8. ASSUME NEW r \in Requests, NEW p \in Polls, PollThrows(r, p)
      PROVE TypeOK'
  <2>1. status' \in [Requests -> Status]
    BY <1>8, MarkedType DEF PollThrows, Status
  <2>2. poller' \in [Requests -> BOOLEAN]
    BY <1>8 DEF PollThrows
  <2>3. polls' \in [Requests -> [Polls -> OnChain \cup {"idle"}]]
    BY <1>8, PollsType DEF PollThrows
  <2> QED
    BY <1>8, <2>1, <2>2, <2>3 DEF PollThrows, Status
<1>9. ASSUME NEW r \in Requests, Timeout(r) \/ WaiterReturns(r)
      PROVE TypeOK'
  <2>1. CASE Timeout(r)
    BY <2>1 DEF Timeout, RequestTimesOut
  <2>2. CASE WaiterReturns(r)
    BY <2>2 DEF WaiterReturns
  <2> QED
    BY <1>9, <2>1, <2>2
<1>10. ASSUME NEW r \in Requests, ChainSends(r) \/ ChainDecides(r)
       PROVE TypeOK'
  <2>1. chain' \in [Requests -> OnChain]
    <3>1. PICK v \in {"sent", "confirmed", "failed"} : chain' = [chain EXCEPT ![r] = v]
      BY <1>10 DEF ChainSends, ChainDecides
    <3> QED
      BY <3>1
  <2>2. UNCHANGED <<status, timer, up, broadcastMode, pc, hashed, poller, polls>>
    BY <1>10 DEF ChainSends, ChainDecides
  <2> QED
    BY <2>1, <2>2
<1>11. CASE UserActs
  <2>1. ASSUME NEW r \in Requests,
               ApproveRequest(r) \/ RejectRequest(r)
                 \/ RemoveRequest(r)
        PROVE status' \in [Requests -> Status] /\ timer' \in [Requests -> BOOLEAN]
    BY <2>1 DEF ApproveRequest, RejectRequest, RemoveRequest, Status
  <2>2. ASSUME Clear
        PROVE status' \in [Requests -> Status]
    BY <2>2 DEF Clear, Status
  <2>3. ASSUME Clear
        PROVE timer' \in [Requests -> BOOLEAN]
    BY <2>3 DEF Clear
  <2> QED
    BY <1>11, <2>1, <2>2, <2>3 DEF UserActs, Status
<1>12. ASSUME NEW m \in {"adapter", "engine"}, SetBroadcastMode(m)
       PROVE TypeOK'
  BY <1>12 DEF SetBroadcastMode
<1>13. CASE Destroy
  <2>1. status' \in [Requests -> Status]
    BY <1>13 DEF Destroy, QueueDestroy, Status
  <2>2. timer' \in [Requests -> BOOLEAN] /\ poller' \in [Requests -> BOOLEAN]
    BY <1>13 DEF Destroy, QueueDestroy
  <2> QED
    BY <1>13, <2>1, <2>2 DEF Destroy, Status
<1>14. CASE Initialize
  BY <1>14 DEF Initialize
<1>15. CASE UNCHANGED vars
  BY <1>15 DEF vars
<1> QED
  BY <1>1, <1>2, <1>3, <1>4, <1>5, <1>6, <1>7, <1>8, <1>9, <1>10, <1>11,
     <1>12, <1>13, <1>14, <1>15 DEF Next, Pipeline, Poll

LEMMA TypeInit == Init => TypeOK
BY DEF Init, TypeOK, QueueInit, QueueTypeOK, NoPolls, OnChain

(* Every variable of the adapter keeps its type. *)
THEOREM AdapterTypeCorrect == Spec => []TypeOK
BY TypeInit, TypeStep, PTL DEF Spec

-------------------------------------------------------------------------------
(* The inductive invariant, request by request.  ConfirmedIsTrue needs that   *)
(* what a poll in flight has seen stays true; PollerMeansBroadcasted needs    *)
(* that a poller starts only when the pipeline is through, so that no later   *)
(* step of the pipeline can write over "broadcasted", and that a destroyed    *)
(* adapter knows no request.                                                  *)
Consistent(r) ==
  /\ status[r] = "confirmed" => chain[r] = "confirmed"
  /\ \A p \in Polls : polls[r][p] = "confirmed" => chain[r] = "confirmed"
  /\ poller[r] => /\ pc[r] = "none"
                  /\ status[r] # "absent"
                  /\ InStore(r) => status[r] = "broadcasted"
  /\ pc[r] # "none" => status[r] # "absent"
  /\ ~up => ~InStore(r)

RequestStep(r) ==
  \/ Pipeline(r)
  \/ \E p \in Polls : Poll(r, p)
  \/ Timeout(r)
  \/ WaiterReturns(r)
  \/ ChainSends(r)
  \/ ChainDecides(r)

LEMMA Frame ==
  ASSUME NEW q \in Requests, Consistent(q), up' = up,
         status'[q] = status[q], chain'[q] = chain[q], polls'[q] = polls[q],
         poller'[q] = poller[q], pc'[q] = pc[q]
  PROVE  Consistent(q)'
BY DEF Consistent, InStore

(* A step of one request leaves the others alone. *)
LEMMA OthersUntouched ==
  ASSUME TypeOK, NEW r \in Requests, RequestStep(r), NEW q \in Requests, q # r
  PROVE  /\ up' = up
         /\ status'[q] = status[q]
         /\ chain'[q] = chain[q]
         /\ polls'[q] = polls[q]
         /\ poller'[q] = poller[q]
         /\ pc'[q] = pc[q]
<1> DEFINE Same == /\ up' = up
                   /\ status'[q] = status[q]
                   /\ chain'[q] = chain[q]
                   /\ polls'[q] = polls[q]
                   /\ poller'[q] = poller[q]
                   /\ pc'[q] = pc[q]
<1> USE DEF TypeOK, QueueTypeOK, pollVars, pipelineVars, queueVars
<1>1. ASSUME SignTransaction(r) \/ SignMessage(r) PROVE Same
  <2>1. AddRequest(r)
    BY <1>1 DEF SignTransaction, SignMessage
  <2>2. status'[q] = status[q]
    BY <2>1 DEF AddRequest
  <2>3. pc'[q] = pc[q] /\ UNCHANGED <<up, chain, polls, poller>>
    BY <1>1 DEF SignTransaction, SignMessage
  <2> QED BY <2>2, <2>3
<1>2. ASSUME Opened(r) PROVE Same
  BY <1>2 DEF Opened
<1>3. ASSUME NEW h \in BOOLEAN, SignatureArrives(r, h) PROVE Same
  BY <1>3 DEF SignatureArrives, Approve, Marked
<1>4. ASSUME NEW h \in BOOLEAN, NEW s \in {"pending", "confirmed", "failed"},
             BroadcastResolves(r, h, s)
      PROVE Same
  <2>1. status'[q] = status[q] /\ pc'[q] = pc[q] /\ poller'[q] = poller[q]
    BY <1>4 DEF BroadcastResolves, Marked
  <2>2. polls'[q] = polls[q]
    BY <1>4 DEF BroadcastResolves
  <2>3. UNCHANGED <<up, chain>>
    BY <1>4 DEF BroadcastResolves
  <2> QED BY <2>1, <2>2, <2>3
<1>5. ASSUME PipelineThrows(r) PROVE Same
  BY <1>5 DEF PipelineThrows, Marked
<1>6. ASSUME NEW p \in Polls, PollStarts(r, p) \/ PollIsVoid(r, p) PROVE Same
  BY <1>6 DEF PollStarts, PollIsVoid
<1>7. ASSUME NEW p \in Polls, NEW v \in OnChain, PollAnswers(r, p, v) PROVE Same
  BY <1>7 DEF PollAnswers, Marked
<1>8. ASSUME NEW p \in Polls, PollThrows(r, p) PROVE Same
  BY <1>8 DEF PollThrows, Marked
<1>9. ASSUME Timeout(r) PROVE Same
  BY <1>9 DEF Timeout, RequestTimesOut
<1>10. ASSUME WaiterReturns(r) \/ ChainSends(r) \/ ChainDecides(r) PROVE Same
  BY <1>10 DEF WaiterReturns, ChainSends, ChainDecides
<1> QED
  BY <1>1, <1>2, <1>3, <1>4, <1>5, <1>6, <1>7, <1>8, <1>9, <1>10
     DEF RequestStep, Pipeline, Poll

LEMMA RequestStepConsistent ==
  ASSUME TypeOK, NEW r \in Requests, Consistent(r), RequestStep(r)
  PROVE  Consistent(r)'
<1> USE DEF TypeOK, QueueTypeOK, Statuses, InStore, pollVars,
            pipelineVars, queueVars
<1>1. ASSUME SignTransaction(r) \/ SignMessage(r) PROVE Consistent(r)'
  <2>1. AddRequest(r) /\ up
    BY <1>1 DEF SignTransaction, SignMessage
  <2>2. status[r] = "absent" /\ status'[r] = "pending"
    BY <2>1 DEF AddRequest
  <2>3. UNCHANGED <<up, chain, polls, poller>>
    BY <1>1 DEF SignTransaction, SignMessage
  <2> QED BY <2>1, <2>2, <2>3 DEF Consistent
<1>2. ASSUME Opened(r) PROVE Consistent(r)'
  BY <1>2 DEF Opened, Consistent
<1>3. ASSUME NEW h \in BOOLEAN, SignatureArrives(r, h) PROVE Consistent(r)'
  <2>1. /\ status'[r] \in {"broadcasted", "signed", status[r]}
        /\ status'[r] # status[r] => up /\ InStore(r)
    BY <1>3 DEF SignatureArrives, Approve, Marked
  <2>2. /\ UNCHANGED <<up, chain, polls, poller>>
        /\ pc[r] = "sign"
    BY <1>3 DEF SignatureArrives
  <2> QED BY <2>1, <2>2 DEF Consistent
<1>4. ASSUME NEW h \in BOOLEAN, NEW s \in {"pending", "confirmed", "failed"},
             BroadcastResolves(r, h, s)
      PROVE Consistent(r)'
  <2> DEFINE named == h \/ hashed[r]
             mark  == AfterBroadcast(named, s)
  <2>1. /\ pc[r] = "broadcast" /\ pc'[r] = "none"
        /\ UNCHANGED <<up, chain>>
    BY <1>4 DEF BroadcastResolves
  <2>2. /\ poller'[r] => mark = "broadcasted"
        /\ mark = "confirmed" => chain[r] = "confirmed"
        /\ mark \in {"confirmed", "failed", "broadcasted", "unchanged"}
    BY <1>4 DEF BroadcastResolves, AfterBroadcast, BroadcastAnswer
  <2>3. status'[r] = IF mark # "unchanged" /\ up /\ InStore(r)
                       THEN mark ELSE status[r]
    BY <1>4 DEF BroadcastResolves, Marked
  <2>4. \A p \in Polls : polls'[r][p] = "confirmed" => chain[r] = "confirmed"
    <3>1. \/ polls' = polls
          \/ \E p \in Polls : polls' = [polls EXCEPT ![r][p] = chain[r]]
      BY <1>4 DEF BroadcastResolves
    <3> QED BY <3>1 DEF Consistent
  <2>5. status[r] # "absent" /\ (~up => ~InStore(r))
    BY <2>1 DEF Consistent
  <2>6. status'[r] = "confirmed" => chain'[r] = "confirmed"
    BY <2>1, <2>2, <2>3 DEF Consistent
  <2>7. status'[r] # "absent"
    BY <2>2, <2>3, <2>5
  <2>8. poller'[r] /\ InStore(r)' => status'[r] = "broadcasted"
    BY <2>1, <2>2, <2>3, <2>5
  <2>9. ~up' => ~InStore(r)'
    BY <2>1, <2>3, <2>5
  <2> QED BY <2>1, <2>4, <2>6, <2>7, <2>8, <2>9 DEF Consistent
<1>5. ASSUME PipelineThrows(r) PROVE Consistent(r)'
  <2>1. /\ status'[r] = IF up /\ InStore(r) THEN "failed" ELSE status[r]
        /\ pc'[r] = "none" /\ ~poller'[r]
        /\ UNCHANGED <<up, chain, polls>>
    BY <1>5 DEF PipelineThrows, Marked
  <2> QED BY <2>1 DEF Consistent
<1>6. ASSUME NEW p \in Polls, PollStarts(r, p) \/ PollIsVoid(r, p)
      PROVE Consistent(r)'
  <2>1. UNCHANGED <<up, status, chain, poller, pc>>
    BY <1>6 DEF PollStarts, PollIsVoid
  <2>2. \A q \in Polls : polls'[r][q] \in {polls[r][q], chain[r], "idle"}
    BY <1>6 DEF PollStarts, PollIsVoid
  <2> QED BY <2>1, <2>2 DEF Consistent
<1>7. ASSUME NEW p \in Polls, NEW v \in OnChain, PollAnswers(r, p, v)
      PROVE Consistent(r)'
  <2>1. /\ UNCHANGED <<up, chain, pc>>
        /\ v \in {polls[r][p], chain[r]}
    BY <1>7 DEF PollAnswers
  <2>2. /\ poller'[r] => poller[r] /\ v \notin {"confirmed", "failed"}
        /\ status'[r] = IF up /\ InStore(r)
                          THEN IF v \in {"confirmed", "failed"} THEN v ELSE "broadcasted"
                          ELSE status[r]
    BY <1>7 DEF PollAnswers, Marked, StopsPolling
  <2>3. \A q \in Polls : polls'[r][q] \in {polls[r][q], "idle"}
    BY <1>7 DEF PollAnswers
  <2> QED BY <2>1, <2>2, <2>3 DEF Consistent
<1>8. ASSUME NEW p \in Polls, PollThrows(r, p) PROVE Consistent(r)'
  <2>1. /\ UNCHANGED <<up, chain, pc>>
        /\ ~poller'[r]
        /\ status'[r] = IF up /\ InStore(r) THEN "failed" ELSE status[r]
    BY <1>8 DEF PollThrows, Marked
  <2>2. \A q \in Polls : polls'[r][q] \in {polls[r][q], "idle"}
    BY <1>8 DEF PollThrows
  <2> QED BY <2>1, <2>2 DEF Consistent
<1>9. ASSUME Timeout(r) PROVE Consistent(r)'
  <2>1. status'[r] = IF status[r] = "pending" THEN "rejected" ELSE status[r]
    BY <1>9 DEF Timeout, RequestTimesOut
  <2>2. UNCHANGED <<up, chain, polls, poller, pc>>
    BY <1>9 DEF Timeout
  <2> QED BY <2>1, <2>2 DEF Consistent
<1>10. ASSUME WaiterReturns(r) PROVE Consistent(r)'
  BY <1>10 DEF WaiterReturns, Consistent
<1>11. ASSUME ChainSends(r) \/ ChainDecides(r) PROVE Consistent(r)'
  <2>1. UNCHANGED <<up, status, polls, poller, pc>> /\ chain[r] # "confirmed"
    BY <1>11 DEF ChainSends, ChainDecides
  <2> QED BY <2>1 DEF Consistent
<1> QED
  BY <1>1, <1>2, <1>3, <1>4, <1>5, <1>6, <1>7, <1>8, <1>9, <1>10, <1>11
     DEF RequestStep, Pipeline, Poll

LEMMA ConsistentStep ==
  ASSUME TypeOK, [Next]_vars, \A r \in Requests : Consistent(r)
  PROVE  \A q \in Requests : Consistent(q)'
<1> TAKE q \in Requests
<1>1. ASSUME NEW r \in Requests, RequestStep(r) PROVE Consistent(q)'
  <2>1. CASE q = r
    BY <1>1, <2>1, RequestStepConsistent
  <2>2. CASE q # r
    BY <1>1, <2>2, OthersUntouched, Frame
  <2> QED BY <2>1, <2>2
<1>2. CASE UserActs
  <2> USE DEF TypeOK, QueueTypeOK, Statuses, InStore
  <2>1. UNCHANGED <<up, pc, poller, polls, chain>>
    BY <1>2 DEF UserActs, pollVars, pipelineVars
  <2>2. \/ status'[q] = status[q]
        \/ status[q] = "pending" /\ status'[q] \in {"signed", "rejected"}
        \/ status[q] # "absent" /\ status'[q] = "removed"
    <3>1. ASSUME NEW r \in Requests,
                 ApproveRequest(r) \/ RejectRequest(r)
                   \/ RemoveRequest(r)
          PROVE <2>2!:
      BY <3>1 DEF ApproveRequest, RejectRequest, RemoveRequest
    <3>2. ASSUME Clear PROVE <2>2!:
      BY <3>2 DEF Clear, Pending
    <3> QED BY <1>2, <3>1, <3>2 DEF UserActs
  <2>3. up
    BY <1>2 DEF UserActs
  <2> QED BY <2>1, <2>2, <2>3 DEF Consistent
<1>3. ASSUME NEW m \in {"adapter", "engine"}, SetBroadcastMode(m)
      PROVE Consistent(q)'
  BY <1>3, Frame DEF SetBroadcastMode, queueVars, pollVars, pipelineVars
<1>4. CASE Destroy
  <2>1. status'[q] = IF InStore(q) THEN "removed" ELSE status[q]
    BY <1>4 DEF Destroy, QueueDestroy
  <2>2. ~poller'[q] /\ UNCHANGED <<pc, polls, chain>>
    BY <1>4 DEF Destroy, pipelineVars
  <2> QED BY <2>1, <2>2 DEF Consistent, InStore, Statuses
<1>5. CASE Initialize
  BY <1>5 DEF Initialize, Consistent, queueVars, pollVars, pipelineVars, InStore
<1>6. CASE UNCHANGED vars
  BY <1>6, Frame DEF vars, queueVars, pollVars, pipelineVars
<1> QED
  BY <1>1, <1>2, <1>3, <1>4, <1>5, <1>6 DEF Next, RequestStep

LEMMA ConsistentInit == Init => \A r \in Requests : Consistent(r)
BY DEF Init, QueueInit, Consistent, NoPolls, InStore, Statuses

LEMMA AlwaysConsistent == Spec => [](\A r \in Requests : Consistent(r))
<1>1. TypeOK /\ (\A r \in Requests : Consistent(r)) /\ [Next]_vars
        => (\A r \in Requests : Consistent(r))'
  BY ConsistentStep
<1> QED
  BY <1>1, ConsistentInit, AdapterTypeCorrect, PTL DEF Spec

(* A confirmed request is confirmed on the network, in every interleaving of  *)
(* broadcasts, polls, user actions, timeouts and destroys.                    *)
THEOREM ConfirmedRequestsAreTrue == Spec => []ConfirmedIsTrue
<1>1. (\A r \in Requests : Consistent(r)) => ConfirmedIsTrue
  BY DEF Consistent, ConfirmedIsTrue
<1> QED
  BY <1>1, AlwaysConsistent, PTL

(* A poller never runs for a known request that is not waiting for the        *)
(* network's verdict.                                                         *)
THEOREM PollersFollowBroadcasts == Spec => []PollerMeansBroadcasted
<1>1. (\A r \in Requests : Consistent(r)) => PollerMeansBroadcasted
  BY DEF Consistent, PollerMeansBroadcasted
<1> QED
  BY <1>1, AlwaysConsistent, PTL

-------------------------------------------------------------------------------
(* A request that nothing is in flight for is written by none of its steps:   *)
(* they all belong to an await, an interval or a poll, or find it answered.   *)
LEMMA QuietStep ==
  ASSUME TypeOK, NEW r \in Requests, Quiet(r), InStore(r),
         status[r] # "pending", RequestStep(r)
  PROVE  status'[r] = status[r]
<1> USE DEF TypeOK, QueueTypeOK, Statuses, InStore, pollVars,
            pipelineVars, queueVars
<1>0. pc[r] = "none" /\ ~poller[r] /\ \A p \in Polls : polls[r][p] = "idle"
  BY DEF Quiet, NoPolls
<1>1. ~SignTransaction(r) /\ ~SignMessage(r)
  <2>1. ~AddRequest(r)
    BY DEF AddRequest
  <2> QED
    BY <2>1 DEF SignTransaction, SignMessage
<1>2. ~Opened(r) /\ ~PipelineThrows(r)
  BY <1>0 DEF Opened, PipelineThrows
<1>3. \A h \in BOOLEAN : ~SignatureArrives(r, h)
  BY <1>0 DEF SignatureArrives
<1>4. \A h \in BOOLEAN, s \in {"pending", "confirmed", "failed"} :
        ~BroadcastResolves(r, h, s)
  BY <1>0 DEF BroadcastResolves
<1>5. \A p \in Polls : ~Poll(r, p)
  BY <1>0 DEF Poll, PollStarts, PollAnswers, PollIsVoid, PollThrows
<1>6. ASSUME Timeout(r) PROVE status'[r] = status[r]
  BY <1>6 DEF Timeout, RequestTimesOut
<1>7. ASSUME WaiterReturns(r) \/ ChainSends(r) \/ ChainDecides(r)
      PROVE status'[r] = status[r]
  BY <1>7 DEF WaiterReturns, ChainSends, ChainDecides
<1> QED
  BY <1>1, <1>2, <1>3, <1>4, <1>5, <1>6, <1>7 DEF RequestStep, Pipeline

(* Once a request's pipeline is through, its poller stopped and no poll in    *)
(* flight, its answered status is final: whatever other requests, users,      *)
(* timers and destroys do, it can only be removed.                            *)
THEOREM SettledRequestsStay == Spec => SettledWhenQuiet
<1>1. ASSUME TypeOK, [Next]_vars, NEW r \in Requests, Quiet(r),
             InStore(r), status[r] # "pending"
      PROVE  status'[r] \in {status[r], "removed"}
  <2>1. ASSUME NEW q \in Requests, RequestStep(q)
        PROVE  status'[r] = status[r]
    <3>1. CASE q = r
      BY <1>1, <2>1, <3>1, QuietStep
    <3>2. CASE q # r
      BY <1>1, <2>1, <3>2, OthersUntouched
    <3> QED BY <3>1, <3>2
  <2>2. CASE UserActs
    <3> USE DEF TypeOK, QueueTypeOK
    <3>1. ASSUME NEW q \in Requests,
                 ApproveRequest(q) \/ RejectRequest(q)
                   \/ RemoveRequest(q)
          PROVE  status'[r] \in {status[r], "removed"}
      BY <1>1, <3>1 DEF ApproveRequest, RejectRequest, RemoveRequest
    <3>2. ASSUME Clear
          PROVE  status'[r] \in {status[r], "removed"}
      BY <1>1, <3>2 DEF Clear
    <3> QED BY <2>2, <3>1, <3>2 DEF UserActs
  <2>3. ASSUME NEW m \in {"adapter", "engine"}, SetBroadcastMode(m)
        PROVE  status'[r] = status[r]
    BY <2>3 DEF SetBroadcastMode, queueVars
  <2>4. CASE Destroy
    BY <1>1, <2>4 DEF Destroy, QueueDestroy
  <2>5. CASE Initialize \/ UNCHANGED vars
    BY <2>5 DEF Initialize, vars, queueVars
  <2> QED
    BY <1>1, <2>1, <2>2, <2>3, <2>4, <2>5 DEF Next, RequestStep
<1>2. TypeOK /\ [Next]_vars
        => [\A r \in Requests :
              Quiet(r) /\ InStore(r) /\ status[r] # "pending"
                => status'[r] \in {status[r], "removed"}]_vars
  BY <1>1
<1> QED
  BY <1>2, AdapterTypeCorrect, PTL DEF Spec, SettledWhenQuiet

-------------------------------------------------------------------------------
(* One status written over another known one is a report of the lifecycle. *)
LEMMA MarkedIsReport ==
  ASSUME TypeOK, NEW r \in Requests, NEW s \in {"broadcasted", "confirmed", "failed"},
         status' = Marked(r, s)
  PROVE  [Lifecycle!Next]_status
<1> USE DEF TypeOK, QueueTypeOK, Statuses, InStore
<1>1. CASE up /\ InStore(r)
  <2>1. status' = [status EXCEPT ![r] = s]
    BY <1>1 DEF Marked
  <2>2. Lifecycle!Report(r)
    BY <1>1, <2>1 DEF Lifecycle!Report, Lifecycle!Known,
                      Lifecycle!Answers, Lifecycle!Reports
  <2> QED BY <2>2 DEF Lifecycle!Next
<1>2. CASE ~(up /\ InStore(r))
  <2>1. status' = status
    BY <1>2 DEF Marked
  <2> QED BY <2>1
<1> QED BY <1>1, <1>2

LEMMA RequestStepRefines ==
  ASSUME TypeOK, NEW r \in Requests, RequestStep(r)
  PROVE  [Lifecycle!Next]_status
<1> USE DEF TypeOK, QueueTypeOK, Statuses, pollVars, pipelineVars, queueVars
<1>1. ASSUME SignTransaction(r) \/ SignMessage(r)
      PROVE [Lifecycle!Next]_status
  <2>1. AddRequest(r)
    BY <1>1 DEF SignTransaction, SignMessage
  <2>2. Cardinality(Pending) = Lifecycle!Cardinality(Pending)
    BY DEF Cardinality, Lifecycle!Cardinality, IsFiniteSet,
           Lifecycle!IsFiniteSet
  <2>3. Lifecycle!Enter(r)
    BY <2>1, <2>2 DEF AddRequest, Lifecycle!Enter, Pending
  <2> QED BY <2>3 DEF Lifecycle!Next
<1>2. ASSUME Opened(r) PROVE [Lifecycle!Next]_status
  BY <1>2 DEF Opened
<1>3. ASSUME NEW h \in BOOLEAN, SignatureArrives(r, h)
      PROVE [Lifecycle!Next]_status
  <2>1. \/ status' = Marked(r, "broadcasted")
        \/ status[r] = "pending" /\ status' = [status EXCEPT ![r] = "signed"]
        \/ status' = status
    BY <1>3 DEF SignatureArrives, Approve
  <2>2. ASSUME status[r] = "pending", status' = [status EXCEPT ![r] = "signed"]
        PROVE Lifecycle!Answer(r)
    BY <2>2 DEF Lifecycle!Answer, Lifecycle!Answers
  <2> QED BY <2>1, <2>2, MarkedIsReport DEF Lifecycle!Next
<1>4. ASSUME NEW h \in BOOLEAN, NEW s \in {"pending", "confirmed", "failed"},
             BroadcastResolves(r, h, s)
      PROVE [Lifecycle!Next]_status
  <2> DEFINE named == h \/ hashed[r]
             mark  == AfterBroadcast(named, s)
  <2>1. mark \in {"confirmed", "failed", "broadcasted", "unchanged"}
    BY AfterBroadcastType
  <2>2. status' = IF mark = "unchanged" THEN status ELSE Marked(r, mark)
    BY <1>4 DEF BroadcastResolves
  <2> HIDE DEF mark
  <2>3. CASE mark = "unchanged"
    BY <2>2, <2>3
  <2>4. CASE mark # "unchanged"
    BY <2>1, <2>2, <2>4, MarkedIsReport
  <2> QED BY <2>3, <2>4
<1>5. ASSUME PipelineThrows(r) PROVE [Lifecycle!Next]_status
  BY <1>5, MarkedIsReport DEF PipelineThrows
<1>6. ASSUME NEW p \in Polls,
             PollStarts(r, p) \/ PollIsVoid(r, p) \/ WaiterReturns(r)
               \/ ChainSends(r) \/ ChainDecides(r)
      PROVE [Lifecycle!Next]_status
  BY <1>6 DEF PollStarts, PollIsVoid, WaiterReturns, ChainSends, ChainDecides
<1>7. ASSUME NEW p \in Polls, NEW v \in OnChain, PollAnswers(r, p, v)
      PROVE [Lifecycle!Next]_status
  <2>1. \E s \in {"broadcasted", "confirmed", "failed"} : status' = Marked(r, s)
    BY <1>7 DEF PollAnswers
  <2> QED BY <2>1, MarkedIsReport
<1>8. ASSUME NEW p \in Polls, PollThrows(r, p)
      PROVE [Lifecycle!Next]_status
  BY <1>8, MarkedIsReport DEF PollThrows
<1>9. ASSUME Timeout(r) PROVE [Lifecycle!Next]_status
  BY <1>9 DEF Timeout, RequestTimesOut, Lifecycle!Answer, Lifecycle!Answers,
              Lifecycle!Next
<1>10. ASSUME WaiterReturns(r) \/ ChainSends(r) \/ ChainDecides(r)
       PROVE [Lifecycle!Next]_status
  BY <1>10 DEF WaiterReturns, ChainSends, ChainDecides
<1> QED
  BY <1>1, <1>2, <1>3, <1>4, <1>5, <1>6, <1>7, <1>8, <1>9, <1>10
     DEF RequestStep, Pipeline, Poll

LEMMA UserActsRefine ==
  ASSUME TypeOK, UserActs
  PROVE  [Lifecycle!Next]_status
<1> USE DEF TypeOK, QueueTypeOK, Statuses, InStore,
            Lifecycle!Known, Lifecycle!Answers, Lifecycle!Reports
<1>1. ASSUME NEW r \in Requests, ApproveRequest(r) \/ RejectRequest(r)
      PROVE Lifecycle!Answer(r)
  BY <1>1 DEF ApproveRequest, RejectRequest, Lifecycle!Answer
<1>2. ASSUME NEW r \in Requests, RemoveRequest(r)
      PROVE Lifecycle!Forget({r})
  <2>1. status' = [q \in Requests |-> IF q \in {r} THEN "removed" ELSE status[q]]
    BY <1>2 DEF RemoveRequest
  <2> QED BY <1>2, <2>1 DEF RemoveRequest, Lifecycle!Forget
<1>3. ASSUME Clear PROVE Lifecycle!Forget(Pending)
  BY <1>3 DEF Clear, Pending, Lifecycle!Forget
<1>4. ASSUME NEW r \in Requests, ApproveRequest(r) \/ RejectRequest(r)
      PROVE Lifecycle!Next
  BY <1>1, <1>4 DEF Lifecycle!Next
<1>5. ASSUME NEW r \in Requests, RemoveRequest(r)
      PROVE Lifecycle!Next
  <2>1. {r} \in SUBSET Requests
    OBVIOUS
  <2> QED BY <1>2, <1>5, <2>1 DEF Lifecycle!Next
<1>6. ASSUME Clear PROVE Lifecycle!Next
  <2>1. Pending \in SUBSET Requests
    BY DEF Pending
  <2> QED BY <1>3, <1>6, <2>1 DEF Lifecycle!Next
<1> QED
  BY <1>4, <1>5, <1>6 DEF UserActs

LEMMA RefinementStep == TypeOK /\ [Next]_vars => [Lifecycle!Next]_status
<1> SUFFICES ASSUME TypeOK, [Next]_vars PROVE [Lifecycle!Next]_status
  OBVIOUS
<1>1. ASSUME NEW r \in Requests, RequestStep(r)
      PROVE [Lifecycle!Next]_status
  BY <1>1, RequestStepRefines
<1>2. CASE UserActs
  BY <1>2, UserActsRefine
<1>3. ASSUME NEW m \in {"adapter", "engine"}, SetBroadcastMode(m)
      PROVE UNCHANGED status
  BY <1>3 DEF SetBroadcastMode, queueVars
<1>4. CASE Destroy
  <2> DEFINE S == {r \in Requests : InStore(r)}
  <2>1. Lifecycle!Forget(S)
    BY <1>4 DEF Destroy, QueueDestroy, Lifecycle!Forget, InStore,
                Statuses, Lifecycle!Known, Lifecycle!Answers,
                Lifecycle!Reports
  <2> QED BY <2>1 DEF Lifecycle!Next
<1>5. CASE Initialize \/ UNCHANGED vars
  BY <1>5 DEF Initialize, vars, queueVars
<1> QED
  BY <1>1, <1>2, <1>3, <1>4, <1>5 DEF Next, RequestStep

(* The adapter's pipeline, pollers, user and timers together keep the safety  *)
(* half of the queue's contract: what holds of every SigningLifecycle         *)
(* behaviour holds of the composed system.                                    *)
THEOREM AdapterImplementsLifecycle == Spec => Lifecycle!Spec
<1>1. Init => Lifecycle!Init
  BY DEF Init, QueueInit, Lifecycle!Init
<1> QED
  BY <1>1, RefinementStep, AdapterTypeCorrect, PTL DEF Spec, Lifecycle!Spec

(* The adapter's marks, answers that come late and a new initialisation never *)
(* put a request back among those that wait: at most maxQueueSize do, for any *)
(* requests, finitely many or not.                                            *)
THEOREM AdapterQueueIsBounded == Spec => []QueueBounded
<1>1. Init => Bounded
  BY NoneWaitAtFirst DEF Init
<1>2. TypeOK /\ Bounded /\ [Next]_vars => Bounded'
  BY RefinementStep, BoundedStep DEF TypeOK
<1>3. Bounded => QueueBounded
  BY DEF Bounded
<1> QED
  BY <1>1, <1>2, <1>3, AdapterTypeCorrect, PTL DEF Spec

(* A request is signed or rejected once, by whoever comes first: the user,    *)
(* the timeout, or the pipeline with the signature.                           *)
THEOREM AdapterAnswersOnce == Spec => AnsweredOnce
<1>1. TypeOK /\ [Next]_vars => [AnswersWaiting]_queueVars
  BY OnceStep, RefinementStep DEF TypeOK
<1>2. Spec => [][AnswersWaiting]_queueVars
  BY <1>1, AdapterTypeCorrect, PTL DEF Spec
<1> QED
  BY <1>2 DEF AnsweredOnce, AnswersWaiting

-------------------------------------------------------------------------------
(* The timers of the composed system *)

LEMMA TimedStep ==
  ASSUME TypeOK, PendingHasTimer, [Next]_vars
  PROVE  PendingHasTimer'
<1> SUFFICES ASSUME NEW q \in Requests, status'[q] = "pending" PROVE timer'[q]
  BY DEF PendingHasTimer
<1> USE DEF TypeOK, QueueTypeOK, PendingHasTimer, queueVars
<1>1. ASSUME NEW r \in Requests, SignTransaction(r) \/ SignMessage(r) PROVE timer'[q]
  <2>1. AddRequest(r)
    BY <1>1 DEF SignTransaction, SignMessage
  <2> QED
    BY <2>1 DEF AddRequest
<1>2. ASSUME NEW r \in Requests, NEW h \in BOOLEAN, SignatureArrives(r, h)
      PROVE  timer'[q]
  BY <1>2 DEF SignatureArrives, Approve, Marked, InStore, Statuses
<1>3. ASSUME NEW r \in Requests, NEW s \in {"broadcasted", "confirmed", "failed"},
             status' = Marked(r, s) \/ status' = status, timer' = timer
      PROVE  timer'[q]
  BY <1>3 DEF Marked
<1>4. ASSUME NEW r \in Requests, NEW h \in BOOLEAN,
             NEW s \in {"pending", "confirmed", "failed"}, BroadcastResolves(r, h, s)
      PROVE  timer'[q]
  <2> DEFINE mark == AfterBroadcast(h \/ hashed[r], s)
  <2>1. mark \in {"confirmed", "failed", "broadcasted", "unchanged"}
    BY AfterBroadcastType
  <2>2. status' = (IF mark = "unchanged" THEN status ELSE Marked(r, mark)) /\ timer' = timer
    BY <1>4 DEF BroadcastResolves
  <2> HIDE DEF mark
  <2> QED
    BY <1>3, <2>1, <2>2
<1>5. ASSUME NEW r \in Requests, NEW p \in Polls, Poll(r, p) PROVE timer'[q]
  <2>1. timer' = timer
    BY <1>5 DEF Poll, PollStarts, PollAnswers, PollIsVoid, PollThrows
  <2>2. status' = status \/ \E s \in {"broadcasted", "confirmed", "failed"} : status' = Marked(r, s)
    BY <1>5 DEF Poll, PollStarts, PollAnswers, PollIsVoid, PollThrows
  <2> QED
    BY <1>3, <2>1, <2>2
<1>6. ASSUME NEW r \in Requests, PipelineThrows(r) PROVE timer'[q]
  BY <1>3, <1>6 DEF PipelineThrows
<1>7. ASSUME NEW r \in Requests, Timeout(r) PROVE timer'[q]
  BY <1>7 DEF Timeout, RequestTimesOut
<1>8. ASSUME NEW r \in Requests,
             Opened(r) \/ WaiterReturns(r) \/ ChainSends(r) \/ ChainDecides(r)
      PROVE  timer'[q]
  BY <1>8 DEF Opened, WaiterReturns, ChainSends, ChainDecides
<1>9. CASE UserActs
  <2>1. ASSUME NEW r \in Requests,
               ApproveRequest(r) \/ RejectRequest(r) \/ RemoveRequest(r)
        PROVE  timer'[q]
    BY <2>1 DEF ApproveRequest, RejectRequest, RemoveRequest
  <2>2. CASE Clear
    BY <2>2 DEF Clear, Pending
  <2> QED
    BY <1>9, <2>1, <2>2 DEF UserActs
<1>10. CASE Destroy
  BY <1>10 DEF Destroy, QueueDestroy, InStore, Statuses
<1>11. ASSUME NEW m \in {"adapter", "engine"}, SetBroadcastMode(m) PROVE timer'[q]
  BY <1>11 DEF SetBroadcastMode
<1>12. CASE Initialize \/ UNCHANGED vars
  BY <1>12 DEF Initialize, vars
<1> QED
  BY <1>1, <1>2, <1>4, <1>5, <1>6, <1>7, <1>8, <1>9, <1>10, <1>11, <1>12
     DEF Next, Pipeline

(* A pending request still has the timer that answers it when a pipeline, its *)
(* pollers and destroy work on the queue as well: an answer that comes with   *)
(* the signature is the only write of the adapter that stops a timer.         *)
THEOREM AdapterPendingIsTimed == Spec => []PendingHasTimer
<1>1. Init => PendingHasTimer
  BY DEF Init, QueueInit, PendingHasTimer
<1>2. TypeOK /\ PendingHasTimer /\ [Next]_vars => PendingHasTimer'
  BY TimedStep
<1> QED
  BY <1>1, <1>2, AdapterTypeCorrect, PTL DEF Spec
===============================================================================
