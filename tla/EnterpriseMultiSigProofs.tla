----------------------- MODULE EnterpriseMultiSigProofs -----------------------
(***************************************************************************)
(* Proofs about EnterpriseMultiSig, for any dWallets, signers, lists,      *)
(* thresholds, transactions and concurrent executions.                     *)
(***************************************************************************)
EXTENDS EnterpriseMultiSig, TLAPS

(* Removing one entry of a list leaves a list with one entry less. *)
LEMMA RemoveAtLength ==
  ASSUME NEW S, NEW q \in Seq(S), NEW i \in DOMAIN q
  PROVE  /\ RemoveAt(q, i) \in Seq(S)
         /\ Len(RemoveAt(q, i)) = Len(q) - 1
<1>1. i \in 1..Len(q) /\ Len(q) \in Nat
  OBVIOUS
<1>2. SubSeq(q, 1, i - 1) \in Seq(S) /\ Len(SubSeq(q, 1, i - 1)) = i - 1
  BY <1>1
<1>3. SubSeq(q, i + 1, Len(q)) \in Seq(S) /\ Len(SubSeq(q, i + 1, Len(q))) = Len(q) - i
  BY <1>1
<1>4. ASSUME NEW a \in Seq(S), NEW b \in Seq(S)
      PROVE  a \o b \in Seq(S) /\ Len(a \o b) = Len(a) + Len(b)
  OBVIOUS
<1>5. /\ RemoveAt(q, i) \in Seq(S)
      /\ Len(RemoveAt(q, i))
           = Len(SubSeq(q, 1, i - 1)) + Len(SubSeq(q, i + 1, Len(q)))
  BY <1>2, <1>3, <1>4 DEF RemoveAt
<1>6. ASSUME NEW n \in Nat, NEW k \in 1..n
      PROVE  (k - 1) + (n - k) = n - 1
  OBVIOUS
<1>7. QED
  BY <1>1, <1>2, <1>3, <1>5, <1>6

-------------------------------------------------------------------------------
(* Policies: the counter is proved together with the types, since a policy    *)
(* without signers would let it fall below zero.                              *)

Sound(p) ==
  p \in Policies /\ p.total = Len(p.signers) /\ p.required <= p.total

PolicyInv == policy \in [DWallets -> {p \in Policies : Sound(p)}]

LEMMA PolicyInvMeans == PolicyInv => policy \in [DWallets -> Policies] /\ PolicyStands
BY DEF PolicyInv, Sound, PolicyStands

LEMMA PolicyStep ==
  ASSUME PolicyInv, NEW d \in DWallets, NEW s \in Signers,
         CreateMultiSigPolicy(d) \/ AddSigner(d, s) \/ RemoveSigner(d, s)
  PROVE  PolicyInv'
<1>0. policy[d] \in Policies /\ Sound(policy[d])
  BY DEF PolicyInv
<1>1. CASE CreateMultiSigPolicy(d)
  <2>1. PICK k \in Thresholds, list \in SignerLists, lock \in Timelocks :
          /\ k <= Len(list)
          /\ policy' = [policy EXCEPT ![d] =
               [required |-> k, total |-> Len(list), signers |-> list, timelock |-> lock, set |-> TRUE]]
    BY <1>1 DEF CreateMultiSigPolicy
  <2>2. list \in Seq(Signers) /\ Len(list) \in Nat /\ k \in Nat /\ lock \in Nat
    BY ListsAssumption, NumbersAssumption
  <2>3. Sound([required |-> k, total |-> Len(list), signers |-> list, timelock |-> lock, set |-> TRUE])
    BY <2>1, <2>2 DEF Policies, Sound
  <2>4. QED
    BY <2>1, <2>3 DEF PolicyInv, Sound
<1>2. CASE AddSigner(d, s)
  <2> DEFINE p == [policy[d] EXCEPT !.signers = Append(policy[d].signers, s),
                                    !.total = policy[d].total + 1]
  <2>1. policy' = [policy EXCEPT ![d] = p]
    BY <1>2 DEF AddSigner, PolicyInv
  <2>2. /\ Append(policy[d].signers, s) \in Seq(Signers)
        /\ Len(Append(policy[d].signers, s)) = Len(policy[d].signers) + 1
    BY <1>0 DEF Policies
  <2>3. policy[d].total \in Nat /\ policy[d].required \in Nat /\ Len(policy[d].signers) \in Nat
    BY <1>0 DEF Policies
  <2>4. /\ p.required = policy[d].required
        /\ p.total = policy[d].total + 1
        /\ p.signers = Append(policy[d].signers, s)
    BY <1>0 DEF Policies
  <2>5. policy[d].total + 1 \in Nat
    BY <2>3
  <2>6. p \in Policies
    BY <1>0, <2>2, <2>5 DEF Policies
  <2>7. Sound(p)
    BY <1>0, <2>2, <2>3, <2>4, <2>6 DEF Sound
  <2>8. QED
    BY <2>1, <2>7 DEF PolicyInv, Sound
<1>3. CASE RemoveSigner(d, s)
  <2>1. PICK i \in DOMAIN policy[d].signers : policy' = [policy EXCEPT ![d] =
          [policy[d] EXCEPT !.signers = RemoveAt(policy[d].signers, i), !.total = policy[d].total - 1]]
    BY <1>3 DEF RemoveSigner, PolicyInv
  <2> DEFINE p == [policy[d] EXCEPT !.signers = RemoveAt(policy[d].signers, i),
                                    !.total = policy[d].total - 1]
  <2>2. /\ RemoveAt(policy[d].signers, i) \in Seq(Signers)
        /\ Len(RemoveAt(policy[d].signers, i)) = Len(policy[d].signers) - 1
    BY <1>0, RemoveAtLength DEF Policies
  <2>3. Len(policy[d].signers) - 1 >= policy[d].required
    BY <1>3 DEF RemoveSigner
  <2>4. policy[d].total \in Nat /\ policy[d].required \in Nat /\ policy[d].total = Len(policy[d].signers)
    BY <1>0 DEF Policies, Sound
  <2>5. p.required = policy[d].required /\ p.total = policy[d].total - 1
        /\ p.signers = RemoveAt(policy[d].signers, i)
    BY <1>0 DEF Policies
  <2>6. policy[d].total - 1 \in Nat
    BY <2>3, <2>4
  <2>7. p \in Policies
    BY <1>0, <2>2, <2>6 DEF Policies
  <2>8. Sound(p)
    BY <2>2, <2>3, <2>4, <2>5, <2>7 DEF Sound
  <2>9. QED
    BY <2>1, <2>8 DEF PolicyInv, Sound
<1>4. QED
  BY <1>1, <1>2, <1>3

-------------------------------------------------------------------------------
(* Transactions *)

TxTypes ==
  /\ status \in [Txs -> {"none", "pending", "approved", "executed", "rejected"}]
  /\ wallet \in [Txs -> DWallets \cup {None}]
  /\ signatures \in [Txs -> SUBSET Signers]
  /\ threshold \in [Txs -> Nat]
  /\ waited \in [Txs -> Nat]
  /\ named \in SUBSET Txs
  /\ instant \in [DWallets -> Txs \cup {None}]
  /\ run \in [Executors -> Txs \cup {None}]

(* What an executor awaits the chain with has passed the vote, whatever its   *)
(* status has become.                                                         *)
UnderWay(t) ==
  /\ status[t] \in {"approved", "rejected", "executed"}
  /\ Cardinality(signatures[t]) >= threshold[t]

RunsPassed == \A e \in Executors : run[e] # None => UnderWay(run[e])

IInv == PolicyInv /\ TxTypes /\ RunsPassed

LEMMA IInvMeans == IInv => TypeOK /\ PolicyStands
BY PolicyInvMeans DEF IInv, TxTypes, TypeOK

LEMMA IInvInit == Init => IInv
<1>1. Sound(NoPolicy) /\ NoPolicy \in Policies
  BY DEF NoPolicy, Policies, Sound
<1>2. QED
  BY <1>1 DEF Init, IInv, PolicyInv, TxTypes, RunsPassed

LEMMA IInvStep == IInv /\ [Next]_vars => IInv'
<1> SUFFICES ASSUME IInv, [Next]_vars PROVE IInv'
  OBVIOUS
<1> USE DEF IInv
<1>1. ASSUME NEW d \in DWallets, CreateMultiSigPolicy(d) PROVE IInv'
  <2>1. PolicyInv'
    <3>1. CASE Signers = {}
      <4>1. PICK k \in Thresholds, list \in SignerLists, lock \in Timelocks :
              /\ k <= Len(list)
              /\ policy' = [policy EXCEPT ![d] =
                   [required |-> k, total |-> Len(list), signers |-> list, timelock |-> lock, set |-> TRUE]]
        BY <1>1 DEF CreateMultiSigPolicy
      <4>2. list \in Seq(Signers) /\ Len(list) \in Nat /\ k \in Nat /\ lock \in Nat
        BY ListsAssumption, NumbersAssumption
      <4>3. QED
        BY <4>1, <4>2 DEF PolicyInv, Sound, Policies
    <3>2. CASE Signers # {}
      BY <1>1, <3>2, PolicyStep
    <3>3. QED
      BY <3>1, <3>2
  <2>2. QED
    BY <1>1, <2>1 DEF CreateMultiSigPolicy, txVars, TxTypes, RunsPassed, UnderWay
<1>2. ASSUME NEW d \in DWallets, NEW s \in Signers, AddSigner(d, s) \/ RemoveSigner(d, s)
      PROVE  IInv'
  <2>1. PolicyInv'
    BY <1>2, PolicyStep
  <2>2. QED
    BY <1>2, <2>1 DEF AddSigner, RemoveSigner, txVars, TxTypes, RunsPassed, UnderWay
<1>3. ASSUME NEW d \in DWallets, NEW t \in Txs, InitiateMultiSigTransaction(t, d) PROVE IInv'
  <2>1. policy[d].required \in Nat
    BY DEF PolicyInv, Policies
  <2>2. TxTypes'
    BY <1>3, <2>1 DEF InitiateMultiSigTransaction, TxTypes
  <2>3. RunsPassed'
    BY <1>3, <2>1 DEF InitiateMultiSigTransaction, TxTypes, RunsPassed, UnderWay
  <2>4. QED
    BY <1>3, <2>2, <2>3 DEF InitiateMultiSigTransaction, PolicyInv
<1>4. ASSUME NEW t \in Txs, NEW s \in Signers, AddSignature(t, s) PROVE IInv'
  <2>1. TxTypes'
    BY <1>4 DEF AddSignature, TxTypes
  <2>2. RunsPassed'
    BY <1>4 DEF AddSignature, TxTypes, RunsPassed, UnderWay
  <2>3. QED
    BY <1>4, <2>1, <2>2 DEF AddSignature, PolicyInv
<1>5. ASSUME NEW t \in Txs, RejectTransaction(t) PROVE IInv'
  BY <1>5 DEF RejectTransaction, TxTypes, RunsPassed, UnderWay, PolicyInv
<1>6. ASSUME NEW t \in Txs, TimelockPasses(t) PROVE IInv'
  BY <1>6, NumbersAssumption DEF TimelockPasses, TxTypes, RunsPassed, UnderWay, PolicyInv
<1>7. ASSUME NEW e \in Executors, NEW t \in Txs, Execute(e, t) PROVE IInv'
  BY <1>7 DEF Execute, txVars, TxTypes, RunsPassed, UnderWay, PolicyInv
<1>8. ASSUME NEW e \in Executors, ExecuteReturns(e) PROVE IInv'
  BY <1>8 DEF ExecuteReturns, TxTypes, RunsPassed, UnderWay, PolicyInv
<1>9. ASSUME NEW e \in Executors, ExecuteThrows(e) PROVE IInv'
  BY <1>9 DEF ExecuteThrows, txVars, TxTypes, RunsPassed, UnderWay, PolicyInv
<1>10. CASE Millisecond
  BY <1>10 DEF Millisecond, TxTypes, RunsPassed, UnderWay, PolicyInv
<1>11. CASE UNCHANGED vars
  BY <1>11 DEF vars, txVars, TxTypes, RunsPassed, UnderWay, PolicyInv
<1>12. QED
  BY <1>1, <1>2, <1>3, <1>4, <1>5, <1>6, <1>7, <1>8, <1>9, <1>10, <1>11 DEF Next

LEMMA Invariance == Spec => []IInv
BY IInvInit, IInvStep, PTL DEF Spec

(* In every state the service's maps hold values of their types, whatever     *)
(* policies callers create and however executions overlap.                    *)
THEOREM MultiSigTypeCorrect == Spec => []TypeOK
BY Invariance, IInvMeans, PTL

(* The count of signers agrees with the list and stays at or above what the   *)
(* policy requires, for any lists and any sequence of additions and removals. *)
THEOREM PoliciesStand == Spec => []PolicyStands
BY Invariance, IInvMeans, PTL

-------------------------------------------------------------------------------
(* Refinement *)

(* The instance brings its own copy of the standard operator. *)
LEMMA SameCardinality ==
  ASSUME NEW S
  PROVE  Approval!Cardinality(S) = Cardinality(S)
BY DEF Cardinality, Approval!Cardinality, IsFiniteSet, Approval!IsFiniteSet

(* An execution that ends leaves the ones under way, unless another executor  *)
(* has the same transaction.                                                  *)
LEMMA ExecutionEnds ==
  ASSUME TxTypes, NEW e \in Executors, run[e] # None,
         run' = [run EXCEPT ![e] = None]
  PROVE  run[e] \in Txs /\ Approval!Ends(run[e])
<1>1. run[e] \in Txs /\ run[e] \in InExecution
  BY DEF TxTypes, InExecution
<1>2. ASSUME NEW t
      PROVE  t \in InExecution' <=> t # None /\ \E f \in Executors \ {e} : run[f] = t
  BY DEF TxTypes, InExecution
<1>3. ASSUME NEW t
      PROVE  t \in InExecution <=> t # None /\ \E f \in Executors : run[f] = t
  BY DEF InExecution
<1>4. CASE \E f \in Executors \ {e} : run[f] = run[e]
  <2>1. InExecution' = InExecution
    BY <1>2, <1>3, <1>4
  <2>2. QED
    BY <1>1, <2>1 DEF Approval!Ends
<1>5. CASE ~ \E f \in Executors \ {e} : run[f] = run[e]
  <2>1. InExecution' = InExecution \ {run[e]}
    BY <1>2, <1>3, <1>5
  <2>2. QED
    BY <1>1, <2>1 DEF Approval!Ends
<1>6. QED
  BY <1>4, <1>5

LEMMA ApprovalStep == IInv /\ [Next]_vars => [Approval!Next]_(Approval!vars)
<1> SUFFICES ASSUME IInv, [Next]_vars PROVE [Approval!Next]_(Approval!vars)
  OBVIOUS
<1> USE DEF IInv, Approval!vars
<1>1. ASSUME NEW d \in DWallets, CreateMultiSigPolicy(d) PROVE UNCHANGED Approval!vars
  BY <1>1 DEF CreateMultiSigPolicy, txVars, InExecution
<1>2. ASSUME NEW d \in DWallets, NEW s \in Signers, AddSigner(d, s) \/ RemoveSigner(d, s)
      PROVE  UNCHANGED Approval!vars
  BY <1>2 DEF AddSigner, RemoveSigner, txVars, InExecution
<1>3. ASSUME NEW d \in DWallets, NEW t \in Txs, InitiateMultiSigTransaction(t, d)
      PROVE  Approval!Open(t)
  <2>1. policy[d].required \in Nat
    BY DEF PolicyInv, Policies
  <2>2. QED
    BY <1>3, <2>1 DEF InitiateMultiSigTransaction, TxTypes, Approval!Open, InExecution
<1>4. ASSUME NEW t \in Txs, NEW s \in Signers, AddSignature(t, s) PROVE Approval!Vote(t, s)
  <2>1. /\ status[t] = "pending"
        /\ signatures' = [signatures EXCEPT ![t] = @ \cup {s}]
        /\ status' = [status EXCEPT ![t] =
             IF Cardinality(signatures'[t]) >= threshold[t] THEN "approved" ELSE @]
        /\ threshold' = threshold /\ run' = run
    BY <1>4 DEF AddSignature
  <2>2. Approval!Cardinality(signatures'[t]) = Cardinality(signatures'[t])
    BY SameCardinality
  <2>3. QED
    BY <2>1, <2>2 DEF Approval!Vote, InExecution
<1>5. ASSUME NEW t \in Txs, RejectTransaction(t) PROVE Approval!Refuse(t)
  BY <1>5 DEF RejectTransaction, Approval!Refuse, InExecution
<1>6. ASSUME NEW e \in Executors, ExecuteReturns(e) PROVE \E u \in Txs : Approval!Perform(u)
  <2>1. run[e] \in Txs /\ Approval!Ends(run[e])
    BY <1>6, ExecutionEnds DEF ExecuteReturns
  <2>2. QED
    BY <1>6, <2>1 DEF ExecuteReturns, Approval!Perform
<1>7. ASSUME NEW e \in Executors, NEW t \in Txs, Execute(e, t) PROVE Approval!Begin(t)
  <2>1. InExecution' = InExecution \cup {t}
    BY <1>7, NoneAssumption DEF Execute, TxTypes, InExecution
  <2>2. QED
    BY <1>7, <2>1 DEF Execute, txVars, Approval!Begin
<1>8. ASSUME NEW e \in Executors, ExecuteThrows(e) PROVE \E u \in Txs : Approval!GiveUp(u)
  <2>1. run[e] \in Txs /\ Approval!Ends(run[e])
    BY <1>8, ExecutionEnds DEF ExecuteThrows
  <2>2. QED
    BY <1>8, <2>1 DEF ExecuteThrows, txVars, Approval!GiveUp
<1>9. ASSUME NEW t \in Txs, TimelockPasses(t) PROVE UNCHANGED Approval!vars
  BY <1>9 DEF TimelockPasses, InExecution
<1>10. CASE Millisecond
  BY <1>10 DEF Millisecond, InExecution
<1>11. CASE UNCHANGED vars
  BY <1>11 DEF vars, txVars, InExecution
<1>12. QED
  BY <1>1, <1>2, <1>3, <1>4, <1>5, <1>6, <1>7, <1>8, <1>9, <1>10, <1>11
     DEF Next, Approval!Next

(* The service keeps the promise of a k-of-n approval, for any number of      *)
(* signers, transactions and executions under way.                            *)
THEOREM MultiSigImplementsApproval == Spec => ImplementsApproval
<1>1. Init => Approval!Init
  BY DEF Init, Approval!Init, InExecution
<1>2. QED
  BY <1>1, Invariance, ApprovalStep, PTL DEF Spec, ImplementsApproval, Approval!Spec

-------------------------------------------------------------------------------
(* What the contract means for a transaction of the service *)

(* It passed by as many different signers as it needs. *)
Passed(t) == Cardinality(signatures[t]) >= threshold[t]

Backed ==
  /\ \A t \in Txs : status[t] \in {"approved", "executed"} => Passed(t)
  /\ \A t \in InExecution : Passed(t) /\ t \in Txs /\ status[t] \notin {"none", "pending"}

(* One that was executed, or refused and is not under way, is settled. *)
Settled(t) == status[t] = "executed" \/ (status[t] = "rejected" /\ t \notin InExecution)

LEMMA BackedStep ==
  ASSUME TxTypes, Backed, [Approval!Next]_(Approval!vars)
  PROVE  Backed'
<1> USE DEF TxTypes, Backed, Passed
<1>1. ASSUME NEW t \in Txs, Approval!Open(t) PROVE Backed'
  BY <1>1 DEF Approval!Open
<1>2. ASSUME NEW t \in Txs, NEW s \in Signers, Approval!Vote(t, s) PROVE Backed'
  BY <1>2, SameCardinality DEF Approval!Vote
<1>3. ASSUME NEW t \in Txs, Approval!Refuse(t) PROVE Backed'
  BY <1>3 DEF Approval!Refuse
<1>4. ASSUME NEW t \in Txs, Approval!Begin(t) PROVE Backed'
  BY <1>4 DEF Approval!Begin
<1>5. ASSUME NEW t \in Txs, Approval!Perform(t) PROVE Backed'
  BY <1>5 DEF Approval!Perform, Approval!Ends
<1>6. ASSUME NEW t \in Txs, Approval!GiveUp(t) PROVE Backed'
  BY <1>6 DEF Approval!GiveUp, Approval!Ends
<1>7. CASE UNCHANGED Approval!vars
  BY <1>7 DEF Approval!vars
<1> QED
  BY <1>1, <1>2, <1>3, <1>4, <1>5, <1>6, <1>7 DEF Approval!Next

LEMMA SettledStep ==
  ASSUME TxTypes, [Approval!Next]_(Approval!vars), NEW u \in Txs, Settled(u)
  PROVE  /\ UNCHANGED <<status[u], signatures[u], threshold[u]>>
         /\ status[u] = "rejected" => u \notin InExecution'
<1> DEFINE Stays == /\ UNCHANGED <<status[u], signatures[u], threshold[u]>>
                    /\ status[u] = "rejected" => u \notin InExecution'
<1> USE DEF TxTypes, Settled
<1>1. ASSUME NEW t \in Txs, Approval!Open(t) PROVE Stays
  BY <1>1 DEF Approval!Open
<1>2. ASSUME NEW t \in Txs, NEW s \in Signers, Approval!Vote(t, s) PROVE Stays
  BY <1>2 DEF Approval!Vote
<1>3. ASSUME NEW t \in Txs, Approval!Refuse(t) PROVE Stays
  BY <1>3 DEF Approval!Refuse
<1>4. ASSUME NEW t \in Txs, Approval!Begin(t) PROVE Stays
  BY <1>4 DEF Approval!Begin
<1>5. ASSUME NEW t \in Txs, Approval!Perform(t) PROVE Stays
  BY <1>5 DEF Approval!Perform, Approval!Ends
<1>6. ASSUME NEW t \in Txs, Approval!GiveUp(t) PROVE Stays
  BY <1>6 DEF Approval!GiveUp, Approval!Ends
<1>7. CASE UNCHANGED Approval!vars
  BY <1>7 DEF Approval!vars
<1> QED
  BY <1>1, <1>2, <1>3, <1>4, <1>5, <1>6, <1>7 DEF Approval!Next

(* A transaction is approved or executed only with as many different          *)
(* signatures as were required when it was initiated, whatever became of the  *)
(* policy, and however addSignature, rejectTransaction and executions under   *)
(* way are interleaved.                                                       *)
THEOREM ExecutionTakesQuorum ==
  Spec => [](\A t \in Txs : status[t] \in {"approved", "executed"}
                              => Cardinality(signatures[t]) >= threshold[t])
<1>1. Init => Backed
  BY DEF Init, Backed, InExecution
<1>2. IInv /\ Backed /\ [Next]_vars => Backed'
  BY ApprovalStep, BackedStep DEF IInv
<1>3. Backed => \A t \in Txs : status[t] \in {"approved", "executed"}
                                 => Cardinality(signatures[t]) >= threshold[t]
  BY DEF Backed, Passed
<1>4. QED
  BY <1>1, <1>2, <1>3, Invariance, PTL DEF Spec

(* An executed transaction stays executed, and one that was rejected stays    *)
(* rejected while no execution of it awaits the chain: neither a late         *)
(* rejection, nor a signature, nor another execution changes it.  None begins *)
(* for a rejected one, so it stays rejected for good.                         *)
THEOREM VerdictsStand ==
  Spec => [][\A t \in Txs :
               status[t] = "executed" \/ (status[t] = "rejected" /\ t \notin InExecution)
               => /\ UNCHANGED <<status[t], signatures[t], threshold[t]>>
                  /\ status[t] = "rejected" => t \notin InExecution']_vars
<1> DEFINE Stand == \A t \in Txs :
               status[t] = "executed" \/ (status[t] = "rejected" /\ t \notin InExecution)
               => /\ UNCHANGED <<status[t], signatures[t], threshold[t]>>
                  /\ status[t] = "rejected" => t \notin InExecution'
<1>1. IInv /\ [Next]_vars => [Stand]_vars
  BY ApprovalStep, SettledStep DEF IInv, Settled
<1>2. QED
  BY <1>1, Invariance, PTL DEF Spec
===============================================================================
