-------------------------- MODULE EnterpriseMultiSig --------------------------
(***************************************************************************)
(* EnterpriseMultiSigService (packages/wallet-core/src/services/ika/       *)
(* enterprise-multisig.service.ts): threshold policies of dWallets and the *)
(* transactions their signers approve, reject and execute.                 *)
(*                                                                         *)
(* A policy keeps its signers in an array: createMultiSigPolicy takes the  *)
(* caller's list as it is, repeated addresses included.  A transaction's   *)
(* id is its dWallet and the millisecond, so a second one initiated in the *)
(* same millisecond takes the place of the first in multisigTransactions,  *)
(* while an execution that is awaiting the chain still holds the first.    *)
(* Left out: roles (who may initiate), signature bytes and the approval    *)
(* log, which no decision reads.  Every signer's status is 'active'.       *)
(***************************************************************************)
EXTENDS Naturals, Sequences, SequencesExt

CONSTANTS
  DWallets, Signers,
  Txs,           \* transaction objects, each initiated at most once
  Executors,     \* concurrent calls of executeMultiSigTransaction
  SignerLists,   \* lists of signers callers pass to createMultiSigPolicy
  Thresholds,    \* values of requiredSignatures they pass
  Timelocks,     \* values of timelock they pass; 0 for none
  MaxSigners,    \* bound on the length to which addSigner grows a list
  None

ASSUME ListsAssumption == SignerLists \subseteq Seq(Signers)
ASSUME NumbersAssumption == Thresholds \subseteq Nat /\ Timelocks \subseteq Nat
ASSUME NoneAssumption == None \notin Txs /\ None \notin DWallets

VARIABLES
  policy,      \* multisigPolicies
  status,      \* of each transaction; "none" before it is initiated
  wallet,      \* its dWalletId
  signatures,  \* the addresses in its signatures map
  threshold,   \* its requiredThreshold
  waited,      \* the time since its createdAt, in units of the timelocks
  named,       \* transactions that multisigTransactions holds
  instant,     \* the transaction whose id this millisecond gives the dWallet
  run          \* the transaction an executor awaits the chain with

txVars == <<status, wallet, signatures, threshold, waited, named, instant>>
vars == <<policy, txVars, run>>

NoPolicy == [required |-> 0, total |-> 0, signers |-> <<>>, timelock |-> 0, set |-> FALSE]

Policies ==
  [required : Nat, total : Nat, signers : Seq(Signers), timelock : Nat, set : BOOLEAN]

IsSigner(d, s) == policy[d].set /\ \E i \in DOMAIN policy[d].signers : policy[d].signers[i] = s

Init ==
  /\ policy = [d \in DWallets |-> NoPolicy]
  /\ status = [t \in Txs |-> "none"]
  /\ wallet = [t \in Txs |-> None]
  /\ signatures = [t \in Txs |-> {}]
  /\ threshold = [t \in Txs |-> 0]
  /\ waited = [t \in Txs |-> 0]
  /\ named = {}
  /\ instant = [d \in DWallets |-> None]
  /\ run = [e \in Executors |-> None]

(* createMultiSigPolicy: a policy may replace an earlier one. *)
CreateMultiSigPolicy(d) ==
  /\ \E k \in Thresholds, list \in SignerLists, lock \in Timelocks :
       /\ k <= Len(list)
       /\ policy' = [policy EXCEPT ![d] =
            [required |-> k, total |-> Len(list), signers |-> list, timelock |-> lock, set |-> TRUE]]
  /\ UNCHANGED <<txVars, run>>

(* Mutant: the policy is not looked for, its threshold is undefined. *)
InitiateMultiSigTransaction_NoPolicy(t, d) ==
  /\ status[t] = "none"
  /\ status' = [status EXCEPT ![t] = "pending"]
  /\ wallet' = [wallet EXCEPT ![t] = d]
  /\ threshold' = [threshold EXCEPT ![t] = IF policy[d].set THEN policy[d].required ELSE None]
  /\ named' = (named \ {instant[d]}) \cup {t}
  /\ instant' = [instant EXCEPT ![d] = t]
  /\ UNCHANGED <<policy, signatures, waited, run>>

InitiateMultiSigTransaction(t, d) ==
  /\ status[t] = "none"
  /\ policy[d].set
  /\ status' = [status EXCEPT ![t] = "pending"]
  /\ wallet' = [wallet EXCEPT ![t] = d]
  /\ threshold' = [threshold EXCEPT ![t] = policy[d].required]
  /\ named' = (named \ {instant[d]}) \cup {t}
  /\ instant' = [instant EXCEPT ![d] = t]
  /\ UNCHANGED <<policy, signatures, waited, run>>

(* The clock reaches the next millisecond. *)
Millisecond ==
  /\ \E d \in DWallets : instant[d] # None
  /\ instant' = [d \in DWallets |-> None]
  /\ UNCHANGED <<policy, status, wallet, signatures, threshold, waited, named, run>>

AddSignature(t, s) ==
  /\ t \in named
  /\ status[t] = "pending"
  /\ IsSigner(wallet[t], s)
  /\ signatures' = [signatures EXCEPT ![t] = @ \cup {s}]
  /\ status' = [status EXCEPT ![t] =
                  IF Cardinality(signatures'[t]) >= threshold[t] THEN "approved" ELSE @]
  /\ UNCHANGED <<policy, wallet, threshold, waited, named, instant, run>>

RejectTransaction(t) ==
  /\ t \in named
  /\ status[t] \in {"pending", "approved"}
  /\ status' = [status EXCEPT ![t] = "rejected"]
  /\ UNCHANGED <<policy, wallet, signatures, threshold, waited, named, instant, run>>

(* Time passes until some timelock may be over. *)
TimelockPasses(t) ==
  /\ status[t] # "none"
  /\ \E lock \in Timelocks :
       waited[t] < lock /\ waited' = [waited EXCEPT ![t] = lock]
  /\ UNCHANGED <<policy, status, wallet, signatures, threshold, named, instant, run>>

(* executeMultiSigTransaction up to its await: the timelock is the one the    *)
(* dWallet's policy has now.                                                  *)
Execute(e, t) ==
  /\ run[e] = None
  /\ t \in named
  /\ status[t] = "approved"
  /\ policy[wallet[t]].set
  /\ Cardinality(signatures[t]) >= threshold[t]
  /\ waited[t] >= policy[wallet[t]].timelock
  /\ run' = [run EXCEPT ![e] = t]
  /\ UNCHANGED <<policy, txVars>>

(* The chain has executed the block; the status is not looked at again. *)
ExecuteReturns(e) ==
  /\ run[e] # None
  /\ status' = [status EXCEPT ![run[e]] = "executed"]
  /\ run' = [run EXCEPT ![e] = None]
  /\ UNCHANGED <<policy, wallet, signatures, threshold, waited, named, instant>>

(* Mutant: a failed execution gives the transaction back for another try. *)
ExecuteThrows_Reopens(e) ==
  /\ run[e] # None
  /\ status' = [status EXCEPT ![run[e]] = "approved"]
  /\ run' = [run EXCEPT ![e] = None]
  /\ UNCHANGED <<policy, wallet, signatures, threshold, waited, named, instant>>

ExecuteThrows(e) ==
  /\ run[e] # None
  /\ run' = [run EXCEPT ![e] = None]
  /\ UNCHANGED <<policy, txVars>>

AddSigner(d, s) ==
  /\ policy[d].set
  /\ ~IsSigner(d, s)
  /\ Len(policy[d].signers) < MaxSigners
  /\ policy' = [policy EXCEPT ![d].signers = Append(@, s), ![d].total = @ + 1]
  /\ UNCHANGED <<txVars, run>>

(* Mutant: the list is compared as it is, not as it will be. *)
RemoveSigner_AtThreshold(d, s) ==
  /\ policy[d].set
  /\ Len(policy[d].signers) >= policy[d].required
  /\ \E i \in DOMAIN policy[d].signers :
       /\ policy[d].signers[i] = s
       /\ \A j \in 1..(i - 1) : policy[d].signers[j] # s
       /\ policy' = [policy EXCEPT ![d].signers = RemoveAt(@, i), ![d].total = @ - 1]
  /\ UNCHANGED <<txVars, run>>

(* removeSigner takes the first entry with the address. *)
RemoveSigner(d, s) ==
  /\ policy[d].set
  /\ Len(policy[d].signers) - 1 >= policy[d].required
  /\ \E i \in DOMAIN policy[d].signers :
       /\ policy[d].signers[i] = s
       /\ \A j \in 1..(i - 1) : policy[d].signers[j] # s
       /\ policy' = [policy EXCEPT ![d].signers = RemoveAt(@, i), ![d].total = @ - 1]
  /\ UNCHANGED <<txVars, run>>

Next ==
  \/ \E d \in DWallets :
       \/ CreateMultiSigPolicy(d)
       \/ \E s \in Signers : AddSigner(d, s) \/ RemoveSigner(d, s)
       \/ \E t \in Txs : InitiateMultiSigTransaction(t, d)
  \/ \E t \in Txs :
       \/ RejectTransaction(t) \/ TimelockPasses(t)
       \/ \E s \in Signers : AddSignature(t, s)
       \/ \E e \in Executors : Execute(e, t)
  \/ \E e \in Executors : ExecuteReturns(e) \/ ExecuteThrows(e)
  \/ Millisecond

Spec == Init /\ [][Next]_vars

-------------------------------------------------------------------------------
TypeOK ==
  /\ policy \in [DWallets -> Policies]
  /\ status \in [Txs -> {"none", "pending", "approved", "executed", "rejected"}]
  /\ wallet \in [Txs -> DWallets \cup {None}]
  /\ signatures \in [Txs -> SUBSET Signers]
  /\ threshold \in [Txs -> Nat]
  /\ waited \in [Txs -> Nat]
  /\ named \in SUBSET Txs
  /\ instant \in [DWallets -> Txs \cup {None}]
  /\ run \in [Executors -> Txs \cup {None}]

(* Through any sequence of policies created, replaced, grown and shrunk, the  *)
(* counter that createMultiSigPolicy was given and addSigner and removeSigner *)
(* keep says how many signers the policy lists, and never fewer than it       *)
(* requires.                                                                  *)
PolicyStands ==
  \A d \in DWallets :
    policy[d].total = Len(policy[d].signers) /\ policy[d].required <= policy[d].total

(* Transactions whose execution awaits the chain. *)
InExecution == {run[e] : e \in Executors} \ {None}

Approval == INSTANCE QuorumApproval WITH
  Matters <- Txs, Voters <- Signers, state <- status, votes <- signatures,
  need <- threshold, underway <- InExecution

(* Whoever replaces the policy, removes a signer, rejects, or executes twice  *)
(* in the meantime: a transaction is approved by as many different signers as *)
(* were required when it was initiated, one rejected while no execution of it *)
(* awaits the chain is never executed, and one executed stays executed.       *)
ImplementsApproval == Approval!Spec
===============================================================================
