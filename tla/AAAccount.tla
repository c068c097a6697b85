------------------------------- MODULE AAAccount ------------------------------
(***************************************************************************)
(* AAAccount and AAFactory (packages/zkSync-aa-contracts/contracts): smart *)
(* accounts with three signers of whom two must sign, made by a factory.   *)
(*                                                                         *)
(* executeTransaction calls out before it counts the nonce, so whatever is *)
(* called may call the accounts and the factory again, and the caller may  *)
(* go on when such an inner call fails: the call stack keeps, for every    *)
(* execution that is under way, the storage to which a revert returns.     *)
(* Calls by anybody else are transactions or inner calls of their own and  *)
(* run to their end in one step; one that reverts changes nothing.         *)
(*                                                                         *)
(* An address is fresh for every creation (the factory reverts on a salt   *)
(* used before).  Left out: balances and call data, the implementation     *)
(* behind the proxies and the list of an owner's accounts.  Ownable and    *)
(* the bootloader are external.                                            *)
(***************************************************************************)
EXTENDS Naturals, Sequences, FiniteSets

CONSTANTS
  Accounts,    \* addresses of the accounts the factory makes
  Addresses,   \* signers
  Owners,
  NoOwner,     \* address(0)
  MaxNonce,    \* bound on the executions of an account
  MaxDepth     \* bound on the executions under way at once

ASSUME AddressesAssumption == IsFiniteSet(Addresses)
ASSUME OwnerAssumption == NoOwner \notin Owners

VARIABLES
  signers,        \* of each account
  signerCount,
  nonce,
  owner,
  isValidAccount, \* accounts of the factory
  executed,       \* history: nonces of the account's MultiSigExecuted events
  accepted,       \* history: nonces of the validated ones among them
  stack           \* executions under way, the innermost last

storage == <<signers, signerCount, nonce, owner, isValidAccount>>
history == <<executed, accepted>>
vars == <<storage, history, stack>>

RequiredSignatures == 2

(* What a revert restores. *)
Saved ==
  [signers |-> signers, signerCount |-> signerCount, nonce |-> nonce, owner |-> owner,
   isValidAccount |-> isValidAccount, executed |-> executed, accepted |-> accepted]

Init ==
  /\ signers = [a \in Accounts |-> {}]
  /\ signerCount = [a \in Accounts |-> 0]
  /\ nonce = [a \in Accounts |-> 0]
  /\ owner = [a \in Accounts |-> NoOwner]
  /\ isValidAccount = {}
  /\ executed = [a \in Accounts |-> <<>>]
  /\ accepted = [a \in Accounts |-> <<>>]
  /\ stack = <<>>

(* createAAAccount refuses repeated signers; the proxy it deploys is          *)
(* initialized in its constructor.                                            *)
CreateAAAccount(a, o) ==
  /\ a \notin isValidAccount
  /\ \E S \in SUBSET Addresses :
       /\ Cardinality(S) = 3
       /\ signers' = [signers EXCEPT ![a] = S]
  /\ signerCount' = [signerCount EXCEPT ![a] = 3]
  /\ nonce' = [nonce EXCEPT ![a] = 0]
  /\ owner' = [owner EXCEPT ![a] = o]
  /\ isValidAccount' = isValidAccount \cup {a}
  /\ UNCHANGED <<history, stack>>

(* addSigner and removeSigner are the owner's, whoever that is now. *)
AddSigner(a, s) ==
  /\ a \in isValidAccount
  /\ owner[a] # NoOwner
  /\ s \notin signers[a]
  /\ signers' = [signers EXCEPT ![a] = @ \cup {s}]
  /\ signerCount' = [signerCount EXCEPT ![a] = @ + 1]
  /\ UNCHANGED <<nonce, owner, isValidAccount, history, stack>>

(* Mutant: the count is compared with >= and falls below the quorum. *)
RemoveSigner_AtQuorum(a, s) ==
  /\ a \in isValidAccount
  /\ owner[a] # NoOwner
  /\ s \in signers[a]
  /\ signerCount[a] >= RequiredSignatures
  /\ signers' = [signers EXCEPT ![a] = @ \ {s}]
  /\ signerCount' = [signerCount EXCEPT ![a] = @ - 1]
  /\ UNCHANGED <<nonce, owner, isValidAccount, history, stack>>

RemoveSigner(a, s) ==
  /\ a \in isValidAccount
  /\ owner[a] # NoOwner
  /\ s \in signers[a]
  /\ signerCount[a] > RequiredSignatures
  /\ signers' = [signers EXCEPT ![a] = @ \ {s}]
  /\ signerCount' = [signerCount EXCEPT ![a] = @ - 1]
  /\ UNCHANGED <<nonce, owner, isValidAccount, history, stack>>

(* Ownable: ownership is handed on or given up. *)
TransferOwnership(a) ==
  /\ a \in isValidAccount
  /\ owner[a] # NoOwner
  /\ \E o \in Owners \cup {NoOwner} : owner' = [owner EXCEPT ![a] = o]
  /\ UNCHANGED <<signers, signerCount, nonce, isValidAccount, history, stack>>

(* _validateTransaction: as many signatures as are required recover to        *)
(* signers.  It counts signatures, not different signers.                     *)
Validates(a, n) ==
  /\ n = nonce[a]
  /\ \E recovered \in [1..RequiredSignatures -> Addresses] :
       \A i \in 1..RequiredSignatures : recovered[i] \in signers[a]

Call(a, validated) ==
  /\ Len(stack) < MaxDepth
  /\ stack' = Append(stack, [account |-> a, validated |-> validated, saved |-> Saved])
  /\ UNCHANGED <<storage, history>>

(* Mutant: executeTransaction may be called by anybody, from within a call. *)
ExecuteTransaction_FromAnywhere(a) ==
  /\ a \in isValidAccount
  /\ \E n \in 0..MaxNonce : Validates(a, n) /\ Call(a, <<n>>)

(* The bootloader has a transaction validated and then executed; it calls     *)
(* accounts only from the top level.                                          *)
ExecuteTransaction(a) ==
  /\ a \in isValidAccount
  /\ stack = <<>>
  /\ \E n \in 0..MaxNonce : Validates(a, n) /\ Call(a, <<n>>)

ExecuteTransactionFromOutside(a) ==
  /\ a \in isValidAccount
  /\ Call(a, <<>>)

(* Mutant: the nonce was read before the call. *)
CallReturns_Stale(f) ==
  LET a == f.account IN
  /\ nonce[a] < MaxNonce
  /\ executed' = [executed EXCEPT ![a] = Append(@, f.saved.nonce[a])]
  /\ accepted' = [accepted EXCEPT ![a] = @ \o f.validated]
  /\ nonce' = [nonce EXCEPT ![a] = f.saved.nonce[a] + 1]
  /\ UNCHANGED <<signers, signerCount, owner, isValidAccount>>

(* Once the call has come back the account emits its nonce and counts it. *)
CallReturns(f) ==
  LET a == f.account IN
  /\ nonce[a] < MaxNonce
  /\ executed' = [executed EXCEPT ![a] = Append(@, nonce[a])]
  /\ accepted' = [accepted EXCEPT ![a] = @ \o f.validated]
  /\ nonce' = [nonce EXCEPT ![a] = @ + 1]
  /\ UNCHANGED <<signers, signerCount, owner, isValidAccount>>

(* The call failed, and with it all that was done since it began. *)
CallReverts(f) ==
  /\ signers' = f.saved.signers
  /\ signerCount' = f.saved.signerCount
  /\ nonce' = f.saved.nonce
  /\ owner' = f.saved.owner
  /\ isValidAccount' = f.saved.isValidAccount
  /\ executed' = f.saved.executed
  /\ accepted' = f.saved.accepted

Finish ==
  /\ stack # <<>>
  /\ LET f == stack[Len(stack)] IN CallReturns(f) \/ CallReverts(f)
  /\ stack' = SubSeq(stack, 1, Len(stack) - 1)

Next ==
  \/ \E a \in Accounts :
       \/ \E o \in Owners : CreateAAAccount(a, o)
       \/ \E s \in Addresses : AddSigner(a, s) \/ RemoveSigner(a, s)
       \/ TransferOwnership(a)
       \/ ExecuteTransaction(a) \/ ExecuteTransactionFromOutside(a)
  \/ Finish

Spec == Init /\ [][Next]_vars

-------------------------------------------------------------------------------
TypeOK ==
  /\ signers \in [Accounts -> SUBSET Addresses]
  /\ signerCount \in [Accounts -> Nat]
  /\ nonce \in [Accounts -> Nat]
  /\ owner \in [Accounts -> Owners \cup {NoOwner}]
  /\ isValidAccount \in SUBSET Accounts
  /\ executed \in [Accounts -> Seq(Nat)]
  /\ accepted \in [Accounts -> Seq(Nat)]
  /\ \A i \in 1..Len(stack) :
       /\ stack[i].account \in isValidAccount
       /\ stack[i].validated \in IF i = 1 THEN Seq(Nat) ELSE {<<>>}

(* The count by which removeSigner guards the quorum is the number of         *)
(* signers, and enough signers stay for a transaction to be validated, after  *)
(* any additions and removals, within calls that return or are rolled back.   *)
QuorumStands ==
  \A a \in isValidAccount :
    signerCount[a] = Cardinality(signers[a]) /\ signerCount[a] >= RequiredSignatures

(* The account's events number its executions 0, 1, 2 ... without a gap or a  *)
(* repetition, although the nonce is read only after the call, in which other *)
(* executions may have begun, ended or been rolled back.                      *)
ExecutionsNumbered ==
  \A a \in Accounts : executed[a] = [i \in 1..nonce[a] |-> i - 1]

(* No nonce is accepted for two validated transactions that took effect.      *)
ReplayProtected ==
  \A a \in Accounts : \A i, j \in DOMAIN accepted[a] :
    accepted[a][i] < nonce[a] /\ (i # j => accepted[a][i] # accepted[a][j])
===============================================================================
