-------------------------- MODULE PrivyAAIntegration --------------------------
(***************************************************************************)
(* PrivyAAIntegrationService (packages/wallet-core/src/services/           *)
(* privy-aa-integration.ts) over the SessionKeyService and the             *)
(* BatchOperationsService (batch-operations.ts) it owns and hands out.     *)
(*                                                                         *)
(* Calls of executeTransaction and executeBatch run concurrently, one      *)
(* action per piece between awaits, while others revoke and suspend keys   *)
(* and edit, sign, confirm, cancel or clear batches.  All three features   *)
(* are enabled in the config.  A context has at most one key and exactly   *)
(* one batch, which go by its name: a context in Keys is created with a    *)
(* session key, and the other Keys are made by callers of the key service. *)
(* Operations of a batch are the transactions themselves, their order      *)
(* left out.                                                               *)
(***************************************************************************)
EXTENDS SessionKeys, Naturals, FiniteSets

CONSTANTS
  Contexts,
  Transactions,   \* calls of executeTransaction
  Runs,           \* calls of executeBatch
  ContextOf,      \* the context a call is made with
  UseAA,          \* contexts and runs that ask for account abstraction
  MaxOperations   \* maxOperationsPerBatch

ASSUME CallsAssumption ==
  /\ ContextOf \in [Transactions \cup Runs -> Contexts]
  /\ UseAA \subseteq Contexts \cup Runs
  /\ IsFiniteSet(Transactions)
ASSUME MaxAssumption == MaxOperations \in Nat \ {0}

VARIABLES
  batch,     \* status of the context's batch, "none" until the context is made
  ops,       \* the batch's operations
  stored,    \* contexts whose batch the BatchOperationsService still holds
  tx,        \* where each executeTransaction is, or how it ended
  run,       \* the same for each executeBatch
  carried    \* the operations in the run's user operation, if it makes one

batchVars == <<batch, ops, stored>>
callVars == <<tx, run, carried>>
vars == <<keyVars, batchVars, callVars>>

BatchStatuses == {"draft", "ready", "pending_signature", "signed", "submitted",
                  "confirmed", "failed", "cancelled"}

Made(c) == batch[c] # "none"

Init ==
  /\ KeysInit
  /\ batch = [c \in Contexts |-> "none"]
  /\ ops = [c \in Contexts |-> {}]
  /\ stored = {}
  /\ tx = [x \in Transactions |-> "idle"]
  /\ run = [r \in Runs |-> "idle"]
  /\ carried = [r \in Runs |-> {}]

-------------------------------------------------------------------------------
(* Batches *)

(* createExecutionContext, after the session key if there is one. *)
CreateExecutionContext(c) ==
  /\ ~Made(c)
  /\ c \in Keys => Known(c)
  /\ batch' = [batch EXCEPT ![c] = "draft"]
  /\ stored' = stored \cup {c}
  /\ UNCHANGED <<keyVars, ops, callVars>>

(* Mutant: only a confirmed batch refuses. *)
Accepts_Late(c) ==
  c \in stored /\ batch[c] # "confirmed" /\ Cardinality(ops[c]) < MaxOperations

(* addOperation does not throw. *)
Accepts(c) ==
  /\ c \in stored
  /\ batch[c] \in {"draft", "ready"}
  /\ Cardinality(ops[c]) < MaxOperations

AddOperation(c, x) ==
  /\ ops' = [ops EXCEPT ![c] = @ \cup {x}]
  /\ batch' = [batch EXCEPT ![c] = "ready"]

(* A caller of the batch service adds the transaction itself. *)
AddedByHand(x) ==
  LET c == ContextOf[x]
  IN  /\ tx[x] = "idle" /\ Made(c)
      /\ Accepts(c)
      /\ AddOperation(c, x)
      /\ tx' = [tx EXCEPT ![x] = "batched"]
      /\ UNCHANGED <<keyVars, stored, run, carried>>

(* removeOperation, whatever the status. *)
RemoveOperation(c, x) ==
  /\ c \in stored /\ x \in ops[c]
  /\ ops' = [ops EXCEPT ![c] = @ \ {x}]
  /\ UNCHANGED <<keyVars, batch, stored, callVars>>

(* markAsReadyForSigning, markAsSigned, markAsSubmitted and markAsConfirmed   *)
(* (failed if one of the results is), called from outside (useBatchOperations *)
(* does), whatever the status and whether or not anything was sent.           *)
MarkBatch(c) ==
  /\ c \in stored
  /\ \E s \in {"pending_signature", "signed", "submitted", "confirmed", "failed"} :
       /\ s = "pending_signature" => ops[c] # {}
       /\ batch' = [batch EXCEPT ![c] = s]
  /\ UNCHANGED <<keyVars, ops, stored, callVars>>

CancelBatch(c) ==
  /\ c \in stored /\ batch[c] # "confirmed"
  /\ batch' = [batch EXCEPT ![c] = "cancelled"]
  /\ UNCHANGED <<keyVars, ops, stored, callVars>>

(* clearBatch; the context keeps the object. *)
ClearBatch(c) ==
  /\ c \in stored
  /\ stored' = stored \ {c}
  /\ UNCHANGED <<keyVars, batch, ops, callVars>>

-------------------------------------------------------------------------------
(* executeTransaction *)

Finish(x, end) == tx' = [tx EXCEPT ![x] = end]

(* Mutant: an expired key is given the status and nothing else. *)
ExecuteTransaction_OnlyMarks(x) ==
  LET c == ContextOf[x]
  IN  /\ tx[x] = "idle" /\ Made(c)
      /\ \/ /\ c \in Keys => Usable(c)
            /\ Finish(x, "validating")
            /\ UNCHANGED keyVars
         \/ /\ c \in Keys
            /\ Finish(x, "thrown")
            /\ IF c \in expired
                 THEN /\ status' = [status EXCEPT ![c] = "revoked"]
                      /\ revokedAt' = revokedAt \cup {c}
                      /\ UNCHANGED <<byWallet, expired>>
                 ELSE UNCHANGED keyVars
      /\ UNCHANGED <<batchVars, run, carried>>

(* The call up to its first await: an expired key is revoked and, like one    *)
(* that is not active or lacks the permission, refused.  The key is not       *)
(* looked at again.                                                           *)
ExecuteTransaction(x) ==
  LET c == ContextOf[x]
  IN  /\ tx[x] = "idle" /\ Made(c)
      /\ \/ /\ c \in Keys => Usable(c)
            /\ Finish(x, "validating")
            /\ UNCHANGED keyVars
         \/ /\ c \in Keys
            /\ Finish(x, "thrown")
            /\ IF c \in expired THEN Revoke({c}) ELSE UNCHANGED keyVars
      /\ UNCHANGED <<batchVars, run, carried>>

(* A policy that was awaited fails, or its check throws. *)
PolicyFails(x) ==
  /\ tx[x] = "validating" /\ ContextOf[x] \in Keys
  /\ Finish(x, "thrown")
  /\ UNCHANGED <<keyVars, batchVars, run, carried>>

(* Mutant: every transaction of a batch context goes into the batch. *)
Route_IntoAnyBatch(x) ==
  LET c == ContextOf[x]
  IN  /\ tx[x] = "validating"
      /\ AddOperation(c, x)
      /\ Finish(x, "batched")
      /\ UNCHANGED <<keyVars, stored, run, carried>>

(* Validation resolved: into the batch while it is a draft, which the first   *)
(* operation ends, else to the bundler, else a hash made up on the spot.      *)
Route(x) ==
  LET c == ContextOf[x]
  IN  /\ tx[x] = "validating"
      /\ IF batch[c] = "draft"
           THEN IF Accepts(c)
                  THEN AddOperation(c, x) /\ Finish(x, "batched")
                  ELSE Finish(x, "thrown") /\ UNCHANGED <<batch, ops>>
           ELSE /\ Finish(x, IF c \in UseAA THEN "userOp" ELSE "direct")
                /\ UNCHANGED <<batch, ops>>
      /\ UNCHANGED <<keyVars, stored, run, carried>>

(* The bundler takes the user operation, or one of the two calls throws. *)
UserOpAnswers(x) ==
  /\ tx[x] = "userOp"
  /\ \/ Finish(x, "aa")
     \/ Finish(x, "thrown")
  /\ UNCHANGED <<keyVars, batchVars, run, carried>>

-------------------------------------------------------------------------------
(* executeBatch *)

(* markAsReadyForSigning, whatever the status, and the snapshot for the user  *)
(* operation; without account abstraction nothing is sent, and the batch is   *)
(* marked submitted at once with a hash made up on the spot.                  *)
(* An empty batch and one that was cleared throw, nothing changed.            *)
ExecuteBatch(r) ==
  LET c == ContextOf[r]
  IN  /\ run[r] = "idle" /\ Made(c)
      /\ ops[c] # {} /\ c \in stored
      /\ batch' = [batch EXCEPT ![c] = IF r \in UseAA THEN "pending_signature"
                                                      ELSE "submitted"]
      /\ run' = [run EXCEPT ![r] = IF r \in UseAA THEN "userOp" ELSE "submitted"]
      /\ carried' = [carried EXCEPT ![r] = IF r \in UseAA THEN ops[c] ELSE {}]
      /\ UNCHANGED <<keyVars, ops, stored, tx>>

(* The bundler has the user operation: markAsSubmitted, over whatever became  *)
(* of the batch meanwhile; it throws if the batch was cleared.                *)
BatchSubmitted(r) ==
  LET c == ContextOf[r]
  IN  /\ run[r] = "userOp"
      /\ IF c \in stored
           THEN /\ batch' = [batch EXCEPT ![c] = "submitted"]
                /\ run' = [run EXCEPT ![r] = "submitted"]
           ELSE /\ run' = [run EXCEPT ![r] = "thrown"]
                /\ UNCHANGED batch
      /\ UNCHANGED <<keyVars, ops, stored, tx, carried>>

(* createUserOperation or submitUserOperation throws; the batch stays as it is. *)
BatchThrows(r) ==
  /\ run[r] = "userOp"
  /\ run' = [run EXCEPT ![r] = "thrown"]
  /\ UNCHANGED <<keyVars, batchVars, tx, carried>>

-------------------------------------------------------------------------------
(* Session keys, through the integration or the service it hands out. *)
KeyStep ==
  /\ KeysNext
  /\ UNCHANGED <<batchVars, callVars>>

TransactionStep(x) ==
  \/ AddedByHand(x)
  \/ ExecuteTransaction(x)
  \/ PolicyFails(x)
  \/ Route(x)
  \/ UserOpAnswers(x)

RunStep(r) == ExecuteBatch(r) \/ BatchSubmitted(r) \/ BatchThrows(r)

BatchStep(c) ==
  \/ CreateExecutionContext(c)
  \/ \E x \in Transactions : RemoveOperation(c, x)
  \/ MarkBatch(c)
  \/ CancelBatch(c)
  \/ ClearBatch(c)

Next ==
  \/ KeyStep
  \/ \E x \in Transactions : TransactionStep(x)
  \/ \E r \in Runs : RunStep(r)
  \/ \E c \in Contexts : BatchStep(c)

Spec == Init /\ [][Next]_vars

-------------------------------------------------------------------------------
TypeOK ==
  /\ KeysTypeOK
  /\ batch \in [Contexts -> BatchStatuses \cup {"none"}]
  /\ ops \in [Contexts -> SUBSET Transactions]
  /\ stored \subseteq Contexts
  /\ tx \in [Transactions -> {"idle", "validating", "userOp", "batched", "aa",
                              "direct", "thrown"}]
  /\ run \in [Runs -> {"idle", "userOp", "submitted", "thrown"}]
  /\ carried \in [Runs -> SUBSET Transactions]

(* Nothing is left behind in a batch that was handed on, and a repeated       *)
(* executeBatch sends no operation an earlier one did not: what the batch     *)
(* still lists is in the user operation of every run that has taken its       *)
(* snapshot, and of two snapshots one contains the other, however the runs,   *)
(* the awaited policies of executeTransaction and the callers of the batch    *)
(* service overlap.                                                           *)
Snapshots(c) == {r \in Runs \cap UseAA : ContextOf[r] = c /\ run[r] # "idle"}

SnapshotsCoverBatch ==
  \A c \in Contexts : \A r \in Snapshots(c) :
    /\ ops[c] \subseteq carried[r]
    /\ \A q \in Snapshots(c) :
         carried[q] \subseteq carried[r] \/ carried[r] \subseteq carried[q]

(* A batch never has more operations than it may, those that executeTransaction *)
(* and other callers add at the same time included.                           *)
BatchIsBounded == \A c \in Contexts : Cardinality(ops[c]) <= MaxOperations

(* Once a batch was handed on for signing, cancelled or marked in any other   *)
(* way, it only ever loses operations and is never editable again.            *)
FrozenOnceReady ==
  [][\A c \in Contexts :
       batch[c] \in BatchStatuses \ {"draft", "ready"}
         => /\ ops'[c] \subseteq ops[c]
            /\ batch'[c] \in BatchStatuses \ {"draft", "ready"}]_vars
===============================================================================
