----------------------- MODULE PrivyAAIntegrationProofs -----------------------
(* Proofs about PrivyAAIntegration, for every set of contexts and calls. *)
EXTENDS PrivyAAIntegration, FiniteSetTheorems, TLAPS

USE WalletOfAssumption, CallsAssumption, MaxAssumption

Frozen(c) == batch[c] \in BatchStatuses \ {"draft", "ready"}

(* From executeBatch on, the run's snapshot covers the batch: the batch is    *)
(* past editing, so it can lose operations but not gain any.                  *)
RunCovers(r) ==
  LET c == ContextOf[r]
  IN  r \in Snapshots(c) => Frozen(c) /\ ops[c] \subseteq carried[r]

(* A later snapshot is taken from what an earlier one covers. *)
Nested(r, q) ==
  ContextOf[q] = ContextOf[r] /\ {q, r} \subseteq Snapshots(ContextOf[r])
    => carried[q] \subseteq carried[r] \/ carried[r] \subseteq carried[q]

IInv ==
  /\ TypeOK
  /\ \A r \in Runs : RunCovers(r)
  /\ \A r, q \in Runs : Nested(r, q)

-------------------------------------------------------------------------------
(* The session keys by themselves, as SessionKeys specifies them: for every   *)
(* set of keys and wallets, since nothing here asks for a context.            *)

LEMMA RevokeKeepsKeyTypes ==
  ASSUME KeysTypeOK, NEW S \in SUBSET Keys, Revoke(S)
  PROVE  KeysTypeOK'
BY DEF KeysTypeOK, Revoke, Statuses

LEMMA KeysKeepTypes ==
  ASSUME KeysTypeOK, [KeysNext]_keyVars
  PROVE  KeysTypeOK'
<1>1. ASSUME NEW k \in Keys, KeyCall(k) PROVE KeysTypeOK'
  BY <1>1, RevokeKeepsKeyTypes
  DEF KeyCall, CreateSessionKey, KeyIsCreated, Expires,
      RevokeSessionKey, GetExpiredKey, SuspendSessionKey,
      ResumeSessionKey, KeysTypeOK, Statuses
<1>2. ASSUME NEW w \in Wallets,
             RevokeAllSessionKeysForWallet(w) \/ GetSessionKeysForWallet(w)
      PROVE KeysTypeOK'
  <2>1. byWallet[w] \in SUBSET Keys
    BY DEF KeysTypeOK
  <2> QED
    BY <1>2, <2>1, RevokeKeepsKeyTypes
    DEF RevokeAllSessionKeysForWallet, GetSessionKeysForWallet
<1>3. CASE UNCHANGED keyVars
  BY <1>3 DEF keyVars, KeysTypeOK
<1> QED
  BY <1>1, <1>2, <1>3 DEF KeysNext

(* A key cannot have been revoked before it was there: without this a key     *)
(* that is being created might already count as revoked.                      *)
KeysIInv ==
  /\ KeysTypeOK
  /\ IndexHoldsTheUnrevoked
  /\ \A k \in revokedAt : Known(k)

(* Revoking known keys keeps the two maps in agreement: all the revoking      *)
(* calls come down to this.                                                   *)
LEMMA RevokeKeepsKeys ==
  ASSUME KeysIInv, NEW S \in SUBSET Keys, \A k \in S : Known(k),
         Revoke(S)
  PROVE  KeysIInv'
<1>1. KeysTypeOK'
  BY RevokeKeepsKeyTypes DEF KeysIInv
<1> USE DEF KeysIInv, KeysTypeOK, IndexHoldsTheUnrevoked, Revoke,
            Known, Statuses
<1>2. ASSUME NEW w \in Wallets
      PROVE  byWallet'[w] = {k \in Keys : WalletOf[k] = w /\ Known(k)'
                                                    /\ k \notin revokedAt'}
  OBVIOUS
<1>3. \A k \in revokedAt' : Known(k)'
  OBVIOUS
<1> QED
  BY <1>1, <1>2, <1>3

(* The keys a wallet lists are known. *)
LEMMA ListedIsKnown ==
  ASSUME KeysIInv, NEW w \in Wallets
  PROVE  byWallet[w] \subseteq Keys /\ \A k \in byWallet[w] : Known(k)
BY DEF KeysIInv, IndexHoldsTheUnrevoked

LEMMA KeyStepKeepsKeys ==
  ASSUME KeysIInv, NEW k \in Keys, KeyCall(k)
  PROVE  KeysIInv'
<1> USE DEF KeysIInv
<1>0. KeysTypeOK'
  BY KeysKeepTypes DEF KeysNext
<1>1. CASE CreateSessionKey(k)
  BY <1>0, <1>1 DEF CreateSessionKey, KeysTypeOK, IndexHoldsTheUnrevoked,
                    Known, Statuses
<1>2. CASE KeyIsCreated(k)
  <2> USE <1>2 DEF KeyIsCreated, KeysTypeOK, IndexHoldsTheUnrevoked,
                   Known, Statuses
  <2>1. k \notin revokedAt
    OBVIOUS
  <2>2. ASSUME NEW w \in Wallets
        PROVE  byWallet'[w] = {q \in Keys : WalletOf[q] = w /\ Known(q)'
                                                      /\ q \notin revokedAt'}
    BY <2>1
  <2>3. \A q \in revokedAt' : Known(q)'
    OBVIOUS
  <2> QED
    BY <1>0, <2>2, <2>3
<1>3. CASE Expires(k)
  BY <1>0, <1>3 DEF Expires, IndexHoldsTheUnrevoked, Known
<1>4. CASE RevokeSessionKey(k) \/ GetExpiredKey(k)
  BY <1>4, RevokeKeepsKeys DEF RevokeSessionKey, GetExpiredKey
<1>5. CASE SuspendSessionKey(k) \/ ResumeSessionKey(k)
  BY <1>0, <1>5 DEF SuspendSessionKey, ResumeSessionKey, KeysTypeOK,
                    IndexHoldsTheUnrevoked, Known, Statuses
<1> QED
  BY <1>1, <1>2, <1>3, <1>4, <1>5 DEF KeyCall

LEMMA KeysStay == KeysIInv /\ [KeysNext]_keyVars => KeysIInv'
<1> SUFFICES ASSUME KeysIInv, [KeysNext]_keyVars PROVE KeysIInv'
  OBVIOUS
<1>1. ASSUME NEW k \in Keys, KeyCall(k) PROVE KeysIInv'
  BY <1>1, KeyStepKeepsKeys
<1>2. ASSUME NEW w \in Wallets, RevokeAllSessionKeysForWallet(w) PROVE KeysIInv'
  BY <1>2, ListedIsKnown, RevokeKeepsKeys DEF RevokeAllSessionKeysForWallet
<1>3. ASSUME NEW w \in Wallets, GetSessionKeysForWallet(w) PROVE KeysIInv'
  <2>1. byWallet[w] \cap expired \in SUBSET Keys
    BY ListedIsKnown
  <2>2. \A k \in byWallet[w] \cap expired : Known(k)
    BY ListedIsKnown
  <2> QED
    BY <1>3, <2>1, <2>2, RevokeKeepsKeys DEF GetSessionKeysForWallet
<1>4. CASE UNCHANGED keyVars
  BY <1>4 DEF keyVars, KeysIInv, KeysTypeOK, IndexHoldsTheUnrevoked, Known
<1> QED
  BY <1>1, <1>2, <1>3, <1>4 DEF KeysNext

LEMMA KeysAlwaysAgree == KeysSpec => []KeysIInv
<1>1. KeysInit => KeysIInv
  BY DEF KeysInit, KeysIInv, KeysTypeOK, IndexHoldsTheUnrevoked, Known,
         Statuses
<1> QED
  BY <1>1, KeysStay, PTL DEF KeysSpec, keyVars

(* Every state of the session key service is well typed. *)
THEOREM KeysTypeCorrect == KeysSpec => []KeysTypeOK
BY KeysAlwaysAgree, PTL DEF KeysIInv

(* sessionsByWallet holds, for each wallet, exactly its keys that were never  *)
(* revoked (createSessionKey, revokeSessionKey and the lazy revocations).     *)
THEOREM IndexIsExact == KeysSpec => []IndexHoldsTheUnrevoked
BY KeysAlwaysAgree, PTL DEF KeysIInv

(* revokeAllSessionKeysForWallet revokes every key of the wallet that was     *)
(* never revoked before, however the calls before it interleaved.             *)
THEOREM RevokeAllReachesTheUnrevoked ==
  KeysSpec => [][\A w \in Wallets :
                    RevokeAllSessionKeysForWallet(w)
                      => \A k \in Keys :
                           WalletOf[k] = w /\ Known(k) /\ k \notin revokedAt
                             => status'[k] = "revoked"]_keyVars
<1> DEFINE Reach == \A w \in Wallets :
                    RevokeAllSessionKeysForWallet(w)
                      => \A k \in Keys :
                           WalletOf[k] = w /\ Known(k) /\ k \notin revokedAt
                             => status'[k] = "revoked"
<1>1. KeysIInv => Reach
  BY DEF KeysIInv, IndexHoldsTheUnrevoked, RevokeAllSessionKeysForWallet,
         Revoke
<1>2. KeysIInv /\ [KeysNext]_keyVars => [Reach]_keyVars
  BY <1>1
<1> QED
  BY <1>2, KeysAlwaysAgree, PTL DEF KeysSpec, keyVars

-------------------------------------------------------------------------------
(* Type correctness, one lemma per kind of step *)

LEMMA TransactionKeepsTypes ==
  ASSUME TypeOK, NEW x \in Transactions, TransactionStep(x)
  PROVE  TypeOK'
<1> DEFINE c == ContextOf[x]
<1>0. c \in Contexts
  OBVIOUS
<1> USE DEF TypeOK, BatchStatuses, batchVars, Finish
<1>1. CASE AddedByHand(x)
  BY <1>0, <1>1 DEF AddedByHand, AddOperation, keyVars, KeysTypeOK
<1>2. CASE ExecuteTransaction(x)
  <2>1. KeysTypeOK'
    <3>1. CASE UNCHANGED keyVars
      BY <3>1 DEF keyVars, KeysTypeOK
    <3>2. CASE c \in Keys /\ Revoke({c})
      <4>1. {c} \in SUBSET Keys
        BY <3>2
      <4> QED
        BY <3>2, <4>1, RevokeKeepsKeyTypes
    <3> QED
      BY <1>2, <3>1, <3>2 DEF ExecuteTransaction
  <2>2. tx' \in [Transactions -> {"idle", "validating", "userOp", "batched", "aa",
                                  "direct", "thrown"}]
    BY <1>2 DEF ExecuteTransaction
  <2>3. UNCHANGED <<batch, ops, stored, run, carried>>
    BY <1>2 DEF ExecuteTransaction
  <2> QED
    BY <2>1, <2>2, <2>3
<1>3. CASE PolicyFails(x)
  BY <1>3 DEF PolicyFails, keyVars, KeysTypeOK
<1>4. CASE Route(x)
  BY <1>0, <1>4 DEF Route, AddOperation, keyVars, KeysTypeOK
<1>5. CASE UserOpAnswers(x)
  BY <1>5 DEF UserOpAnswers, keyVars, KeysTypeOK
<1> QED
  BY <1>1, <1>2, <1>3, <1>4, <1>5 DEF TransactionStep

LEMMA RunKeepsTypes ==
  ASSUME TypeOK, NEW r \in Runs, RunStep(r)
  PROVE  TypeOK'
<1> USE DEF TypeOK, BatchStatuses, batchVars, keyVars, KeysTypeOK
<1>0. ContextOf[r] \in Contexts
  OBVIOUS
<1>1. CASE ExecuteBatch(r)
  BY <1>0, <1>1 DEF ExecuteBatch
<1>2. CASE BatchSubmitted(r)
  BY <1>0, <1>2 DEF BatchSubmitted
<1>3. CASE BatchThrows(r)
  BY <1>3 DEF BatchThrows
<1> QED
  BY <1>1, <1>2, <1>3 DEF RunStep

LEMMA BatchKeepsTypes ==
  ASSUME TypeOK, NEW c \in Contexts, BatchStep(c)
  PROVE  TypeOK'
BY DEF TypeOK, BatchStatuses, callVars, keyVars, KeysTypeOK, BatchStep,
       CreateExecutionContext, RemoveOperation, MarkBatch, CancelBatch, ClearBatch

LEMMA TypeStep == TypeOK /\ [Next]_vars => TypeOK'
<1> SUFFICES ASSUME TypeOK, [Next]_vars PROVE TypeOK'
  OBVIOUS
<1>1. CASE KeyStep
  BY <1>1, KeysKeepTypes DEF KeyStep, TypeOK, batchVars, callVars
<1>2. CASE UNCHANGED vars
  BY <1>2 DEF vars, keyVars, batchVars, callVars, TypeOK, KeysTypeOK
<1> QED
  BY <1>1, <1>2, TransactionKeepsTypes, RunKeepsTypes, BatchKeepsTypes DEF Next

LEMMA InitTypes == Init => TypeOK
BY DEF Init, KeysInit, TypeOK, KeysTypeOK, BatchStatuses

(* Every state of the integration is well typed. *)
THEOREM IntegrationTypeCorrect == Spec => []TypeOK
BY InitTypes, TypeStep, PTL DEF Spec

-------------------------------------------------------------------------------
(* What one step does to a batch: once frozen it stays frozen and only loses  *)
(* operations.                                                                *)

Shrinks(c) == Frozen(c) => Frozen(c)' /\ ops'[c] \subseteq ops[c]

LEMMA StepShrinks ==
  ASSUME TypeOK, [Next]_vars, NEW c \in Contexts
  PROVE  Shrinks(c)
<1> USE DEF Shrinks, Frozen, BatchStatuses, TypeOK
<1>1. ASSUME NEW x \in Transactions, TransactionStep(x) PROVE Shrinks(c)
  <2>0. ContextOf[x] \in Contexts
    OBVIOUS
  <2>1. CASE AddedByHand(x)
    BY <2>0, <2>1 DEF AddedByHand, Accepts, AddOperation
  <2>2. CASE Route(x)
    BY <2>0, <2>2 DEF Route, Accepts, AddOperation
  <2>3. CASE ExecuteTransaction(x) \/ PolicyFails(x) \/ UserOpAnswers(x)
    BY <2>3 DEF ExecuteTransaction, PolicyFails, UserOpAnswers, batchVars
  <2> QED
    BY <1>1, <2>1, <2>2, <2>3 DEF TransactionStep
<1>2. ASSUME NEW r \in Runs, RunStep(r) PROVE Shrinks(c)
  BY <1>2 DEF RunStep, ExecuteBatch, BatchSubmitted, BatchThrows, batchVars
<1>3. ASSUME NEW d \in Contexts, BatchStep(d) PROVE Shrinks(c)
  BY <1>3 DEF BatchStep, CreateExecutionContext, Made, RemoveOperation, MarkBatch,
              CancelBatch, ClearBatch
<1>4. CASE KeyStep \/ UNCHANGED vars
  BY <1>4 DEF KeyStep, vars, batchVars
<1> QED
  BY <1>1, <1>2, <1>3, <1>4 DEF Next

-------------------------------------------------------------------------------
(* The snapshot covers the batch *)

LEMMA CoveredStep ==
  ASSUME IInv, [Next]_vars
  PROVE  IInv'
<1> USE DEF IInv
<1>1. TypeOK'
  BY TypeStep
(* Only executeBatch itself changes what a run carries, or begins it. *)
<1>2. ASSUME NEW r \in Runs, ~ExecuteBatch(r)
      PROVE  carried'[r] = carried[r] /\ (run'[r] # "idle" => run[r] # "idle")
  <2>1. ASSUME NEW q \in Runs, RunStep(q)
        PROVE  carried'[r] = carried[r] /\ (run'[r] # "idle" => run[r] # "idle")
    BY <1>2, <2>1 DEF RunStep, ExecuteBatch, BatchSubmitted, BatchThrows, TypeOK
  <2>2. ASSUME NEW x \in Transactions, TransactionStep(x)
        PROVE  run' = run /\ carried' = carried
    BY <2>2 DEF TransactionStep, AddedByHand, ExecuteTransaction, PolicyFails,
                Route, UserOpAnswers
  <2>3. ASSUME NEW d \in Contexts, BatchStep(d)
        PROVE  run' = run /\ carried' = carried
    BY <2>3 DEF BatchStep, CreateExecutionContext, RemoveOperation, MarkBatch,
                CancelBatch, ClearBatch, callVars
  <2>4. CASE KeyStep \/ UNCHANGED vars
    BY <2>4 DEF KeyStep, vars, callVars
  <2> QED
    BY <2>1, <2>2, <2>3, <2>4 DEF Next
<1>3. ASSUME NEW r \in Runs PROVE RunCovers(r)'
  <2>0. ContextOf[r] \in Contexts
    OBVIOUS
  <2>1. CASE ExecuteBatch(r)
    BY <2>0, <2>1 DEF ExecuteBatch, RunCovers, Snapshots, Frozen, BatchStatuses, TypeOK
  <2>2. CASE ~ExecuteBatch(r)
    BY <2>0, <2>2, <1>2, StepShrinks DEF RunCovers, Snapshots, Shrinks
  <2> QED
    BY <2>1, <2>2
<1>4. ASSUME NEW r \in Runs, NEW q \in Runs PROVE Nested(r, q)'
  <2>1. ASSUME NEW a \in Runs, NEW b \in Runs, a # b, ExecuteBatch(a),
               ContextOf[a] = ContextOf[b], b \in Snapshots(ContextOf[b])'
        PROVE  ExecuteBatch(b) \/ carried'[a] \subseteq carried'[b]
    <3> SUFFICES ASSUME ~ExecuteBatch(b) PROVE carried'[a] \subseteq carried'[b]
      OBVIOUS
    <3>1. b \in Snapshots(ContextOf[b]) /\ carried'[b] = carried[b]
      BY <1>2, <2>1 DEF Snapshots
    <3>2. ops[ContextOf[b]] \subseteq carried[b]
      BY <3>1 DEF RunCovers
    <3>3. carried'[a] \subseteq ops[ContextOf[b]]
      BY <2>1 DEF ExecuteBatch, TypeOK
    <3> QED
      BY <3>1, <3>2, <3>3
  <2>2. CASE ~ExecuteBatch(r) /\ ~ExecuteBatch(q)
    BY <1>2, <2>2 DEF Nested, Snapshots
  <2>3. ExecuteBatch(r) /\ ExecuteBatch(q) => r = q
    BY DEF ExecuteBatch, TypeOK
  <2> QED
    BY <2>1, <2>2, <2>3 DEF Nested
<1> QED
  BY <1>1, <1>3, <1>4

LEMMA InitCovered == Init => IInv
BY InitTypes DEF Init, IInv, RunCovers, Nested, Snapshots

(* What a batch still lists is in every user operation made of it, and of two *)
(* such operations one contains the other (executeBatch across its awaits,    *)
(* against addOperation, executeTransaction and a second executeBatch).       *)
THEOREM SnapshotsCoverTheBatch == Spec => []SnapshotsCoverBatch
<1>1. IInv => SnapshotsCoverBatch
  BY DEF IInv, RunCovers, Nested, Snapshots, SnapshotsCoverBatch
<1> QED
  BY <1>1, InitCovered, CoveredStep, PTL DEF Spec

(* A batch that was handed on is never edited again: addOperation's guard     *)
(* holds against every overlap.                                               *)
THEOREM BatchesStayFrozen == Spec => FrozenOnceReady
<1> DEFINE Step == \A c \in Contexts :
       batch[c] \in BatchStatuses \ {"draft", "ready"}
         => /\ ops'[c] \subseteq ops[c]
            /\ batch'[c] \in BatchStatuses \ {"draft", "ready"}
<1>1. TypeOK /\ [Next]_vars => [Step]_vars
  BY StepShrinks DEF Shrinks, Frozen
<1>2. Spec => [][Step]_vars
  BY <1>1, InitTypes, TypeStep, PTL DEF Spec
<1> QED
  BY <1>2 DEF FrozenOnceReady

-------------------------------------------------------------------------------
(* The bound on a batch *)

LEMMA BoundStep ==
  ASSUME TypeOK, BatchIsBounded, [Next]_vars
  PROVE  BatchIsBounded'
<1> SUFFICES ASSUME NEW c \in Contexts PROVE Cardinality(ops'[c]) <= MaxOperations
  BY DEF BatchIsBounded
<1>0. IsFiniteSet(ops[c]) /\ Cardinality(ops[c]) \in Nat
      /\ Cardinality(ops[c]) <= MaxOperations
  BY FS_Subset, FS_CardinalityType DEF TypeOK, BatchIsBounded
<1>1. ASSUME NEW x \in Transactions, Accepts(ContextOf[x]), AddOperation(ContextOf[x], x)
      PROVE  Cardinality(ops'[c]) <= MaxOperations
  <2>1. CASE c = ContextOf[x]
    <3>1. ops'[c] = ops[c] \cup {x}
      BY <1>1, <2>1 DEF AddOperation, TypeOK
    <3>2. Cardinality(ops[c] \cup {x}) <= Cardinality(ops[c]) + 1
      <4>1. Cardinality(ops[c] \cup {x})
              = IF x \in ops[c] THEN Cardinality(ops[c]) ELSE Cardinality(ops[c]) + 1
        BY <1>0, FS_AddElement
      <4> QED
        BY <1>0, <4>1
    <3>3. Cardinality(ops[c]) < MaxOperations
      BY <1>1, <2>1 DEF Accepts
    <3>4. Cardinality(ops[c] \cup {x}) \in Nat
      BY <1>0, FS_AddElement, FS_CardinalityType
    <3> QED
      BY <1>0, <3>1, <3>2, <3>3, <3>4
  <2>2. CASE c # ContextOf[x]
    BY <1>0, <1>1, <2>2 DEF AddOperation, TypeOK
  <2> QED
    BY <2>1, <2>2
<1>2. CASE ops'[c] \subseteq ops[c]
  <2>1. Cardinality(ops'[c]) <= Cardinality(ops[c]) /\ Cardinality(ops'[c]) \in Nat
    BY <1>0, <1>2, FS_Subset, FS_CardinalityType
  <2> QED
    BY <1>0, <2>1
<1>3. ASSUME NEW x \in Transactions, TransactionStep(x)
      PROVE  \/ Accepts(ContextOf[x]) /\ AddOperation(ContextOf[x], x)
             \/ ops' = ops
  BY <1>3 DEF TransactionStep, AddedByHand, ExecuteTransaction, PolicyFails,
              Route, UserOpAnswers, batchVars
<1>4. ASSUME NEW r \in Runs, RunStep(r) PROVE ops' = ops
  BY <1>4 DEF RunStep, ExecuteBatch, BatchSubmitted, BatchThrows, batchVars
<1>5. ASSUME NEW d \in Contexts, BatchStep(d) PROVE ops'[c] \subseteq ops[c]
  BY <1>5 DEF BatchStep, CreateExecutionContext, RemoveOperation, MarkBatch,
              CancelBatch, ClearBatch, TypeOK
<1>6. CASE KeyStep \/ UNCHANGED vars
  BY <1>2, <1>6 DEF KeyStep, vars, batchVars
<1> QED
  BY <1>1, <1>2, <1>3, <1>4, <1>5, <1>6 DEF Next

(* No interleaving of addOperation calls takes a batch over                   *)
(* maxOperationsPerBatch.                                                     *)
THEOREM BatchesAreBounded == Spec => []BatchIsBounded
<1>1. Init => BatchIsBounded
  BY FS_EmptySet DEF Init, BatchIsBounded
<1>2. TypeOK /\ BatchIsBounded /\ [Next]_vars => (TypeOK /\ BatchIsBounded)'
  BY TypeStep, BoundStep
<1> QED
  BY <1>1, <1>2, InitTypes, PTL DEF Spec

-------------------------------------------------------------------------------
(* The session keys keep their own specification under the integration *)

(* A context is made only after its key, and a key never becomes unknown.  A  *)
(* batch that is stored is in the invariant since marking it makes it one.    *)
Begun(c) == Made(c) \/ c \in stored

KeyIsMadeFirst == \A c \in Keys \cap Contexts : Begun(c) => Known(c)

LEMMA KeyStepIsStep ==
  ASSUME KeyIsMadeFirst, [Next]_vars
  PROVE  [KeysNext]_keyVars
<1>1. ASSUME NEW x \in Transactions, ExecuteTransaction(x) PROVE [KeysNext]_keyVars
  <2>1. CASE UNCHANGED keyVars
    BY <2>1
  <2>2. ASSUME ContextOf[x] \in Keys, ContextOf[x] \in expired,
               Revoke({ContextOf[x]})
        PROVE  [KeysNext]_keyVars
    <3>1. Known(ContextOf[x])
      BY <1>1, <2>2, ContextOf[x] \in Contexts DEF ExecuteTransaction, KeyIsMadeFirst, Begun
    <3>2. GetExpiredKey(ContextOf[x])
      BY <2>2, <3>1 DEF GetExpiredKey
    <3> QED
      BY <2>2, <3>2 DEF KeysNext, KeyCall
  <2> QED
    BY <1>1, <2>1, <2>2 DEF ExecuteTransaction
<1>2. ASSUME NEW x \in Transactions,
             AddedByHand(x) \/ PolicyFails(x) \/ Route(x) \/ UserOpAnswers(x)
      PROVE  UNCHANGED keyVars
  BY <1>2 DEF AddedByHand, PolicyFails, Route, UserOpAnswers
<1>3. ASSUME NEW r \in Runs, RunStep(r) PROVE UNCHANGED keyVars
  BY <1>3 DEF RunStep, ExecuteBatch, BatchSubmitted, BatchThrows
<1>4. ASSUME NEW c \in Contexts, BatchStep(c) PROVE UNCHANGED keyVars
  BY <1>4 DEF BatchStep, CreateExecutionContext, RemoveOperation, MarkBatch,
              CancelBatch, ClearBatch
<1>5. CASE KeyStep \/ UNCHANGED vars
  BY <1>5 DEF KeyStep, vars
<1> QED
  BY <1>1, <1>2, <1>3, <1>4, <1>5 DEF Next, TransactionStep

LEMMA KnownStaysKnown ==
  ASSUME KeysTypeOK, [KeysNext]_keyVars, NEW k \in Keys, Known(k)
  PROVE  Known(k)'
<1> USE DEF KeysTypeOK, Known, Statuses
<1>1. ASSUME NEW q \in Keys, KeyCall(q) PROVE Known(k)'
  BY <1>1 DEF KeyCall, CreateSessionKey, KeyIsCreated, Expires,
              RevokeSessionKey, GetExpiredKey, Revoke,
              SuspendSessionKey, ResumeSessionKey
<1>2. ASSUME NEW w \in Wallets,
             RevokeAllSessionKeysForWallet(w) \/ GetSessionKeysForWallet(w)
      PROVE  Known(k)'
  BY <1>2 DEF RevokeAllSessionKeysForWallet, GetSessionKeysForWallet,
              Revoke
<1> QED
  BY <1>1, <1>2 DEF KeysNext, keyVars

(* Nothing but createExecutionContext makes a context or stores its batch. *)
LEMMA BegunByCreation ==
  ASSUME TypeOK, [Next]_vars, NEW c \in Contexts, ~Begun(c), Begun(c)'
  PROVE  CreateExecutionContext(c)
<1> USE DEF Begun, Made, TypeOK
<1>1. ASSUME NEW x \in Transactions, TransactionStep(x) PROVE FALSE
  <2>0. ContextOf[x] \in Contexts
    OBVIOUS
  <2>1. CASE AddedByHand(x) \/ Route(x)
    BY <2>0, <2>1 DEF AddedByHand, Route, Accepts, AddOperation
  <2>2. CASE ExecuteTransaction(x) \/ PolicyFails(x) \/ UserOpAnswers(x)
    BY <2>2 DEF ExecuteTransaction, PolicyFails, UserOpAnswers, batchVars
  <2> QED
    BY <1>1, <2>1, <2>2 DEF TransactionStep
<1>2. ASSUME NEW r \in Runs, RunStep(r) PROVE FALSE
  <2>0. ContextOf[r] \in Contexts
    OBVIOUS
  <2> QED
    BY <1>2, <2>0 DEF RunStep, ExecuteBatch, BatchSubmitted, BatchThrows, batchVars
<1>3. ASSUME NEW d \in Contexts, BatchStep(d) PROVE CreateExecutionContext(c)
  BY <1>3 DEF BatchStep, CreateExecutionContext, RemoveOperation, MarkBatch,
              CancelBatch, ClearBatch
<1>4. CASE KeyStep \/ UNCHANGED vars
  BY <1>4 DEF KeyStep, vars, batchVars
<1> QED
  BY <1>1, <1>2, <1>3, <1>4 DEF Next

LEMMA KeyIsMadeFirstStep ==
  ASSUME TypeOK, KeyIsMadeFirst, [Next]_vars
  PROVE  KeyIsMadeFirst'
<1> SUFFICES ASSUME NEW c \in Keys \cap Contexts, Begun(c)' PROVE Known(c)'
  BY DEF KeyIsMadeFirst
<1>1. CASE Begun(c)
  BY <1>1, KeyStepIsStep, KnownStaysKnown DEF KeyIsMadeFirst, TypeOK
<1>2. CASE ~Begun(c)
  BY <1>2, BegunByCreation DEF CreateExecutionContext, keyVars, Known, Statuses
<1> QED
  BY <1>1, <1>2

(* The integration implements the session key service: executeTransaction and *)
(* createExecutionContext change keys only as the service's own calls do, so  *)
(* what is proved above of KeysSpec holds here.                              *)
THEOREM IntegrationKeepsKeys == Spec => KeysSpec
<1>1. Init => KeysInit /\ KeyIsMadeFirst
  BY DEF Init, KeyIsMadeFirst, Begun, Made
<1>2. TypeOK /\ KeyIsMadeFirst /\ [Next]_vars => KeyIsMadeFirst'
  BY KeyIsMadeFirstStep
<1>3. KeyIsMadeFirst /\ [Next]_vars => [KeysNext]_keyVars
  BY KeyStepIsStep
<1> QED
  BY <1>1, <1>2, <1>3, IntegrationTypeCorrect, PTL DEF Spec, KeysSpec, keyVars

(* The key service's maps agree also while executions find keys expired and   *)
(* contexts are made.                                                         *)
THEOREM KeysAgreeInIntegration == Spec => []IndexHoldsTheUnrevoked
BY IntegrationKeepsKeys, IndexIsExact
===============================================================================
