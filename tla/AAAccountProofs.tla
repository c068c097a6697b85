---------------------------- MODULE AAAccountProofs ---------------------------
(***************************************************************************)
(* Proofs about AAAccount, for any accounts and signers, any depth of      *)
(* calls, and any order of returns and reverts.  What holds of the storage *)
(* is also proved of every storage that a revert may bring back.           *)
(***************************************************************************)
EXTENDS AAAccount, FiniteSetTheorems, SequenceTheorems, TLAPS

(* The numbers 0 .. n-1 in order. *)
Numbers(n) == [i \in 1..n |-> i - 1]

LEMMA NumbersGrow ==
  ASSUME NEW n \in Nat
  PROVE  Numbers(n) \in Seq(Nat) /\ Append(Numbers(n), n) = Numbers(n + 1)
<1>1. Numbers(n) \in Seq(Nat) /\ Len(Numbers(n)) = n
  BY DEF Numbers
<1>2. Append(Numbers(n), n) \in Seq(Nat) /\ Len(Append(Numbers(n), n)) = n + 1
  BY <1>1
<1>3. ASSUME NEW i \in 1..(n + 1)
      PROVE  Append(Numbers(n), n)[i] = i - 1
  BY <1>1 DEF Numbers
<1>4. QED
  BY <1>1, <1>2, <1>3 DEF Numbers

LEMMA OneMore ==
  ASSUME NEW t \in Seq(Nat), NEW n \in Nat
  PROVE  /\ t \o <<n>> \in Seq(Nat) /\ Len(t \o <<n>>) = Len(t) + 1
         /\ \A i \in DOMAIN t : (t \o <<n>>)[i] = t[i]
         /\ (t \o <<n>>)[Len(t) + 1] = n
         /\ DOMAIN (t \o <<n>>) = 1..(Len(t) + 1) /\ DOMAIN t = 1..Len(t)
<1>1. <<n>> \in Seq(Nat) /\ Len(<<n>>) = 1 /\ <<n>>[1] = n
  OBVIOUS
<1>2. Len(t) \in Nat /\ DOMAIN t = 1..Len(t)
  OBVIOUS
<1> DEFINE q == t \o <<n>>
<1>3. /\ q \in Seq(Nat) /\ Len(q) = Len(t) + 1
      /\ \A i \in 1..(Len(t) + 1) : q[i] = IF i <= Len(t) THEN t[i] ELSE <<n>>[i - Len(t)]
  BY <1>1, <1>2, ConcatProperties
<1>4. DOMAIN q = 1..(Len(t) + 1)
  BY <1>3
<1> HIDE DEF q
<1>5. ASSUME NEW i \in DOMAIN t PROVE q[i] = t[i]
  BY <1>2, <1>3
<1>6. q[Len(t) + 1] = n
  <2>1. Len(t) + 1 \in 1..(Len(t) + 1) /\ ~(Len(t) + 1 <= Len(t)) /\ Len(t) + 1 - Len(t) = 1
    BY <1>2
  <2>2. QED
    BY <1>1, <1>3, <2>1
<1>7. QED
  BY <1>2, <1>3, <1>4, <1>5, <1>6 DEF q

LEMMA Popped ==
  ASSUME NEW S, NEW t \in Seq(S), t # <<>>
  PROVE  /\ Len(t) \in Nat /\ Len(t) >= 1
         /\ SubSeq(t, 1, Len(t) - 1) \in Seq(S)
         /\ Len(SubSeq(t, 1, Len(t) - 1)) = Len(t) - 1
         /\ \A i \in 1..(Len(t) - 1) : SubSeq(t, 1, Len(t) - 1)[i] = t[i]
<1>1. Len(t) \in Nat /\ Len(t) >= 1
  OBVIOUS
<1> DEFINE L == Len(t) - 1
<1>2. L \in Nat /\ 1 \in Int /\ L \in Int
  BY <1>1
<1>3. \A i \in 1..L : t[i] \in S
  BY <1>1, ElementOfSeq
<1> HIDE DEF L
<1>4. /\ SubSeq(t, 1, L) \in Seq(S)
      /\ Len(SubSeq(t, 1, L)) = IF 1 <= L THEN L - 1 + 1 ELSE 0
      /\ \A i \in 1..(L - 1 + 1) : SubSeq(t, 1, L)[i] = t[1 + i - 1]
  BY <1>2, <1>3, SubSeqProperties
<1>5. Len(SubSeq(t, 1, L)) = L
  BY <1>2, <1>4
<1>6. ASSUME NEW i \in 1..L PROVE SubSeq(t, 1, L)[i] = t[i]
  <2>1. i \in 1..(L - 1 + 1) /\ 1 + i - 1 = i
    BY <1>2
  <2>2. QED
    BY <1>4, <2>1
<1>7. QED
  BY <1>1, <1>4, <1>5, <1>6 DEF L

(* A storage together with its history. *)
Worlds ==
  [signers : [Accounts -> SUBSET Addresses], signerCount : [Accounts -> Nat],
   nonce : [Accounts -> Nat], owner : [Accounts -> Owners \cup {NoOwner}],
   isValidAccount : SUBSET Accounts,
   executed : [Accounts -> Seq(Nat)], accepted : [Accounts -> Seq(Nat)]]

Quorate(w) ==
  \A a \in w.isValidAccount :
    w.signerCount[a] = Cardinality(w.signers[a]) /\ w.signerCount[a] >= RequiredSignatures

Numbered(w) == \A a \in Accounts : w.executed[a] = Numbers(w.nonce[a])

Protected(w) ==
  \A a \in Accounts : \A i, j \in DOMAIN w.accepted[a] :
    w.accepted[a][i] < w.nonce[a] /\ (i # j => w.accepted[a][i] # w.accepted[a][j])

(* An account that was not made yet has not executed anything. *)
Blank(w) == \A a \in Accounts \ w.isValidAccount : w.nonce[a] = 0

Good(w) == w \in Worlds /\ Quorate(w) /\ Numbered(w) /\ Protected(w) /\ Blank(w)

(* w may have come about while the outermost execution f was under way:       *)
(* nothing was accepted since it began, and its account's nonce has not       *)
(* fallen.                                                                    *)
Since(w, f) ==
  /\ w.accepted = f.saved.accepted
  /\ w.nonce[f.account] >= f.saved.nonce[f.account]

Frames == [account : Accounts, validated : Seq(Nat), saved : Worlds]

(* Frame i of the stack S: the storage it would bring back is good, knows the *)
(* accounts of the frames below, and came about since the first began.        *)
FrameInv(S, i) ==
  /\ Good(S[i].saved)
  /\ Since(S[i].saved, S[1])
  /\ \A k \in 1..i : S[k].account \in S[i].saved.isValidAccount
  /\ i # 1 => S[i].validated = <<>>
  /\ i = 1 => S[1].validated \in {<<>>, <<S[1].saved.nonce[S[1].account]>>}

(* The storage as it is, seen from the stack S. *)
Above(w, S) ==
  /\ S # <<>> => Since(w, S[1])
  /\ \A k \in 1..Len(S) : S[k].account \in w.isValidAccount

StackInv ==
  /\ stack \in Seq(Frames)
  /\ \A i \in 1..Len(stack) : FrameInv(stack, i)
  /\ Above(Saved, stack)

IInv == Good(Saved) /\ StackInv

LEMMA SavedFields ==
  /\ Saved.signers = signers /\ Saved.signerCount = signerCount /\ Saved.nonce = nonce
  /\ Saved.owner = owner /\ Saved.isValidAccount = isValidAccount
  /\ Saved.executed = executed /\ Saved.accepted = accepted
BY DEF Saved

LEMMA SavedIsWorld ==
  Saved \in Worlds <=>
    /\ signers \in [Accounts -> SUBSET Addresses]
    /\ signerCount \in [Accounts -> Nat]
    /\ nonce \in [Accounts -> Nat]
    /\ owner \in [Accounts -> Owners \cup {NoOwner}]
    /\ isValidAccount \in SUBSET Accounts
    /\ executed \in [Accounts -> Seq(Nat)]
    /\ accepted \in [Accounts -> Seq(Nat)]
BY DEF Saved, Worlds

LEMMA IInvMeans ==
  IInv => TypeOK /\ QuorumStands /\ ExecutionsNumbered /\ ReplayProtected
<1> SUFFICES ASSUME IInv PROVE TypeOK /\ QuorumStands /\ ExecutionsNumbered /\ ReplayProtected
  OBVIOUS
<1> USE DEF IInv, Good
<1>1. TypeOK
  <2>1. ASSUME NEW i \in 1..Len(stack)
        PROVE  /\ stack[i].account \in isValidAccount
               /\ stack[i].validated \in IF i = 1 THEN Seq(Nat) ELSE {<<>>}
    <3>1. stack[i] \in Frames /\ FrameInv(stack, i)
      BY DEF StackInv
    <3>2. QED
      BY <3>1, SavedFields DEF StackInv, Above, FrameInv, Frames
  <2>2. QED
    BY <2>1, SavedIsWorld DEF TypeOK
<1>2. QuorumStands
  BY SavedFields DEF QuorumStands, Quorate
<1>3. ExecutionsNumbered
  BY SavedFields DEF ExecutionsNumbered, Numbered, Numbers
<1>4. ReplayProtected
  BY SavedFields DEF ReplayProtected, Protected
<1>5. QED
  BY <1>1, <1>2, <1>3, <1>4

LEMMA IInvInit == Init => IInv
<1> SUFFICES ASSUME Init PROVE IInv
  OBVIOUS
<1>1. Saved \in Worlds
  BY SavedIsWorld DEF Init
<1>2. Numbers(0) = <<>>
  BY DEF Numbers
<1>3. Quorate(Saved) /\ Numbered(Saved) /\ Protected(Saved) /\ Blank(Saved)
  BY <1>2, SavedFields DEF Init, Quorate, Numbered, Protected, Blank
<1>4. StackInv
  BY DEF Init, StackInv, Above
<1>5. QED
  BY <1>1, <1>3, <1>4 DEF IInv, Good

-------------------------------------------------------------------------------
(* Calls that run to their end in one step *)

(* A step that leaves the stack alone keeps the invariant if it keeps the     *)
(* storage good, accepts nothing, lets no nonce fall and unmakes no account.  *)
LEMMA SameStack ==
  ASSUME IInv, Good(Saved'), UNCHANGED stack, accepted' = accepted,
         isValidAccount \subseteq isValidAccount',
         \A a \in isValidAccount : nonce'[a] = nonce[a]
  PROVE  IInv'
<1>1. Above(Saved, stack)'
  <2>1. Above(Saved, stack)
    BY DEF IInv, StackInv
  <2>2. ASSUME stack # <<>> PROVE Since(Saved', stack[1])
    <3>1. Since(Saved, stack[1]) /\ stack[1].account \in isValidAccount
      <4>1. 1 \in 1..Len(stack)
        BY <2>2 DEF IInv, StackInv
      <4>2. QED
        BY <2>1, <2>2, <4>1, SavedFields DEF Above
    <3>2. QED
      BY <3>1, SavedFields DEF Since, Saved
  <2>3. \A k \in 1..Len(stack) : stack[k].account \in Saved'.isValidAccount
    BY <2>1, SavedFields DEF Above, Saved
  <2>4. QED
    BY <2>2, <2>3 DEF Above
<1>2. QED
  BY <1>1 DEF IInv, StackInv, FrameInv

LEMMA CreateGood ==
  ASSUME IInv, NEW a \in Accounts, NEW o \in Owners, CreateAAAccount(a, o)
  PROVE  IInv'
<1> USE DEF IInv, Good
<1>1. PICK S \in SUBSET Addresses : Cardinality(S) = 3 /\ signers' = [signers EXCEPT ![a] = S]
  BY DEF CreateAAAccount
<1>2. /\ a \notin isValidAccount
      /\ signerCount' = [signerCount EXCEPT ![a] = 3]
      /\ nonce' = [nonce EXCEPT ![a] = 0]
      /\ owner' = [owner EXCEPT ![a] = o]
      /\ isValidAccount' = isValidAccount \cup {a}
      /\ executed' = executed /\ accepted' = accepted /\ stack' = stack
  BY DEF CreateAAAccount, history
<1>3. nonce[a] = 0 /\ nonce' = nonce
  BY <1>2, SavedFields, SavedIsWorld DEF Blank
<1>4. Saved' \in Worlds
  BY <1>1, <1>2, <1>3, SavedIsWorld DEF Worlds, Saved
<1>5. Quorate(Saved')
  BY <1>1, <1>2, SavedFields, SavedIsWorld DEF Quorate, Saved, RequiredSignatures
<1>6. Numbered(Saved') /\ Protected(Saved')
  BY <1>2, <1>3, SavedFields DEF Numbered, Protected, Saved
<1>7. Blank(Saved')
  BY <1>2, <1>3, SavedFields DEF Blank, Saved
<1>8. QED
  BY <1>2, <1>3, <1>4, <1>5, <1>6, <1>7, SameStack

LEMMA SignersGood ==
  ASSUME IInv, NEW a \in Accounts, NEW s \in Addresses, AddSigner(a, s) \/ RemoveSigner(a, s)
  PROVE  IInv'
<1> USE DEF IInv, Good
<1>1. /\ nonce' = nonce /\ owner' = owner /\ isValidAccount' = isValidAccount
      /\ executed' = executed /\ accepted' = accepted /\ stack' = stack
      /\ a \in isValidAccount
  BY DEF AddSigner, RemoveSigner, history
<1>2. /\ signers[a] \in SUBSET Addresses /\ signerCount[a] \in Nat
      /\ signerCount[a] = Cardinality(signers[a]) /\ signerCount[a] >= 2
  BY <1>1, SavedFields, SavedIsWorld DEF Quorate, RequiredSignatures
<1>3. IsFiniteSet(signers[a])
  BY <1>2, AddressesAssumption, FS_Subset
<1>4. PICK S \in SUBSET Addresses, n \in Nat :
        /\ signers' = [signers EXCEPT ![a] = S] /\ signerCount' = [signerCount EXCEPT ![a] = n]
        /\ n = Cardinality(S) /\ n >= 2
  <2>1. CASE AddSigner(a, s)
    <3>1. Cardinality(signers[a] \cup {s}) = Cardinality(signers[a]) + 1
      BY <1>3, <2>1, FS_AddElement DEF AddSigner
    <3> DEFINE S1 == signers[a] \cup {s}
               n1 == signerCount[a] + 1
    <3>2. S1 \in SUBSET Addresses /\ n1 \in Nat /\ n1 = Cardinality(S1) /\ n1 >= 2
      BY <1>2, <3>1
    <3>3. signers' = [signers EXCEPT ![a] = S1] /\ signerCount' = [signerCount EXCEPT ![a] = n1]
      BY <2>1 DEF AddSigner
    <3> HIDE DEF S1, n1
    <3>4. QED
      BY <3>2, <3>3
  <2>2. CASE RemoveSigner(a, s)
    <3>1. Cardinality(signers[a] \ {s}) = Cardinality(signers[a]) - 1
      BY <1>3, <2>2, FS_RemoveElement DEF RemoveSigner
    <3> DEFINE S1 == signers[a] \ {s}
               n1 == signerCount[a] - 1
    <3>2. S1 \in SUBSET Addresses /\ n1 \in Nat /\ n1 = Cardinality(S1) /\ n1 >= 2
      BY <1>2, <2>2, <3>1 DEF RemoveSigner, RequiredSignatures
    <3>3. signers' = [signers EXCEPT ![a] = S1] /\ signerCount' = [signerCount EXCEPT ![a] = n1]
      BY <2>2 DEF RemoveSigner
    <3> HIDE DEF S1, n1
    <3>4. QED
      BY <3>2, <3>3
  <2>3. QED
    BY <2>1, <2>2
<1>5. Saved' \in Worlds
  BY <1>1, <1>4, SavedIsWorld DEF Worlds, Saved
<1>6. Quorate(Saved')
  BY <1>1, <1>4, SavedFields, SavedIsWorld DEF Quorate, Saved, RequiredSignatures
<1>7. Numbered(Saved') /\ Protected(Saved') /\ Blank(Saved')
  BY <1>1, SavedFields DEF Numbered, Protected, Blank, Saved
<1>8. QED
  BY <1>1, <1>5, <1>6, <1>7, SameStack

LEMMA OwnershipGood ==
  ASSUME IInv, NEW a \in Accounts, TransferOwnership(a)
  PROVE  IInv'
<1> USE DEF IInv, Good
<1>1. /\ nonce' = nonce /\ isValidAccount' = isValidAccount /\ signers' = signers
      /\ signerCount' = signerCount /\ executed' = executed /\ accepted' = accepted
      /\ stack' = stack
  BY DEF TransferOwnership, history
<1>2. Saved' \in Worlds
  BY <1>1, SavedIsWorld DEF Worlds, Saved, TransferOwnership
<1>3. Quorate(Saved') /\ Numbered(Saved') /\ Protected(Saved') /\ Blank(Saved')
  BY <1>1, SavedFields DEF Quorate, Numbered, Protected, Blank, Saved
<1>4. QED
  BY <1>1, <1>2, <1>3, SameStack

-------------------------------------------------------------------------------
(* Executions *)

LEMMA CallGood ==
  ASSUME IInv, NEW a \in isValidAccount, NEW v \in Seq(Nat), Call(a, v),
         v = <<>> \/ (stack = <<>> /\ v = <<nonce[a]>>)
  PROVE  IInv'
<1> DEFINE f == [account |-> a, validated |-> v, saved |-> Saved]
<1>1. stack' = Append(stack, f) /\ Saved' = Saved
  BY DEF Call, storage, history, Saved
<1>2. Good(Saved) /\ stack \in Seq(Frames) /\ Above(Saved, stack)
  BY DEF IInv, StackInv
<1>3. a \in Accounts /\ f \in Frames
  BY <1>2, SavedIsWorld DEF Frames, Good
<1>4. /\ stack' \in Seq(Frames) /\ Len(stack') = Len(stack) + 1
      /\ \A i \in 1..Len(stack) : stack'[i] = stack[i]
      /\ stack'[Len(stack) + 1] = f
  BY <1>1, <1>2, <1>3
<1>5. Len(stack) \in Nat
  BY <1>2
<1>6. Since(Saved, stack'[1])
  <2>1. CASE stack = <<>>
    <3>1. stack'[1] = f
      BY <1>4, <2>1
    <3>2. nonce[a] \in Nat
      BY <1>2, <1>3, SavedIsWorld DEF Good
    <3>3. QED
      BY <3>1, <3>2, SavedFields DEF Since
  <2>2. CASE stack # <<>>
    <3>1. stack'[1] = stack[1]
      BY <1>2, <1>4, <2>2
    <3>2. QED
      BY <1>2, <2>2, <3>1 DEF Above
  <2>3. QED
    BY <2>1, <2>2
<1>7. \A k \in 1..(Len(stack) + 1) : stack'[k].account \in Saved.isValidAccount
  BY <1>2, <1>4, <1>5, SavedFields DEF Above
<1>8. ASSUME NEW i \in 1..Len(stack')
      PROVE  FrameInv(stack', i)
  <2>1. CASE i \in 1..Len(stack)
    <3>1. FrameInv(stack, i)
      BY <2>1 DEF IInv, StackInv
    <3>2. stack'[1] = stack[1] /\ \A k \in 1..i : stack'[k] = stack[k]
      BY <1>4, <1>5, <2>1
    <3>3. stack'[i] = stack[i]
      BY <1>4, <2>1
    <3>4. QED
      BY <3>1, <3>2, <3>3 DEF FrameInv
  <2>2. CASE i = Len(stack) + 1
    <3>1. stack'[i] = f /\ f.saved = Saved /\ f.validated = v /\ f.account = a
      BY <1>4, <2>2
    <3>2. i # 1 => f.validated = <<>>
      BY <1>2, <1>5, <2>2
    <3>3. i = 1 => f.validated \in {<<>>, <<f.saved.nonce[f.account]>>}
      BY <3>1, SavedFields
    <3>4. QED
      BY <1>2, <1>6, <1>7, <2>2, <3>1, <3>2, <3>3 DEF FrameInv
  <2>3. QED
    BY <1>4, <1>5, <2>1, <2>2
<1>9. Above(Saved', stack')
  BY <1>1, <1>4, <1>6, <1>7 DEF Above
<1>10. QED
  BY <1>1, <1>2, <1>4, <1>8, <1>9 DEF IInv, StackInv

LEMMA ReturnGood ==
  ASSUME IInv, stack # <<>>, NEW f, f = stack[Len(stack)], CallReturns(f)
  PROVE  /\ Good(Saved')
         /\ isValidAccount' = isValidAccount
         /\ Len(stack) > 1 => /\ accepted' = accepted
                              /\ nonce'[stack[1].account] >= nonce[stack[1].account]
<1> DEFINE a == f.account
<1> USE DEF Good
<1>1. stack \in Seq(Frames) /\ Len(stack) \in Nat /\ Len(stack) >= 1 /\ f \in Frames
  BY DEF IInv, StackInv
<1>2. FrameInv(stack, Len(stack)) /\ Above(Saved, stack) /\ Good(Saved)
  BY <1>1 DEF IInv, StackInv
<1>3. a \in Accounts /\ a \in isValidAccount
  BY <1>1, <1>2, SavedFields DEF Frames, Above
<1>4. /\ executed' = [executed EXCEPT ![a] = Append(@, nonce[a])]
      /\ accepted' = [accepted EXCEPT ![a] = @ \o f.validated]
      /\ nonce' = [nonce EXCEPT ![a] = @ + 1]
      /\ signers' = signers /\ signerCount' = signerCount /\ owner' = owner
      /\ isValidAccount' = isValidAccount
  BY DEF CallReturns
<1>5. /\ nonce \in [Accounts -> Nat] /\ accepted \in [Accounts -> Seq(Nat)]
      /\ executed \in [Accounts -> Seq(Nat)]
  BY <1>2, SavedIsWorld
<1>6. f.validated \in {<<>>, <<f.saved.nonce[a]>>} /\ (Len(stack) # 1 => f.validated = <<>>)
  BY <1>1, <1>2 DEF FrameInv
<1>7. CASE f.validated = <<>>
  <2>1. accepted[a] \o <<>> = accepted[a]
    BY <1>3, <1>5
  <2>2. accepted' = accepted
    BY <1>4, <1>5, <1>7, <2>1
  <2>3. nonce[a] \in Nat /\ Append(executed[a], nonce[a]) \in Seq(Nat)
    BY <1>3, <1>5
  <2>4. Saved' \in Worlds
    <3>1. executed' \in [Accounts -> Seq(Nat)]
      BY <1>3, <1>4, <1>5, <2>3
    <3>2. nonce' \in [Accounts -> Nat]
      BY <1>3, <1>4, <1>5, <2>3
    <3>3. QED
      BY <1>2, <1>4, <1>5, <2>2, <3>1, <3>2, SavedIsWorld DEF Worlds, Saved
  <2>5. Quorate(Saved') /\ Blank(Saved')
    BY <1>2, <1>3, <1>4, <1>5, SavedFields DEF Quorate, Blank, Saved
  <2>6. Numbered(Saved')
    BY <1>2, <1>3, <1>4, <1>5, NumbersGrow, SavedFields DEF Numbered, Saved
  <2>7. \A b \in Accounts : nonce'[b] \in Nat /\ nonce'[b] >= nonce[b]
    BY <1>4, <1>5
  <2>8. Protected(Saved')
    <3>1. ASSUME NEW b \in Accounts, NEW i \in DOMAIN accepted[b]
          PROVE  accepted[b][i] < nonce'[b]
      <4>1. accepted[b][i] \in Nat /\ accepted[b][i] < nonce[b]
        BY <1>2, <1>5, SavedFields DEF Protected
      <4>2. QED
        BY <1>5, <2>7, <4>1
    <3>2. QED
      BY <1>2, <2>2, <3>1, SavedFields DEF Protected, Saved
  <2>9. stack[1].account \in Accounts
    <3>1. 1 \in 1..Len(stack)
      BY <1>1
    <3>2. stack[1] \in Frames
      BY <1>1, <3>1, ElementOfSeq
    <3>3. QED
      BY <3>2 DEF Frames
  <2>10. QED
    BY <1>2, <1>4, <2>2, <2>4, <2>5, <2>6, <2>7, <2>8, <2>9
<1>8. CASE f.validated = <<f.saved.nonce[a]>>
  <2> DEFINE n == f.saved.nonce[a]
  <2>0. <<n>> # <<>>
    OBVIOUS
  <2>1. Len(stack) = 1 /\ f = stack[1]
    BY <1>1, <1>6, <1>8, <2>0
  <2>2. Since(Saved, f) /\ Good(f.saved)
    BY <1>2, <2>1 DEF Above, FrameInv
  <2>3. n \in Nat /\ n <= nonce[a] /\ accepted = f.saved.accepted
    BY <1>3, <1>5, <2>2, SavedFields DEF Since, Worlds
  <2>4. \A i \in DOMAIN accepted[a] : accepted[a][i] \in Nat /\ accepted[a][i] < n
    BY <1>3, <1>5, <2>2, <2>3 DEF Protected
  <2>5. nonce[a] \in Nat /\ Append(executed[a], nonce[a]) \in Seq(Nat)
    BY <1>3, <1>5
  <2> DEFINE q == accepted[a] \o <<n>>
  <2>6. /\ q \in Seq(Nat) /\ Len(q) = Len(accepted[a]) + 1
        /\ \A i \in DOMAIN accepted[a] : q[i] = accepted[a][i]
        /\ q[Len(accepted[a]) + 1] = n
        /\ DOMAIN q = 1..(Len(accepted[a]) + 1) /\ DOMAIN accepted[a] = 1..Len(accepted[a])
    <3>1. accepted[a] \in Seq(Nat) /\ n \in Nat
      BY <1>3, <1>5, <2>3
    <3> HIDE DEF n
    <3>2. QED
      BY <3>1, OneMore
  <2>7. accepted' = [accepted EXCEPT ![a] = q]
    BY <1>4, <1>8
  <2> HIDE DEF q, n
  <2>8. Saved' \in Worlds
    <3>1. executed' \in [Accounts -> Seq(Nat)]
      BY <1>3, <1>4, <1>5, <2>5
    <3>2. nonce' \in [Accounts -> Nat]
      BY <1>3, <1>4, <1>5, <2>5
    <3>3. accepted' \in [Accounts -> Seq(Nat)]
      BY <1>3, <1>5, <2>6, <2>7
    <3>4. QED
      BY <1>2, <1>4, <1>5, <3>1, <3>2, <3>3, SavedIsWorld DEF Worlds, Saved
  <2>9. Quorate(Saved') /\ Blank(Saved')
    BY <1>2, <1>3, <1>4, <1>5, SavedFields DEF Quorate, Blank, Saved
  <2>10. Numbered(Saved')
    BY <1>2, <1>3, <1>4, <1>5, NumbersGrow, SavedFields DEF Numbered, Saved
  <2>11. ASSUME NEW i \in DOMAIN q, NEW j \in DOMAIN q
         PROVE  q[i] < nonce[a] + 1 /\ (i # j => q[i] # q[j])
    <3>1. Len(accepted[a]) \in Nat
      BY <1>3, <1>5
    <3>2. ASSUME NEW k \in DOMAIN q
          PROVE  \/ k \in DOMAIN accepted[a] /\ q[k] \in Nat /\ q[k] < n
                 \/ k = Len(accepted[a]) + 1 /\ k \notin DOMAIN accepted[a] /\ q[k] = n
      <4>1. CASE k \in DOMAIN accepted[a]
        BY <2>4, <2>6, <4>1
      <4>2. CASE k \notin DOMAIN accepted[a]
        BY <2>6, <3>1, <4>2
      <4>3. QED
        BY <4>1, <4>2
    <3>3. q[i] < nonce[a] + 1
      BY <2>3, <2>5, <3>2
    <3>4. CASE i \in DOMAIN accepted[a] /\ j \in DOMAIN accepted[a]
      <4>1. i # j => accepted[a][i] # accepted[a][j]
        BY <1>2, <1>3, <3>4, SavedFields DEF Protected
      <4>2. q[i] = accepted[a][i] /\ q[j] = accepted[a][j]
        BY <2>6, <3>4
      <4>3. QED
        BY <3>3, <4>1, <4>2
    <3>5. CASE i \notin DOMAIN accepted[a] \/ j \notin DOMAIN accepted[a]
      BY <2>3, <3>2, <3>3, <3>5
    <3>6. QED
      BY <3>4, <3>5
  <2>12. Protected(Saved')
    <3>1. ASSUME NEW b \in Accounts, NEW i \in DOMAIN accepted'[b], NEW j \in DOMAIN accepted'[b]
          PROVE  accepted'[b][i] < nonce'[b] /\ (i # j => accepted'[b][i] # accepted'[b][j])
      <4>1. CASE b = a
        <5>1. accepted'[b] = q /\ nonce'[b] = nonce[a] + 1
          BY <1>3, <1>4, <1>5, <2>7, <4>1
        <5>2. QED
          BY <2>11, <5>1
      <4>2. CASE b # a
        <5>1. accepted'[b] = accepted[b] /\ nonce'[b] = nonce[b]
          BY <1>4, <1>5, <2>7, <4>2
        <5>2. QED
          BY <1>2, <5>1, SavedFields DEF Protected
      <4>3. QED
        BY <4>1, <4>2
    <3>2. QED
      BY <3>1 DEF Protected, Saved
  <2>13. QED
    BY <1>4, <2>1, <2>8, <2>9, <2>10, <2>12
<1>9. QED
  BY <1>6, <1>7, <1>8

LEMMA FinishGood ==
  ASSUME IInv, Finish
  PROVE  IInv'
<1> DEFINE L == Len(stack)
           f == stack[L]
<1>1. stack \in Seq(Frames) /\ L \in Nat /\ L >= 1 /\ stack # <<>> /\ f \in Frames
  BY DEF IInv, StackInv, Finish
<1>2. /\ stack' \in Seq(Frames) /\ Len(stack') = L - 1
      /\ \A i \in 1..(L - 1) : stack'[i] = stack[i]
  <2>1. stack' = SubSeq(stack, 1, L - 1)
    BY DEF Finish
  <2>2. QED
    BY <1>1, <2>1, Popped
<1>3. \A i \in 1..(L - 1) : FrameInv(stack', i)
  <2>1. ASSUME NEW i \in 1..(L - 1) PROVE FrameInv(stack', i)
    <3>1. FrameInv(stack, i)
      BY <1>1 DEF IInv, StackInv
    <3>2. stack'[1] = stack[1] /\ stack'[i] = stack[i] /\ \A k \in 1..i : stack'[k] = stack[k]
      BY <1>1, <1>2
    <3>3. QED
      BY <3>1, <3>2 DEF FrameInv
  <2>2. QED
    BY <2>1
<1>4. Good(Saved') /\ Above(Saved', stack')
  <2>1. CASE CallReturns(f)
    <3>1. /\ Good(Saved') /\ isValidAccount' = isValidAccount
          /\ L > 1 => /\ accepted' = accepted
                      /\ nonce'[stack[1].account] >= nonce[stack[1].account]
      BY <1>1, <2>1, ReturnGood
    <3>2. Above(Saved, stack)
      BY DEF IInv, StackInv
    <3>3. ASSUME stack' # <<>> PROVE Since(Saved', stack'[1])
      <4>1. L > 1 /\ stack'[1] = stack[1]
        BY <1>1, <1>2, <3>3
      <4>2. Since(Saved, stack[1]) /\ stack[1] \in Frames
        BY <1>1, <3>2 DEF Above
      <4>3. /\ nonce[stack[1].account] \in Nat /\ nonce'[stack[1].account] \in Nat
            /\ stack[1].saved.nonce[stack[1].account] \in Nat
        BY <3>1, <4>2, SavedIsWorld DEF IInv, Good, Frames, Worlds, Saved
      <4>4. QED
        BY <3>1, <4>1, <4>2, <4>3, SavedFields DEF Since, Saved
    <3>4. \A k \in 1..Len(stack') : stack'[k].account \in Saved'.isValidAccount
      BY <1>1, <1>2, <3>1, <3>2, SavedFields DEF Above, Saved
    <3>5. QED
      BY <3>1, <3>3, <3>4 DEF Above
  <2>2. CASE CallReverts(f)
    <3>1. f.saved \in Worlds /\ FrameInv(stack, L)
      BY <1>1 DEF IInv, StackInv, Frames
    <3>2. Saved' = f.saved
      BY <2>2, <3>1 DEF CallReverts, Saved, Worlds
    <3>3. Good(f.saved) /\ Since(f.saved, stack[1])
          /\ \A k \in 1..L : stack[k].account \in f.saved.isValidAccount
      BY <3>1 DEF FrameInv
    <3>4. stack' # <<>> => stack'[1] = stack[1]
      BY <1>1, <1>2
    <3>5. \A k \in 1..Len(stack') : stack'[k].account \in f.saved.isValidAccount
      BY <1>1, <1>2, <3>3
    <3>6. QED
      BY <3>2, <3>3, <3>4, <3>5 DEF Above
  <2>3. QED
    BY <2>1, <2>2 DEF Finish
<1>5. QED
  BY <1>2, <1>3, <1>4 DEF IInv, StackInv

-------------------------------------------------------------------------------
LEMMA IInvStep == IInv /\ [Next]_vars => IInv'
<1> SUFFICES ASSUME IInv, [Next]_vars PROVE IInv'
  OBVIOUS
<1>1. ASSUME NEW a \in Accounts, NEW o \in Owners, CreateAAAccount(a, o) PROVE IInv'
  BY <1>1, CreateGood
<1>2. ASSUME NEW a \in Accounts, NEW s \in Addresses, AddSigner(a, s) \/ RemoveSigner(a, s)
      PROVE  IInv'
  BY <1>2, SignersGood
<1>3. ASSUME NEW a \in Accounts, TransferOwnership(a) PROVE IInv'
  BY <1>3, OwnershipGood
<1>4. ASSUME NEW a \in Accounts, ExecuteTransaction(a) PROVE IInv'
  <2>1. PICK n \in 0..MaxNonce : Validates(a, n) /\ Call(a, <<n>>)
    BY <1>4 DEF ExecuteTransaction
  <2>2. a \in isValidAccount /\ stack = <<>> /\ n = nonce[a]
    BY <1>4, <2>1 DEF ExecuteTransaction, Validates
  <2>3. nonce[a] \in Nat
    BY SavedIsWorld DEF IInv, Good
  <2>4. <<n>> \in Seq(Nat)
    BY <2>2, <2>3
  <2>5. QED
    BY <2>1, <2>2, <2>4, CallGood
<1>5. ASSUME NEW a \in Accounts, ExecuteTransactionFromOutside(a) PROVE IInv'
  <2>1. a \in isValidAccount /\ Call(a, <<>>) /\ <<>> \in Seq(Nat)
    BY <1>5 DEF ExecuteTransactionFromOutside
  <2>2. QED
    BY <2>1, CallGood
<1>6. CASE Finish
  BY <1>6, FinishGood
<1>7. CASE UNCHANGED vars
  BY <1>7 DEF vars, storage, history, IInv, Good, Quorate, Numbered, Protected, Blank,
     StackInv, FrameInv, Since, Above, Saved
<1>8. QED
  BY <1>1, <1>2, <1>3, <1>4, <1>5, <1>6, <1>7 DEF Next

LEMMA Invariance == Spec => []IInv
BY IInvInit, IInvStep, PTL DEF Spec

(* Accounts, histories and the call stack keep their types; only the          *)
(* outermost execution is the bootloader's.                                   *)
THEOREM AccountTypeCorrect == Spec => []TypeOK
BY Invariance, IInvMeans, PTL

(* signerCount is the number of signers and never falls below the quorum, for *)
(* any signers and any nesting of calls that return or revert.                *)
THEOREM QuorumAlwaysStands == Spec => []QuorumStands
BY Invariance, IInvMeans, PTL

(* The events of an account are numbered without gap or repetition.           *)
THEOREM ExecutionsAreNumbered == Spec => []ExecutionsNumbered
BY Invariance, IInvMeans, PTL

(* No nonce is accepted twice.                                                *)
THEOREM ReplayIsProtected == Spec => []ReplayProtected
BY Invariance, IInvMeans, PTL
===============================================================================
