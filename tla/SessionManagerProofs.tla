------------------------- MODULE SessionManagerProofs -------------------------
(* Proofs about SessionManager, for every limit and number of sessions. *)
EXTENDS SessionManager, FiniteSetTheorems, WellFoundedInduction, TLAPS

USE MaxAssumption, BoundAssumption DEF Ids, None

(* Among some sessions one is the oldest. *)
LEMMA LeastElement ==
  ASSUME NEW S \in SUBSET Nat, S # {}
  PROVE  \E s \in S : \A t \in S : s <= t
<1>1. PICK s \in S : \A t \in S : ~(<<t, s>> \in OpToRel(<, Nat))
  <2>1. IsWellFoundedOn(OpToRel(<, Nat), Nat)
    BY NatLessThanWellFounded
  <2>2. PICK x : x \in S
    OBVIOUS
  <2> QED
    BY <2>1, <2>2, WFMin
<1>2. ASSUME NEW t \in S PROVE s <= t
  <2>1. ~(t < s)
    BY <1>1 DEF OpToRel
  <2> QED
    BY <2>1
<1> QED
  BY <1>1, <1>2

LEMMA StoreIsFinite ==
  ASSUME TypeOK
  PROVE  /\ IsFiniteSet(sessions) /\ Cardinality(sessions) \in Nat
         /\ \A S \in SUBSET sessions : IsFiniteSet(S)
<1>1. IsFiniteSet(1..created)
  BY FS_Interval DEF TypeOK
<1> QED
  BY <1>1, FS_Subset, FS_CardinalityType DEF TypeOK

(* Eviction takes one session that is not in use, or none.  Which one it is   *)
(* needs a least element, so that "one, if there is any" rests on the order.  *)
LEMMA EvictedIsUnapproved ==
  /\ Evicted \subseteq sessions /\ Evicted \cap approved = {}
  /\ TypeOK => \A s, t \in Evicted : s = t
BY DEF Evicted, Oldest, TypeOK

-------------------------------------------------------------------------------
LEMMA WithoutType ==
  ASSUME TypeOK, NEW S, Without(S), UNCHANGED created,
         pendingApprovals' \in {pendingApprovals, {}}, timer' \in BOOLEAN
  PROVE  TypeOK'
BY DEF TypeOK, Without

LEMMA CreateType ==
  ASSUME TypeOK, CreateSessionRequest
  PROVE  TypeOK'
<1> DEFINE s == created + 1
<1>1. s \in 1..MaxCreated /\ 1..created \subseteq 1..s /\ s \in 1..s
  BY DEF TypeOK, CreateSessionRequest
<1>2. /\ created' = s
      /\ sessions' = (sessions \ Evicted) \cup {s}
      /\ approved' = approved \ Evicted
      /\ expired' = expired \ Evicted
      /\ activeSessionId' \in {None, activeSessionId}
      /\ pendingApprovals' = pendingApprovals \cup {s}
      /\ timer' = timer
  BY DEF CreateSessionRequest
<1> HIDE DEF s
<1>3. /\ sessions' \subseteq 1..s /\ pendingApprovals' \subseteq 1..s
      /\ approved' \subseteq sessions' /\ expired' \subseteq sessions'
  BY <1>1, <1>2 DEF TypeOK
<1>4. s \in 0..MaxCreated
  BY <1>1
<1> QED
  BY <1>2, <1>3, <1>4 DEF TypeOK

LEMMA TypeStep == TypeOK /\ [Next]_vars => TypeOK'
<1> SUFFICES ASSUME TypeOK, [Next]_vars PROVE TypeOK'
  OBVIOUS
<1>1. CASE CreateSessionRequest
  BY <1>1, CreateType
<1>2. ASSUME NEW s \in Ids, SessionStep(s) PROVE TypeOK'
  <2>1. CASE ApproveSession(s)
    BY <2>1 DEF ApproveSession, TypeOK
  <2>2. CASE ApproveExpired(s) \/ RejectSession(s)
    BY <2>2, WithoutType DEF ApproveExpired, RejectSession, TypeOK
  <2>3. CASE SwitchToSession(s)
    BY <2>3 DEF SwitchToSession, TypeOK
  <2> QED
    BY <1>2, <2>1, <2>2, <2>3 DEF SessionStep
<1>3. CASE Cleanup \/ Disconnect
  BY <1>3, WithoutType DEF Cleanup, Disconnect, TypeOK
<1>4. CASE Destroy \/ Reload
  BY <1>4, WithoutType DEF Destroy, Reload, Emptied, TypeOK
<1>5. CASE Initialize \/ TimePasses
  BY <1>5 DEF Initialize, TimePasses, Oldest, TypeOK
<1>6. CASE UNCHANGED vars
  BY <1>6 DEF vars, TypeOK
<1> QED
  BY <1>1, <1>2, <1>3, <1>4, <1>5, <1>6 DEF Next

(* Every state of the session store is well typed: approvals, expiries and    *)
(* the evicted belong to sessions in the store.                               *)
THEOREM SessionsTypeCorrect == Spec => []TypeOK
<1>1. Init => TypeOK
  BY DEF Init, TypeOK
<1> QED
  BY <1>1, TypeStep, PTL DEF Spec

-------------------------------------------------------------------------------
(* The three invariants are inductive together with the types. *)
IInv == ActiveIsApproved /\ UnansweredAreShown /\ ExcessIsApproved

(* Removal, of whatever sessions, keeps them. *)
LEMMA WithoutKeepsIInv ==
  ASSUME TypeOK, IInv, NEW S, Without(S), UNCHANGED created,
         pendingApprovals' = pendingApprovals \/ sessions' = {}
  PROVE  IInv'
<1> USE DEF IInv, Without
<1>1. ActiveIsApproved'
  BY DEF ActiveIsApproved
<1>2. UnansweredAreShown'
  BY DEF UnansweredAreShown, TypeOK
<1>3. ExcessIsApproved'
  <2>1. /\ Cardinality(sessions') <= Cardinality(sessions)
        /\ Cardinality(sessions') \in Nat
    BY StoreIsFinite, FS_Subset, FS_CardinalityType
  <2>2. sessions' \ approved' \subseteq sessions \ approved
    OBVIOUS
  <2> QED
    BY <2>1, <2>2, StoreIsFinite DEF ExcessIsApproved
<1> QED
  BY <1>1, <1>2, <1>3

(* A new session is the only one not approved beyond the limit: below it      *)
(* there is room, at it one goes if one may, above it only one could.         *)
LEMMA CreateKeepsLimit ==
  ASSUME TypeOK, ExcessIsApproved, CreateSessionRequest
  PROVE  ExcessIsApproved'
<1> DEFINE s == created + 1
<1>1. /\ sessions' = (sessions \ Evicted) \cup {s}
      /\ approved' = approved \ Evicted
      /\ created' = s
  BY DEF CreateSessionRequest
<1>2. s \notin sessions /\ s \notin approved
  BY DEF TypeOK
<1>3. sessions' \ approved' = ((sessions \ approved) \ Evicted) \cup {s}
  BY <1>1, <1>2, EvictedIsUnapproved
<1>4. CASE Cardinality(sessions) < MaxSessions
  <2>1. Evicted = {}
    BY <1>4, StoreIsFinite DEF Evicted
  <2>2. Cardinality(sessions') = Cardinality(sessions) + 1
    BY <1>1, <1>2, <2>1, StoreIsFinite, FS_AddElement
  <2> QED
    BY <1>4, <2>2, StoreIsFinite DEF ExcessIsApproved
<1>5. CASE Cardinality(sessions) >= MaxSessions /\ sessions \ approved = {}
  BY <1>1, <1>3, <1>5 DEF ExcessIsApproved
<1>6. CASE Cardinality(sessions) = MaxSessions /\ sessions \ approved # {}
  <2>1. PICK t : Evicted = {t} /\ t \in sessions
    <3>1. \E t \in sessions \ approved : \A u \in sessions \ approved : t <= u
      <4>1. sessions \ approved \in SUBSET Nat
        BY DEF TypeOK
      <4> QED
        BY <1>6, <4>1, LeastElement
    <3> QED
      BY <1>6, <3>1, EvictedIsUnapproved DEF Evicted, Oldest
  <2>2. /\ IsFiniteSet(sessions \ {t})
        /\ Cardinality(sessions \ {t}) = Cardinality(sessions) - 1
    BY <2>1, StoreIsFinite, FS_RemoveElement
  <2>3. /\ sessions' = (sessions \ {t}) \cup {s}
        /\ s \notin sessions \ {t}
    BY <1>1, <1>2, <2>1
  <2> HIDE DEF s
  <2>4. Cardinality(sessions') = Cardinality(sessions \ {t}) + 1
    BY <2>2, <2>3, FS_AddElement
  <2> QED
    BY <1>6, <2>2, <2>4, StoreIsFinite DEF ExcessIsApproved
<1>7. CASE Cardinality(sessions) > MaxSessions /\ sessions \ approved # {}
  <2>1. sessions \ approved = {created}
    BY <1>7 DEF ExcessIsApproved
  <2>2. created \in Evicted
    BY <1>7, <2>1, StoreIsFinite DEF Evicted, Oldest, TypeOK
  <2> QED
    BY <1>1, <1>3, <2>1, <2>2 DEF ExcessIsApproved
<1> QED
  BY <1>4, <1>5, <1>6, <1>7, StoreIsFinite

LEMMA CreateKeepsIInv ==
  ASSUME TypeOK, IInv, CreateSessionRequest
  PROVE  IInv'
<1> DEFINE s == created + 1
<1>1. /\ sessions' = (sessions \ Evicted) \cup {s}
      /\ approved' = approved \ Evicted
      /\ activeSessionId' = IF activeSessionId \in Evicted THEN None ELSE activeSessionId
      /\ pendingApprovals' = pendingApprovals \cup {s}
  BY DEF CreateSessionRequest
<1>2. s \notin sessions /\ s \notin approved
  BY DEF TypeOK
<1> HIDE DEF s
<1>3. ActiveIsApproved'
  BY <1>1 DEF IInv, ActiveIsApproved
<1>4. UnansweredAreShown'
  BY <1>1, <1>2, EvictedIsUnapproved DEF IInv, UnansweredAreShown
<1>5. ExcessIsApproved'
  BY CreateKeepsLimit DEF IInv
<1> QED
  BY <1>3, <1>4, <1>5 DEF IInv

LEMMA StepKeepsIInv == TypeOK /\ IInv /\ [Next]_vars => IInv'
<1> SUFFICES ASSUME TypeOK, IInv, [Next]_vars PROVE IInv'
  OBVIOUS
<1>1. CASE CreateSessionRequest
  BY <1>1, CreateKeepsIInv
<1>2. ASSUME NEW s \in Ids, SessionStep(s) PROVE IInv'
  <2>1. CASE ApproveSession(s)
    BY <2>1 DEF ApproveSession, IInv, ActiveIsApproved, UnansweredAreShown,
                ExcessIsApproved, TypeOK
  <2>2. CASE ApproveExpired(s) \/ RejectSession(s)
    BY <2>2, WithoutKeepsIInv DEF ApproveExpired, RejectSession
  <2>3. CASE SwitchToSession(s)
    BY <2>3 DEF SwitchToSession, IInv, ActiveIsApproved, UnansweredAreShown,
                ExcessIsApproved
  <2> QED
    BY <1>2, <2>1, <2>2, <2>3 DEF SessionStep
<1>3. CASE Cleanup \/ Disconnect
  BY <1>3, WithoutKeepsIInv DEF Cleanup, Disconnect
<1>4. CASE Destroy \/ Reload
  <2>1. Without(sessions) /\ sessions' = {} /\ UNCHANGED created
    BY <1>4 DEF Destroy, Reload, Emptied, Without
  <2> QED
    BY <2>1, WithoutKeepsIInv
<1>5. CASE Initialize \/ TimePasses \/ UNCHANGED vars
  BY <1>5 DEF Initialize, TimePasses, vars, IInv, ActiveIsApproved,
              UnansweredAreShown, ExcessIsApproved
<1> QED
  BY <1>1, <1>2, <1>3, <1>4, <1>5 DEF Next

LEMMA AlwaysIInv == Spec => []IInv
<1>1. Init => IInv
  <2>1. ASSUME Init PROVE Cardinality(sessions) = 0
    BY <2>1, FS_EmptySet DEF Init
  <2> QED
    BY <2>1 DEF Init, IInv, ActiveIsApproved, UnansweredAreShown, ExcessIsApproved
<1> QED
  BY <1>1, StepKeepsIInv, SessionsTypeCorrect, PTL DEF Spec

(* The active session is in the store and the user approved it, through any   *)
(* rejection, eviction, expiry, disconnect, destroy and reload.               *)
THEOREM ActiveSessionIsApproved == Spec => []ActiveIsApproved
BY AlwaysIInv, PTL DEF IInv

(* The sessions shown for approval are exactly those not answered, although   *)
(* ids of removed sessions stay among the pending ones.                       *)
THEOREM ShownAreTheUnanswered == Spec => []UnansweredAreShown
BY AlwaysIInv, PTL DEF IInv

(* Beyond maxSessions every session is approved, but perhaps the newest.      *)
THEOREM OnlyUseExceedsTheLimit == Spec => []ExcessIsApproved
BY AlwaysIInv, PTL DEF IInv

(* Creating a session never takes one that is in use out of the store.        *)
THEOREM CreationSparesApproved == Spec => NewSparesApproved
<1>1. TypeOK /\ [Next]_vars => [created' # created => approved \subseteq approved']_vars
  <2> SUFFICES ASSUME TypeOK, Next, created' # created
               PROVE  approved \subseteq approved'
    OBVIOUS
  <2>1. CreateSessionRequest
    BY DEF Next, SessionStep, ApproveSession, ApproveExpired, RejectSession,
           SwitchToSession, Cleanup, Disconnect, Destroy, Initialize, Reload,
           TimePasses
  <2> QED
    BY <2>1, EvictedIsUnapproved DEF CreateSessionRequest
<1> QED
  BY <1>1, SessionsTypeCorrect, PTL DEF Spec, NewSparesApproved
===============================================================================
