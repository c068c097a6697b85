----------------------------- MODULE SessionManager ---------------------------
(***************************************************************************)
(* SessionManager over the session part of sessionStore.ts, as             *)
(* ReOwnWalletManager and ReownAdapter call it (packages/wallet-core/src/  *)
(* connectivity/reown_disabled).                                           *)
(*                                                                         *)
(* Ids are fresh, so a session is named by its place in the order of       *)
(* creation, by which the code finds the oldest.  isApproved and isActive  *)
(* are set together and never reset, so one set stands for both.  All      *)
(* sessions live equally long and therefore expire in that order too.      *)
(*                                                                         *)
(* The storage handed to createJSONStorage gives and takes objects where   *)
(* zustand's middleware, which is external, reads and writes strings: each *)
(* write is refused, so that after a reload the store is empty.            *)
(***************************************************************************)
EXTENDS Naturals, FiniteSets

CONSTANTS
  MaxSessions,   \* config.maxSessions
  MaxCreated     \* bound: sessions ever created

ASSUME MaxAssumption == MaxSessions \in Nat \ {0}
ASSUME BoundAssumption == MaxCreated \in Nat

VARIABLES
  sessions,          \* the sessions in the store
  approved,          \* sessions in the store with isApproved and isActive
  expired,           \* sessions in the store whose expiresAt has passed
  activeSessionId,
  pendingApprovals,
  timer,             \* cleanupTimer
  created            \* how many sessions were created

vars == <<sessions, approved, expired, activeSessionId, pendingApprovals, timer, created>>

Ids == 1..MaxCreated
None == 0   \* null

Init ==
  /\ sessions = {}
  /\ approved = {}
  /\ expired = {}
  /\ activeSessionId = None
  /\ pendingApprovals = {}
  /\ timer = TRUE
  /\ created = 0

-------------------------------------------------------------------------------
(* Mutant: the id of the active session is forgotten to be cleared. *)
Without_StillActive(S) ==
  /\ sessions' = sessions \ S
  /\ approved' = approved \ S
  /\ expired' = expired \ S
  /\ UNCHANGED activeSessionId

(* Mutant: approvals outlive their sessions. *)
Without_KeepsApproval(S) ==
  /\ sessions' = sessions \ S
  /\ expired' = expired \ S
  /\ activeSessionId' = IF activeSessionId \in S THEN None ELSE activeSessionId
  /\ UNCHANGED approved

(* The store's removeSession, for the sessions in S; their ids stay among the *)
(* pending approvals.                                                         *)
Without(S) ==
  /\ sessions' = sessions \ S
  /\ approved' = approved \ S
  /\ expired' = expired \ S
  /\ activeSessionId' = IF activeSessionId \in S THEN None ELSE activeSessionId

(* The store's reset, and what a reload leaves. *)
Emptied ==
  /\ Without(sessions)
  /\ pendingApprovals' = {}

Oldest(S) == {s \in S : \A t \in S : s <= t}

(* Mutant: whatever is oldest makes room. *)
Evicted_Oldest ==
  IF Cardinality(sessions) >= MaxSessions THEN Oldest(sessions) ELSE {}

(* Mutant: only what has expired makes room. *)
Evicted_Expired ==
  IF Cardinality(sessions) >= MaxSessions THEN Oldest(expired \ approved) ELSE {}

(* With maxSessions in the store its oldest inactive one, if any, makes room. *)
Evicted ==
  IF Cardinality(sessions) >= MaxSessions THEN Oldest(sessions \ approved) ELSE {}

(* createSessionRequest: createSession and requestApproval. *)
CreateSessionRequest ==
  LET s == created + 1
  IN  /\ created < MaxCreated
      /\ created' = s
      /\ sessions' = (sessions \ Evicted) \cup {s}
      /\ approved' = approved \ Evicted
      /\ expired' = expired \ Evicted
      /\ activeSessionId' = IF activeSessionId \in Evicted THEN None ELSE activeSessionId
      /\ pendingApprovals' = pendingApprovals \cup {s}
      /\ UNCHANGED timer

(* Mutant: the answered session stays among the pending ones. *)
ApproveSession_StillPending(s) ==
  /\ s \in sessions \ expired
  /\ approved' = approved \cup {s}
  /\ UNCHANGED <<sessions, expired, activeSessionId, pendingApprovals, timer, created>>

ApproveSession(s) ==
  /\ s \in sessions \ expired
  /\ approved' = approved \cup {s}
  /\ pendingApprovals' = pendingApprovals \ {s}
  /\ UNCHANGED <<sessions, expired, activeSessionId, timer, created>>

ApproveExpired(s) ==
  /\ s \in sessions \cap expired
  /\ Without({s})
  /\ UNCHANGED <<pendingApprovals, timer, created>>

RejectSession(s) ==
  /\ s \in sessions
  /\ Without({s})
  /\ UNCHANGED <<pendingApprovals, timer, created>>

SwitchToSession(s) ==
  /\ s \in sessions /\ s \in approved
  /\ activeSessionId' = s
  /\ UNCHANGED <<sessions, approved, expired, pendingApprovals, timer, created>>

(* Mutant: sessions in use are spared. *)
Cleanup_Unapproved ==
  /\ Without(expired \ approved)
  /\ UNCHANGED <<pendingApprovals, timer, created>>

Cleanup ==
  /\ Without(expired)
  /\ UNCHANGED <<pendingApprovals, timer, created>>

(* ReownAdapter's disconnect removes every session. *)
Disconnect ==
  /\ Without(sessions)
  /\ UNCHANGED <<pendingApprovals, timer, created>>

(* ReOwnWalletManager's destroy: reset stops the cleanup for good ... *)
Destroy ==
  /\ Emptied
  /\ timer' = FALSE
  /\ UNCHANGED created

(* ... until a manager is made again, over whatever the store holds. *)
Initialize ==
  /\ timer' = TRUE
  /\ UNCHANGED <<sessions, approved, expired, activeSessionId, pendingApprovals, created>>

Reload ==
  /\ Emptied
  /\ timer' = TRUE
  /\ UNCHANGED created

TimePasses ==
  /\ \E s \in Oldest(sessions \ expired) : expired' = expired \cup {s}
  /\ UNCHANGED <<sessions, approved, activeSessionId, pendingApprovals, timer, created>>

SessionStep(s) ==
  \/ ApproveSession(s) \/ ApproveExpired(s)
  \/ RejectSession(s)
  \/ SwitchToSession(s)

Next ==
  \/ CreateSessionRequest
  \/ \E s \in Ids : SessionStep(s)
  \/ Cleanup \/ Disconnect
  \/ Destroy \/ Initialize \/ Reload
  \/ TimePasses

Spec == Init /\ [][Next]_vars

(* The cleanup interval fires while it is set. *)
FairSpec == Spec /\ WF_vars(timer /\ Cleanup)

-------------------------------------------------------------------------------
TypeOK ==
  /\ created \in 0..MaxCreated
  /\ sessions \subseteq 1..created
  /\ approved \subseteq sessions /\ expired \subseteq sessions
  /\ activeSessionId \in Ids \cup {None}
  /\ pendingApprovals \subseteq 1..created
  /\ timer \in BOOLEAN

(* Whatever was rejected, evicted, expired or reset in between, the active    *)
(* session is in the store and the user approved it.                          *)
ActiveIsApproved == activeSessionId # None => activeSessionId \in approved

(* Nothing but approval and reset takes an id from pendingApprovals; still    *)
(* what getPendingApprovals shows the user are exactly the sessions in the    *)
(* store that were not answered.                                              *)
UnansweredAreShown == pendingApprovals \cap sessions = sessions \ approved

(* The store exceeds maxSessions only by sessions in use: of more than        *)
(* maxSessions at most one, the newest, is not approved.                      *)
ExcessIsApproved ==
  Cardinality(sessions) > MaxSessions => sessions \ approved \subseteq {created}

(* A new session never costs one that is in use.                              *)
NewSparesApproved == [][created' # created => approved \subseteq approved']_vars

(* A session that is expired while the interval is set leaves the store, in   *)
(* use or not, whatever is created, approved and evicted before the interval  *)
(* fires, and also if a destroy or a reload stops that interval meanwhile.    *)
ExpiredLeave ==
  \A s \in Ids : (timer /\ s \in expired) ~> (s \notin sessions)
===============================================================================
