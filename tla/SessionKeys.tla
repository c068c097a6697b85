------------------------------ MODULE SessionKeys ------------------------------
(***************************************************************************)
(* SessionKeyService (packages/wallet-core/src/services/session-keys.ts):  *)
(* keys that act for a wallet until they expire, are suspended or revoked, *)
(* in two maps, sessionKeys and sessionsByWallet.                          *)
(*                                                                         *)
(* A key is named before createSessionKey knows anything else of it: its   *)
(* id is the first thing the object literal evaluates.  Expiry is a fact   *)
(* about the clock that nothing undoes; no call writes it down, the calls  *)
(* that look at a key find it and revoke.  Nonces, permissions and         *)
(* policies are left out: nothing here decides by them but validation,     *)
(* whose policy awaits PrivyAAIntegration models.                          *)
(***************************************************************************)

CONSTANTS
  Keys, Wallets,
  WalletOf     \* the wallet named in the request for the key

ASSUME WalletOfAssumption == WalletOf \in [Keys -> Wallets]

VARIABLES
  status,      \* of the key in sessionKeys; "creating" while createSessionKey awaits
  revokedAt,   \* keys whose revokedAt is set
  byWallet,    \* sessionsByWallet, no entry being the empty set
  expired      \* keys whose expiresAt has passed

keyVars == <<status, revokedAt, byWallet, expired>>

Statuses == {"active", "suspended", "revoked"}

Known(k) == status[k] \in Statuses

KeysInit ==
  /\ status = [k \in Keys |-> "none"]
  /\ revokedAt = {}
  /\ byWallet = [w \in Wallets |-> {}]
  /\ expired = {}

(* createSessionKey up to its awaits; a duration may be negative, so that the *)
(* key is expired from the start.  Too long a duration throws, nothing done.  *)
CreateSessionKey(k) ==
  /\ status[k] = "none"
  /\ status' = [status EXCEPT ![k] = "creating"]
  /\ \/ UNCHANGED expired
     \/ expired' = expired \cup {k}
  /\ UNCHANGED <<revokedAt, byWallet>>

(* After the awaits: both maps, in one go. *)
KeyIsCreated(k) ==
  /\ status[k] = "creating"
  /\ status' = [status EXCEPT ![k] = "active"]
  /\ byWallet' = [byWallet EXCEPT ![WalletOf[k]] = @ \cup {k}]
  /\ UNCHANGED <<revokedAt, expired>>

(* The clock passes expiresAt. *)
Expires(k) ==
  /\ status[k] # "none"
  /\ k \notin expired
  /\ expired' = expired \cup {k}
  /\ UNCHANGED <<status, revokedAt, byWallet>>

(* revokeSessionKey for every key of S, all of them known. *)
Revoke(S) ==
  /\ status' = [k \in Keys |-> IF k \in S THEN "revoked" ELSE status[k]]
  /\ revokedAt' = revokedAt \cup S
  /\ byWallet' = [w \in Wallets |-> byWallet[w] \ S]
  /\ UNCHANGED expired

RevokeSessionKey(k) == Known(k) /\ Revoke({k})

(* Deleting from a Set that is being iterated over skips nothing. *)
RevokeAllSessionKeysForWallet(w) == Revoke(byWallet[w])

(* getSessionKey, and validateSessionKey with a key that is expired, revoke   *)
(* it; for any other key they change nothing.                                 *)
GetExpiredKey(k) == Known(k) /\ k \in expired /\ Revoke({k})

(* getSessionKeysForWallet and getActiveSessionKeysForWallet do the same for  *)
(* the expired keys of the wallet.                                            *)
GetSessionKeysForWallet(w) ==
  /\ byWallet[w] \cap expired # {}
  /\ Revoke(byWallet[w] \cap expired)

(* Any key, whatever its status. *)
SuspendSessionKey(k) ==
  /\ Known(k)
  /\ status' = [status EXCEPT ![k] = "suspended"]
  /\ UNCHANGED <<revokedAt, byWallet, expired>>

ResumeSessionKey(k) ==
  /\ status[k] = "suspended"
  /\ k \notin expired
  /\ status' = [status EXCEPT ![k] = "active"]
  /\ UNCHANGED <<revokedAt, byWallet, expired>>

(* The verdict of validateSessionKey before it looks at permissions and       *)
(* policies.                                                                  *)
Usable(k) == status[k] = "active" /\ k \notin expired

KeyCall(k) ==
  \/ CreateSessionKey(k) \/ KeyIsCreated(k)
  \/ Expires(k)
  \/ RevokeSessionKey(k)
  \/ GetExpiredKey(k)
  \/ SuspendSessionKey(k) \/ ResumeSessionKey(k)

KeysNext ==
  \/ \E k \in Keys : KeyCall(k)
  \/ \E w \in Wallets :
       RevokeAllSessionKeysForWallet(w) \/ GetSessionKeysForWallet(w)

KeysSpec == KeysInit /\ [][KeysNext]_keyVars

-------------------------------------------------------------------------------
KeysTypeOK ==
  /\ status \in [Keys -> Statuses \cup {"none", "creating"}]
  /\ revokedAt \subseteq Keys
  /\ byWallet \in [Wallets -> SUBSET Keys]
  /\ expired \subseteq Keys

(* The two maps agree: a wallet's set holds exactly its keys that were never  *)
(* revoked, suspended and expired ones included.  This is what makes          *)
(* revokeAllSessionKeysForWallet reach every key it has to.                   *)
IndexHoldsTheUnrevoked ==
  \A w \in Wallets :
    byWallet[w] = {k \in Keys : WalletOf[k] = w /\ Known(k) /\ k \notin revokedAt}

(* The comment's promise for revokeAllSessionKeysForWallet, 'Revoke all       *)
(* session keys for a wallet': after it the wallet has no active key.         *)
RevokeAllLeavesNoneActive ==
  [][\A w \in Wallets :
       RevokeAllSessionKeysForWallet(w)
         => \A k \in Keys : WalletOf[k] = w => status'[k] # "active"]_keyVars
===============================================================================
