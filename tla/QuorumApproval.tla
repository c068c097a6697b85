---------------------------- MODULE QuorumApproval ----------------------------
(***************************************************************************)
(* What a k-of-n approval promises, whatever becomes of the policy that    *)
(* started it: a matter passes when enough different voters are for it,    *)
(* only one that passed is begun, only one that was begun is performed,    *)
(* and one performed stays so.  A refusal stops whatever is not under way; *)
(* a performance that is under way may still end in spite of it.           *)
(***************************************************************************)
EXTENDS Naturals, FiniteSets

CONSTANTS Matters, Voters

VARIABLES
  state,   \* of each matter
  votes,   \* voters for it
  need,    \* how many it needs
  underway \* matters whose performance was begun and has not ended

vars == <<state, votes, need, underway>>

Init ==
  /\ state = [m \in Matters |-> "none"]
  /\ votes = [m \in Matters |-> {}]
  /\ need = [m \in Matters |-> 0]
  /\ underway = {}

Open(m) ==
  /\ state[m] = "none"
  /\ state' = [state EXCEPT ![m] = "pending"]
  /\ need' \in [Matters -> Nat]
  /\ \A n \in Matters \ {m} : need'[n] = need[n]
  /\ UNCHANGED <<votes, underway>>

Vote(m, v) ==
  /\ state[m] = "pending"
  /\ votes' = [votes EXCEPT ![m] = @ \cup {v}]
  /\ state' = [state EXCEPT ![m] =
                 IF Cardinality(votes'[m]) >= need[m] THEN "approved" ELSE @]
  /\ UNCHANGED <<need, underway>>

Refuse(m) ==
  /\ state[m] \in {"pending", "approved"}
  /\ state' = [state EXCEPT ![m] = "rejected"]
  /\ UNCHANGED <<votes, need, underway>>

Begin(m) ==
  /\ state[m] = "approved"
  /\ underway' = underway \cup {m}
  /\ UNCHANGED <<state, votes, need>>

(* A matter may be under way several times over, so that it need not leave    *)
(* underway when one performance ends, or is given up.                        *)
Ends(m) ==
  /\ m \in underway
  /\ underway' \in {underway, underway \ {m}}

Perform(m) ==
  /\ Ends(m)
  /\ state' = [state EXCEPT ![m] = "executed"]
  /\ UNCHANGED <<votes, need>>

GiveUp(m) ==
  /\ Ends(m)
  /\ UNCHANGED <<state, votes, need>>

Next ==
  \E m \in Matters :
    \/ Open(m) \/ Refuse(m)
    \/ Begin(m) \/ Perform(m) \/ GiveUp(m)
    \/ \E v \in Voters : Vote(m, v)

Spec == Init /\ [][Next]_vars
===============================================================================
