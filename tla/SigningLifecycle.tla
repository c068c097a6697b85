--------------------------- MODULE SigningLifecycle ---------------------------
(* What the signing queue promises about the requests handed to it: a request *)
(* waits for an answer, with at most Capacity requests waiting; an answer is  *)
(* final in the sense that only a waiting request can be signed or rejected;  *)
(* later reports of the network replace each other freely; every request is   *)
(* answered, or reported on, or forgotten in the end.                         *)
EXTENDS Naturals, FiniteSets

CONSTANTS Requests, Capacity

VARIABLE status

Answers == {"signed", "rejected"}
Reports == {"broadcasted", "confirmed", "failed"}
Known == {"pending"} \cup Answers \cup Reports

Init == status = [r \in Requests |-> "absent"]

Enter(r) ==
  /\ status[r] = "absent"
  /\ Cardinality({q \in Requests : status[q] = "pending"}) < Capacity
  /\ status' = [status EXCEPT ![r] = "pending"]

Answer(r) ==
  /\ status[r] = "pending"
  /\ \E s \in Answers : status' = [status EXCEPT ![r] = s]

Report(r) ==
  /\ status[r] \in Known
  /\ \E s \in Reports : status' = [status EXCEPT ![r] = s]

Forget(S) ==
  /\ \A r \in S : status[r] \in Known
  /\ status' = [r \in Requests |-> IF r \in S THEN "removed" ELSE status[r]]

Next ==
  \/ \E r \in Requests : Enter(r) \/ Answer(r) \/ Report(r)
  \/ \E S \in SUBSET Requests : Forget(S)

Spec == Init /\ [][Next]_status

FairSpec == Spec /\ \A r \in Requests : WF_status(Answer(r))
===============================================================================
