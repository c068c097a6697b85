----------------------------- MODULE MCRPCManager -----------------------------
(* Instances of RPCManager for TLC.  Failover: two providers, one request per *)
(* window from the first and two from the second.  Reregister: one provider   *)
(* name, registered by two configuration objects.                             *)
EXTENDS RPCManager, TLC

CONSTANTS e1, e2, A, B

FailoverIdOf == e1 :> A @@ e2 :> B
ReregisterIdOf == e1 :> A @@ e2 :> A
MCRank == e1 :> 1 @@ e2 :> 2
MCRateLimit == e1 :> 1 @@ e2 :> 2

Symmetry == Permutations(Callers)
===============================================================================
