------------------------ MODULE MCPrivyAAIntegration --------------------------
(* Instances of PrivyAAIntegration for TLC: a context with a session key that *)
(* asks for account abstraction, another key of the same wallet, two runs     *)
(* through the bundler and one without it on the context, two transactions    *)
(* that fit into the batch together.                                          *)
EXTENDS PrivyAAIntegration, TLC

CONSTANTS c1, k2, w1, x1, x2, r1, r2, r3

MCWalletOf == [k \in {c1, k2} |-> w1]
MCContextOf == [call \in Transactions \cup Runs |-> c1]
MCUseAA == {c1, r1, r2}

Symmetry == Permutations(Transactions) \cup Permutations({r1, r2})
===============================================================================
