---------------------------- MODULE MCSessionKeys -----------------------------
(* Instances of SessionKeys for TLC: two keys of one wallet, one of another. *)
EXTENDS SessionKeys, TLC

CONSTANTS k1, k2, k3, w1, w2

MCKeys == {k1, k2, k3}
MCWallets == {w1, w2}
MCWalletOf == (k1 :> w1) @@ (k2 :> w1) @@ (k3 :> w2)
===============================================================================
