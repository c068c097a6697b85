------------------------------ MODULE MCAAAccount -----------------------------
(* Instances of AAAccount for TLC: four signers to choose three from, and     *)
(* executions three deep.                                                     *)
EXTENDS AAAccount, TLC

Symmetry == Permutations(Addresses)
===============================================================================
