------------------------- MODULE MCEnterpriseMultiSig -------------------------
(* Instances of EnterpriseMultiSig for TLC: lists of two entries, equal ones  *)
(* included, two transactions and two executions.                             *)
EXTENDS EnterpriseMultiSig

CONSTANTS d1

MCSignerLists == Signers \X Signers
Symmetry == Permutations(Signers) \cup Permutations(Executors) \cup Permutations(Txs)
===============================================================================
