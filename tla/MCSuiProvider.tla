---------------------------- MODULE MCSuiProvider -----------------------------
(* Instances of SuiProvider for TLC. *)
EXTENDS SuiProvider, TLC

(* The constructor's rate, none, and a faster one. *)
MCRates == <<2, 0, 3>>

Symmetry == Permutations(Calls)
===============================================================================
