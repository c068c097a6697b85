---------------------------- MODULE MCReownAdapter ----------------------------
(* Instances of ReownAdapter for TLC. *)
EXTENDS ReownAdapter
===============================================================================
