---------------------------- MODULE MCSigningQueue ----------------------------
(* Instances of SigningQueue for TLC: one request more than the queue holds. *)
EXTENDS SigningQueue

CONSTANTS r1, r2, r3

MCRequests == {r1, r2, r3}
===============================================================================
