---------------------------- MODULE MCSessionManager --------------------------
(* SessionManager on the constants of SessionManager.cfg. *)
EXTENDS SessionManager
===============================================================================
