-------------------------- MODULE MCReentrancyCheck --------------------------
(* The instance of ReentrancyCheck that TLC checks. *)
EXTENDS ReentrancyCheck
=============================================================================
