----------------------------- MODULE MCService ------------------------------
(* The instance of Service that TLC checks. *)
EXTENDS Service
=============================================================================
