------------------------------ MODULE MCRoutes ------------------------------
(* The instance of Routes that TLC checks. *)
EXTENDS Routes
=============================================================================
