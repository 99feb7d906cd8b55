--------------------------- MODULE MCRegistration ---------------------------
(* The instance of Registration that TLC checks. *)
EXTENDS Registration
=============================================================================
