----------------------------- MODULE MCQccSetup -----------------------------
(* The instance of QccSetup that TLC checks. *)
EXTENDS QccSetup
=============================================================================
