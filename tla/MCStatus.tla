------------------------------- MODULE MCStatus -------------------------------
(* The instance of Status that TLC checks. *)
EXTENDS Status

\* An application that starts later to avoid congestion, and a device that does
\* not; each is the other's default but may be configured.
MCSettings == {[retries |-> FALSE, decongest |-> TRUE, agent |-> FALSE],
               [retries |-> TRUE, decongest |-> FALSE, agent |-> TRUE]}
=============================================================================
