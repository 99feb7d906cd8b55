------------------------------ MODULE Lifecycle -------------------------------
(***************************************************************************)
(* What the states of the service mean to its clients: the life of a       *)
(* session, as the status shows it, where errors end sessions (the         *)
(* application).  Service implements this module.                          *)
(***************************************************************************)

VARIABLES
    state,      \* what the status shows
    stage       \* what goes on: nothing, the setup, the cloud, or its end

vars == <<state, stage>>

States == {"Idle", "Error", "Setup", "Connect", "Cloud"}
Stages == {"none", "setup", "cloud", "closing"}

\* The Switchboard knows of the session.
Online == state \in {"Connect", "Cloud"}

Init == state = "Idle" /\ stage = "none"

\* A session begins with its setup.
Start == stage = "none" /\ stage' = "setup" /\ state' = "Setup"

\* The setup has what the cloud needs: only from here the cloud is entered.
Complete == stage = "setup" /\ stage' = "cloud" /\ UNCHANGED state

\* The setup cannot go on without its user, and still shows.
Halt == stage = "setup" /\ stage' = "none" /\ UNCHANGED state

\* The cloud connects, and loses its connection; until the Switchboard has
\* been told of the end, OpenVPN still runs.
Connect == stage \in {"cloud", "closing"} /\ state' \in {"Connect", "Cloud"} /\ UNCHANGED stage

\* A session ends at once, or when the Switchboard has been told.
Ends == stage' = IF Online THEN "closing" ELSE "none"

\* An error ends what was started; otherwise it is only shown.
Fail == state' = "Error" /\ IF stage \in {"setup", "cloud"} THEN Ends ELSE UNCHANGED stage

\* A stop, and how a session ends that the Switchboard has to be told of: until
\* then nothing begins and nothing else ends it, whatever is shown.
Stop == stage # "closing" /\ Ends /\ state' = IF Online THEN state ELSE "Idle"
Closed == stage = "closing" /\ stage' = "none" /\ state' = "Idle"

Next == Start \/ Complete \/ Halt \/ Connect \/ Fail \/ Stop \/ Closed

Spec == Init /\ [][Next]_vars
=============================================================================
