--------------------------- MODULE ProcessSupervisor ---------------------------
(***************************************************************************)
(* What MariaDBManager promises about the MariaDB processes of an agent    *)
(* and the status it publishes.  A process is started only when none is    *)
(* alive and the end of the one before it has been published; "stopped"    *)
(* is published only when none is alive.                                   *)
(***************************************************************************)
CONSTANT Process  \* process ids

VARIABLES
  alive,   \* the MariaDB processes that run
  status   \* what GetState returns

vars == <<alive, status>>

Init == alive = {} /\ status = "unknown"

\* A process may be started: there is none, and none whose end is to be published.
Free == alive = {} /\ status # "running"

Start(p) ==
  /\ Free
  /\ alive' = {p}
  /\ status' = "running"

End ==
  /\ alive # {}
  /\ alive' = {}
  /\ UNCHANGED status

Publish ==
  /\ alive = {}
  /\ alive' = {}
  /\ status' = "stopped"

\* The agent's container is replaced, and its processes with it.
Replace == alive' = {} /\ status' = "unknown"

Next == (\E p \in Process : Start(p)) \/ End \/ Publish \/ Replace

Spec == Init /\ [][Next]_vars
================================================================================
