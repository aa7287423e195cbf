----------------------------- MODULE AgentPromise -----------------------------
(***************************************************************************)
(* What the agents of the nodes promise to the rest of the system.         *)
(*                                                                         *)
(* An agent fetches the target state the state API serves its node; it     *)
(* starts MariaDB only on a target state that tells it to, one process at  *)
(* a time, with the addresses that target state lists; it touches the      *)
(* prepared flag only after a start; and a heartbeat says of its node no   *)
(* more than that flag and Galera do.  Everything else an agent does -     *)
(* cached heartbeats, files that are compared and written, locks, failures *)
(* on the way - shows only as a reconcile that gives up or a MariaDB that  *)
(* ends.                                                                   *)
(***************************************************************************)
CONSTANTS
  Node,   \* the nodes whose agents are meant
  List,   \* lists of incoming addresses
  None    \* nothing fetched, nothing running, nothing sent

VARIABLES
  served,    \* the target state served each node: none (404) or one
  task,      \* the target state the agent is reconciling
  launched,  \* whether this reconcile has started MariaDB
  running,   \* the list of addresses MariaDB runs with
  prepared,  \* the prepared flag
  report     \* the heartbeat on its way to the state API

agents == <<task, launched, running, prepared, report>>

Target == [role : {"primary", "secondary"}, started : BOOLEAN,
           newCluster : BOOLEAN, incoming : List]

Report == [prepared : BOOLEAN, wsrep : {"Primary", "other"}]

Init ==
  /\ served \in [Node -> SUBSET Target]
  /\ task = [n \in Node |-> None]
  /\ launched = [n \in Node |-> FALSE]
  /\ running = [n \in Node |-> None]
  /\ prepared = [n \in Node |-> FALSE]
  /\ report = [n \in Node |-> None]

\* Mutant: a secondary is joined whether or not it may start.
ActsOnRole(t) == \/ t.role = "primary" /\ t.newCluster
                 \/ t.role = "secondary"

\* The target states an agent starts MariaDB on: a primary that is to bootstrap,
\* a secondary that may start.
Acts(t) == \/ t.role = "primary" /\ t.newCluster
           \/ t.role = "secondary" /\ t.started

Fetch(n) ==
  /\ task[n] = None
  /\ \E t \in served[n] : task' = [task EXCEPT ![n] = t]
  /\ UNCHANGED <<launched, running, prepared, report>>

\* The reconcile ends without a start: nothing is to be done, or something failed.
GiveUp(n) ==
  /\ task[n] # None
  /\ ~launched[n]
  /\ task' = [task EXCEPT ![n] = None]
  /\ UNCHANGED <<launched, running, prepared, report>>

Launch(n) ==
  /\ task[n] # None
  /\ Acts(task[n])
  /\ ~launched[n]
  /\ running[n] = None
  /\ running' = [running EXCEPT ![n] = task[n].incoming]
  /\ launched' = [launched EXCEPT ![n] = TRUE]
  /\ UNCHANGED <<task, prepared, report>>

\* The reconcile ends after a start, with the flag touched unless that failed.
Finish(n) ==
  /\ launched[n]
  /\ \E p \in {TRUE, prepared[n]} : prepared' = [prepared EXCEPT ![n] = p]
  /\ task' = [task EXCEPT ![n] = None]
  /\ launched' = [launched EXCEPT ![n] = FALSE]
  /\ UNCHANGED <<running, report>>

\* MariaDB ends, of itself or because a restart is due.
End(n) ==
  /\ running[n] # None
  /\ running' = [running EXCEPT ![n] = None]
  /\ UNCHANGED <<task, launched, prepared, report>>

\* A collection reads the flag, which may be set meanwhile, and asks Galera, which
\* answers only if MariaDB runs.
Collect(n) ==
  /\ report[n] = None
  /\ \E p \in {FALSE, prepared[n]},
        w \in {"other"} \cup {x \in {"Primary"} : running[n] # None} :
       report' = [report EXCEPT ![n] = [prepared |-> p, wsrep |-> w]]
  /\ UNCHANGED <<task, launched, running, prepared>>

\* The heartbeat is received, or lost: the agent does not send it again.
Send(n) ==
  /\ report[n] # None
  /\ report' = [report EXCEPT ![n] = None]
  /\ UNCHANGED <<task, launched, running, prepared>>

\* The container starts again, on its files or on those of the image.  A heartbeat
\* already sent may still arrive.
Die(n) ==
  /\ task' = [task EXCEPT ![n] = None]
  /\ launched' = [launched EXCEPT ![n] = FALSE]
  /\ running' = [running EXCEPT ![n] = None]
  /\ \E p \in {FALSE, prepared[n]} : prepared' = [prepared EXCEPT ![n] = p]
  /\ \E r \in {None, report[n]} : report' = [report EXCEPT ![n] = r]

AgentStep(n) ==
  \/ Fetch(n) \/ GiveUp(n) \/ Launch(n) \/ Finish(n) \/ End(n)
  \/ Collect(n) \/ Send(n) \/ Die(n)

\* The environment serves target states of one role to a node.
Serve ==
  /\ served' \in [Node -> SUBSET Target]
  /\ \A n \in Node : \A t \in served[n], u \in served'[n] : t.role = u.role

Next ==
  \/ (\E n \in Node : AgentStep(n)) /\ UNCHANGED served
  \/ Serve /\ UNCHANGED agents

Spec == Init /\ [][Next]_<<served, agents>>
==============================================================================
