------------------------------ MODULE TaskManager ------------------------------
(***************************************************************************)
(* The agent's task manager with its task handler and the bootstrap task:  *)
(* every iteration asks the server for a task, puts a built-in one in its  *)
(* place and handles that.  No main starts it yet; it is modelled with the *)
(* agent's container around it, as the reconciling loop is in Agent.       *)
(*                                                                         *)
(* The built-in task is always the same and the agent's address does not   *)
(* change, so galera.cnf is right or it is not.                            *)
(***************************************************************************)
CONSTANTS
  Task,     \* tasks the server may hand out
  BuiltIn,  \* the task RunForever makes itself
  NoTask    \* no content, or a request that failed

ASSUME TaskAssumption == BuiltIn \notin Task /\ NoTask \notin Task /\ BuiltIn # NoTask

VARIABLES
  pc,       \* the loop: "waiting" for the ticker, "fetched", "executing",
            \* "stopping" and "starting" MariaDB
  fetched,  \* what the server answered
  handled,  \* the task handled last
  conf,     \* galera.cnf: "none", "torn" by a write that failed, "right"
  alive,    \* whether a MariaDB process runs
  asked,    \* whether it was sent SIGTERM
  status,   \* the status MariaDBManager publishes
  started   \* history: MariaDB was started since the files exist

mariadb == <<alive, asked, status, started>>
vars == <<pc, fetched, handled, conf, mariadb>>

TypeOK ==
  /\ pc \in {"waiting", "fetched", "executing", "stopping", "starting"}
  /\ fetched \in Task \cup {NoTask}
  /\ handled \in {BuiltIn, NoTask}
  /\ conf \in {"none", "torn", "right"}
  /\ alive \in BOOLEAN
  /\ asked \in BOOLEAN
  /\ status \in {"unknown", "running", "stopped"}
  /\ started \in BOOLEAN

Init ==
  /\ pc = "waiting" /\ fetched = NoTask /\ handled = NoTask
  /\ conf = "none"
  /\ alive = FALSE /\ asked = FALSE /\ status = "unknown" /\ started = FALSE

-------------------------------------------------------------------------------
(* An iteration.                                                           *)

\* GetNextTask: the answer is 200, 204, something else or none at all.
GetNextTask(t) ==
  /\ pc = "waiting"
  /\ fetched' = t
  /\ pc' = "fetched"
  /\ UNCHANGED <<handled, conf, mariadb>>

\* Whatever was fetched, the built-in task is handled; its name is known.
Handle ==
  /\ pc = "fetched"
  /\ handled' = BuiltIn
  /\ pc' = "executing"
  /\ UNCHANGED <<fetched, conf, mariadb>>

\* Mutant: Execute does not ask whether a restart is needed.
LeaveConfRestarts ==
  /\ pc = "executing"
  /\ conf = "right"
  /\ pc' = "stopping"
  /\ UNCHANGED <<fetched, handled, conf, mariadb>>

\* Mutant: a file that exists is taken for the right one.
LeaveAnyConf ==
  /\ pc = "executing"
  /\ conf # "none"
  /\ pc' = "waiting"
  /\ UNCHANGED <<fetched, handled, conf, mariadb>>

\* The hashes are equal: there is nothing to do.
LeaveConf ==
  /\ pc = "executing"
  /\ conf = "right"
  /\ pc' = "waiting"
  /\ UNCHANGED <<fetched, handled, conf, mariadb>>

\* Mutant: the file is written after it was compared with nothing.
RewriteAlways ==
  /\ pc = "executing"
  /\ conf' = "right"
  /\ pc' = "stopping"
  /\ UNCHANGED <<fetched, handled, mariadb>>

RewriteConf ==
  /\ pc = "executing"
  /\ conf # "right"
  /\ conf' = "right"
  /\ pc' = "stopping"
  /\ UNCHANGED <<fetched, handled, mariadb>>

\* ConfigureGalera fails: on the address, on reading or on writing the file.
\* Handle logs the error and forgets it.
ConfFails ==
  /\ pc = "executing"
  /\ conf' \in {conf} \cup {c \in {"torn"} : conf # "right"}
  /\ pc' = "waiting"
  /\ UNCHANGED <<fetched, handled, mariadb>>

StopMariaDB ==
  /\ pc = "stopping"
  /\ asked' = (asked \/ (alive /\ status = "running"))
  /\ pc' = "starting"
  /\ UNCHANGED <<fetched, handled, conf, alive, status, started>>

\* RunMariaDB with --wsrep-new-cluster.  It fails only by ending the agent
\* (AgentDies): it is the first of this process, so the finalizer has no process
\* to wait for.
RunMariaDB ==
  /\ pc = "starting" /\ ~alive /\ status # "running"
  /\ alive' = TRUE /\ asked' = FALSE /\ status' = "running" /\ started' = TRUE
  /\ pc' = "waiting"
  /\ UNCHANGED <<fetched, handled, conf>>

-------------------------------------------------------------------------------
(* What surrounds the task manager.                                        *)

MariaDBEnds ==
  /\ alive
  /\ alive' = FALSE
  /\ UNCHANGED <<pc, fetched, handled, conf, asked, status, started>>

PublishEnd ==
  /\ ~alive
  /\ status = "running"
  /\ status' = "stopped"
  /\ UNCHANGED <<pc, fetched, handled, conf, alive, asked, started>>

\* The agent ends, by its context or a crash, and its container with it; that
\* starts again on the same files or on the image's.
AgentDies ==
  /\ pc' = "waiting" /\ fetched' = NoTask /\ handled' = NoTask
  /\ alive' = FALSE /\ asked' = FALSE /\ status' = "unknown"
  /\ \/ UNCHANGED <<conf, started>>
     \/ conf' = "none" /\ started' = FALSE

Next ==
  \/ \E t \in Task \cup {NoTask} : GetNextTask(t)
  \/ Handle
  \/ LeaveConf \/ RewriteConf \/ ConfFails
  \/ StopMariaDB \/ RunMariaDB
  \/ MariaDBEnds \/ PublishEnd
  \/ AgentDies

Spec == Init /\ [][Next]_vars

-------------------------------------------------------------------------------
(* Safety.                                                                 *)

(* A Galera cluster is bootstrapped at most once on the same files, and by *)
(* an agent process that has not run MariaDB before: what StopMariaDB is   *)
(* there to stop never runs, and a failed start always ends the agent      *)
(* (bootstrap.go:32-49, task.go:61-69).                                    *)
BootstrapsOnce ==
  pc \in {"stopping", "starting"} => ~alive /\ ~started /\ status = "unknown"

\* galera.cnf is right, MariaDB does not run and no execution is about to start it.
Down == conf = "right" /\ ~alive /\ pc \notin {"stopping", "starting"}

(* The price: when MariaDB, or the agent before it started MariaDB, has    *)
(* ended, the tasks that go on being handled never start it again until    *)
(* the container is replaced (bootstrap.go:37-39 asks only whether the     *)
(* file was rewritten).                                                    *)
DownForGood == [][Down => Down' \/ conf' = "none"]_vars

-------------------------------------------------------------------------------
(* Liveness.                                                               *)

\* The ticker fires and the loop goes on.
Fairness ==
  /\ WF_vars(\E t \in Task \cup {NoTask} : GetNextTask(t))
  /\ WF_vars(Handle) /\ WF_vars(LeaveConf \/ RewriteConf)
  /\ WF_vars(StopMariaDB) /\ WF_vars(RunMariaDB)

\* From some time on the agent does not die and writing does not fail.
CalmsDown == <>[][~AgentDies /\ (ConfFails => LeaveConf)]_vars

FairSpec == Spec /\ Fairness /\ CalmsDown

(* A galera.cnf that is missing or was cut short becomes right, and        *)
(* nothing is left half done (task.go:51-76).                              *)
Configures == <>[](conf = "right" /\ pc \notin {"stopping", "starting"})
===============================================================================
