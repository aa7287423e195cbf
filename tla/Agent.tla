--------------------------------- MODULE Agent ---------------------------------
(***************************************************************************)
(* A node's agent: the loop that fetches the node's target state and       *)
(* reconciles MariaDB with it, the heartbeat collector whose last          *)
(* heartbeat that loop takes for the truth, and the files both use.        *)
(*                                                                         *)
(* MariaDBManager is used through what ProcessSupervisor promises and      *)
(* MariaDBManager is shown to keep: one process at a time, its status      *)
(* "running" until its end is published, a new one only after that.        *)
(* Nothing is checked of that here: the steps of the process and of its    *)
(* status are ProcessSupervisor's.                                         *)
(*                                                                         *)
(* The agent's own address does not change, so galera.cnf is determined by *)
(* the list of addresses in the target state.                              *)
(***************************************************************************)
CONSTANTS
  Peers,    \* lists of incoming addresses, as text: the order counts
  Targets,  \* target states the state API may serve this node
  NoFile,   \* galera.cnf does not exist
  Torn,     \* galera.cnf was cut short by a write that failed
  None      \* no target state, no heartbeat

Target == [role : {"primary", "secondary"}, started : BOOLEAN,
           newCluster : BOOLEAN, incoming : Peers]

ASSUME TargetsAssumption == Targets \subseteq Target
ASSUME ValuesAssumption == NoFile \notin Peers /\ Torn \notin Peers /\ NoFile # Torn

VARIABLES
  served,     \* what the state API serves
  pc,         \* the reconciling loop
  ts,         \* the target state it reconciles
  fact,       \* the heartbeat it took for the truth
  lastState,  \* the collector's last heartbeat
  col,        \* collections under way, by the collector's own loop or by the
              \* reconciling one
  sending,    \* the heartbeat on its way to the state API
  conf,       \* galera.cnf
  prepared,   \* whether the prepared flag file exists
  alive,      \* whether a MariaDB process runs
  asked,      \* whether that process was sent SIGTERM
  status,     \* the status MariaDBManager publishes
  inForce,    \* the galera.cnf the last process was started with
  everStarted,\* history: a process was started since the files exist
  missed      \* history: the agent's last TouchFile failed to set the flag

loop == <<pc, ts, fact>>
collector == <<lastState, col, sending>>
files == <<conf, prepared>>
mariadb == <<alive, asked, status, inForce, everStarted, missed>>
vars == <<served, loop, collector, files, mariadb>>

Collector == {"heartbeat", "reconcile"}
Status == {"unknown", "running", "stopped"}

\* old marks a status that was read before the last process was started.
Fact == [prepared : BOOLEAN, status : Status, old : BOOLEAN]
Collection == [phase : {"idle", "files", "status"}, got : Fact]

\* What a heartbeat says of the node; wsrep is what Galera answered.
Report == [prepared : BOOLEAN, wsrep : {"Primary", "other"}]

ASSUME NoneAssumption == None \notin Targets \cup Fact \cup Report \cup Peers

NoFact == [prepared |-> FALSE, status |-> "unknown", old |-> FALSE]
NoCollection == [w \in Collector |-> [phase |-> "idle", got |-> NoFact]]

TypeOK ==
  /\ served \in Targets
  /\ pc \in {"idle", "fetched", "collected", "stopping", "starting", "started"}
  /\ ts \in Targets \cup {None}
  /\ fact \in Fact \cup {None}
  /\ pc # "idle" => ts # None
  /\ pc \in {"collected", "stopping", "starting", "started"} => fact # None
  /\ lastState \in Fact \cup {None}
  /\ col \in [Collector -> Collection]
  /\ sending \in Report \cup {None}
  /\ conf \in Peers \cup {NoFile, Torn}
  /\ prepared \in BOOLEAN
  /\ alive \in BOOLEAN
  /\ asked \in BOOLEAN
  /\ status \in Status
  /\ inForce \in Peers \cup {NoFile, Torn}
  /\ everStarted \in BOOLEAN
  /\ missed \in BOOLEAN

Init ==
  /\ served \in Targets
  /\ pc = "idle" /\ ts = None /\ fact = None
  /\ lastState = None /\ col = NoCollection /\ sending = None
  /\ conf = NoFile /\ prepared = FALSE
  /\ alive = FALSE /\ asked = FALSE /\ status = "unknown"
  /\ inForce = NoFile /\ everStarted = FALSE /\ missed = FALSE

-------------------------------------------------------------------------------
(* The heartbeat collector.                                                *)

\* A collection starts with the prepared flag.  The collector's own loop does
\* one after another and sends what it collected; the reconciling loop does one
\* only while there is none.
CollectFiles(w) ==
  /\ col[w].phase = "idle"
  /\ w = "heartbeat" => sending = None
  /\ w = "reconcile" => pc = "fetched" /\ lastState = None
  /\ col' = [col EXCEPT ![w].phase = "files", ![w].got.prepared = prepared]
  /\ UNCHANGED <<served, loop, lastState, sending, files, mariadb>>

CollectStatus(w) ==
  /\ col[w].phase = "files"
  /\ col' = [col EXCEPT ![w] =
                [phase |-> "status",
                 got   |-> [@.got EXCEPT !.status = status, !.old = FALSE]]]
  /\ UNCHANGED <<served, loop, lastState, sending, files, mariadb>>

\* MariaDB was asked for its wsrep status, which took its time and has no answer
\* when it does not run; the heartbeat is now the last one, even if another
\* collection read later and was faster.
CollectDone(w) ==
  /\ col[w].phase = "status"
  /\ lastState' = col[w].got
  /\ col' = [col EXCEPT ![w].phase = "idle", ![w].got = NoFact]
  /\ \/ /\ w = "heartbeat"
        /\ \E x \in {"other"} \cup {y \in {"Primary"} : alive} :
             sending' = [prepared |-> col[w].got.prepared, wsrep |-> x]
     \/ w = "reconcile" /\ UNCHANGED sending
  /\ UNCHANGED <<served, loop, files, mariadb>>

\* The state API answers, or the request fails, which is only logged.
SendHeartbeat ==
  /\ sending # None
  /\ sending' = None
  /\ UNCHANGED <<served, loop, lastState, col, files, mariadb>>

-------------------------------------------------------------------------------
(* The reconciling loop.                                                   *)

\* GetTargetState.  A fetch that fails changes nothing and is left out.
Fetch ==
  /\ pc = "idle"
  /\ ts' = served
  /\ pc' = "fetched"
  /\ UNCHANGED <<served, fact, collector, files, mariadb>>

\* Mutant: a secondary is joined whether or not it may start.
ActsOnRole(t) == \/ t.role = "primary" /\ t.newCluster
                 \/ t.role = "secondary"

\* Reconcile bootstraps a primary, joins a secondary that may start, and does
\* nothing otherwise.
Acts(t) == \/ t.role = "primary" /\ t.newCluster
           \/ t.role = "secondary" /\ t.started

\* Collect returns the last heartbeat there is, once its own collection is done.
TakeFact ==
  /\ pc = "fetched"
  /\ col["reconcile"].phase = "idle"
  /\ lastState # None
  /\ fact' = lastState
  /\ pc' = IF Acts(ts) THEN "collected" ELSE "idle"
  /\ UNCHANGED <<served, ts, collector, files, mariadb>>

\* configureGalera: whether galera.cnf has to be written.
ConfDiffers == conf # ts.incoming

\* Mutants: MariaDB is restarted whatever it does, or never started again.
LeaveConfRestarts ==
  /\ pc = "collected"
  /\ ~ConfDiffers
  /\ pc' = "stopping"
  /\ UNCHANGED <<served, ts, fact, collector, files, mariadb>>

LeaveConfReturns ==
  /\ pc = "collected"
  /\ ~ConfDiffers
  /\ pc' = "idle"
  /\ UNCHANGED <<served, ts, fact, collector, files, mariadb>>

\* galera.cnf is as it should be: a restart is due unless MariaDB is running.
LeaveConf ==
  /\ pc = "collected"
  /\ ~ConfDiffers
  /\ pc' = IF fact.status = "running" THEN "idle" ELSE "stopping"
  /\ UNCHANGED <<served, ts, fact, collector, files, mariadb>>

\* Mutant: configureGalera does not report that it rewrote the file.
RewriteConfSilently ==
  /\ pc = "collected"
  /\ ConfDiffers
  /\ conf' = ts.incoming
  /\ pc' = IF fact.status = "running" THEN "idle" ELSE "stopping"
  /\ UNCHANGED <<served, ts, fact, collector, prepared, mariadb>>

RewriteConf ==
  /\ pc = "collected"
  /\ ConfDiffers
  /\ conf' = ts.incoming
  /\ pc' = "stopping"
  /\ UNCHANGED <<served, ts, fact, collector, prepared, mariadb>>

\* configureGalera fails: on its address, on reading or on writing the file.
ConfFails ==
  /\ pc = "collected"
  /\ conf' \in {conf} \cup (IF ConfDiffers THEN {Torn} ELSE {})
  /\ pc' = "idle"
  /\ UNCHANGED <<served, ts, fact, collector, prepared, mariadb>>

\* Mutant: the flag is touched before MariaDB is started.
StopMariaDBTouches ==
  /\ pc = "stopping"
  /\ asked' = (asked \/ (alive /\ status = "running"))
  /\ prepared' = TRUE
  /\ pc' = "starting"
  /\ UNCHANGED <<served, ts, fact, collector, conf, alive, status, inForce,
                 everStarted, missed>>

\* StopMariaDB signals the process, if the status says there is one.
StopMariaDB ==
  /\ pc = "stopping"
  /\ asked' = (asked \/ (alive /\ status = "running"))
  /\ pc' = "starting"
  /\ UNCHANGED <<served, ts, fact, collector, files, alive, status, inForce,
                 everStarted, missed>>

\* The agent's MariaDB, as the only process of ProcessSupervisor.
Supervisor == INSTANCE ProcessSupervisor WITH
  Process <- {"mariadbd"},
  alive   <- IF alive THEN {"mariadbd"} ELSE {},
  status  <- status

\* RunMariaDB gets past the lock; that the manager lets it then, and no earlier, is
\* taken from ProcessSupervisor, which MariaDBManager implements.
MayStart == pc = "starting" /\ Supervisor!Free

AsOld(f) == IF f = None THEN None ELSE [f EXCEPT !.old = TRUE]

RunMariaDB ==
  /\ MayStart
  /\ alive' = TRUE /\ asked' = FALSE
  /\ status' = "running"
  /\ inForce' = conf
  /\ everStarted' = TRUE
  /\ pc' = "started"
  /\ fact' = AsOld(fact)
  /\ lastState' = AsOld(lastState)
  /\ col' = [w \in Collector |-> [col[w] EXCEPT !.got.old = TRUE]]
  /\ UNCHANGED <<served, ts, sending, files, missed>>

\* RunMariaDB fails.  When it never succeeded before, the finalizer it leaves
\* dereferences nil and the agent dies instead (AgentDies).
RunFails ==
  /\ MayStart
  /\ status = "stopped"
  /\ pc' = "idle"
  /\ UNCHANGED <<served, ts, fact, collector, files, mariadb>>

\* TouchFile, which may fail.
TouchPrepared ==
  /\ pc = "started"
  /\ prepared' \in {TRUE, prepared}
  /\ missed' = ~prepared'
  /\ pc' = "idle"
  /\ UNCHANGED <<served, ts, fact, collector, conf, alive, asked, status, inForce,
                 everStarted>>

-------------------------------------------------------------------------------
(* What surrounds the agent.                                               *)

\* MariaDB ends, asked to or not, and MariaDBManager publishes it.
MariaDBEnds ==
  /\ alive
  /\ alive' = FALSE
  /\ UNCHANGED <<served, loop, collector, files, asked, status, inForce,
                 everStarted, missed>>

PublishEnd ==
  /\ ~alive
  /\ status = "running"
  /\ status' = "stopped"
  /\ UNCHANGED <<served, loop, collector, files, alive, asked, inForce,
                 everStarted, missed>>

\* The controllers change the node's target state, never its role.
Serve(t) ==
  /\ t # served
  /\ t.role = served.role
  /\ served' = t
  /\ UNCHANGED <<loop, collector, files, mariadb>>

\* The agent crashes, or is told to end and does not wait for anything.  Its
\* container starts again, on the same files or on the image's.  A heartbeat sent
\* before may still arrive.
AgentDies ==
  /\ pc' = "idle" /\ ts' = None /\ fact' = None
  /\ lastState' = None /\ col' = NoCollection /\ sending' \in {None, sending}
  /\ alive' = FALSE /\ asked' = FALSE /\ status' = "unknown" /\ inForce' = NoFile
  /\ missed' = FALSE
  /\ \/ UNCHANGED <<files, everStarted>>
     \/ conf' = NoFile /\ prepared' = FALSE /\ everStarted' = FALSE
  /\ UNCHANGED served

Next ==
  \/ \E w \in Collector : CollectFiles(w)
  \/ \E w \in Collector : CollectStatus(w)
  \/ \E w \in Collector : CollectDone(w)
  \/ SendHeartbeat
  \/ Fetch \/ TakeFact
  \/ LeaveConf \/ RewriteConf \/ ConfFails
  \/ StopMariaDB \/ RunMariaDB \/ RunFails \/ TouchPrepared
  \/ MariaDBEnds \/ PublishEnd
  \/ \E t \in Targets : Serve(t)
  \/ AgentDies

Spec == Init /\ [][Next]_vars

-------------------------------------------------------------------------------
(* Safety.                                                                 *)

(* A MariaDB that runs, runs with the galera.cnf on disk, except while a   *)
(* reconcile is about to restart it and after a write that failed halfway: *)
(* configureGalera decides on the restart by comparing files, and nothing  *)
(* later would notice a process that missed one                            *)
(* (bootstrap_new_cluster.go:49-62, 93-113).                               *)
ConfigInForce ==
  alive => \/ inForce = conf
           \/ conf = Torn
           \/ pc \in {"stopping", "starting"}

(* What the controllers take for readiness: no heartbeat says prepared     *)
(* unless MariaDB was started on these files                               *)
(* (bootstrap_new_cluster.go:62-70, hb.go:165).                            *)
PreparedMeansStarted ==
  prepared \/ (lastState # None /\ lastState.prepared) => everStarted

(* A MariaDB that runs with the configuration the target state asks for is *)
(* restarted only on a heartbeat older than the process itself: stale      *)
(* facts are the only cause of needless restarts, apart from a galera.cnf  *)
(* cut short (bootstrap_new_cluster.go:53, hb.go:133-147).                 *)
OnlyStaleFactsRestart ==
  [][pc = "collected" /\ pc' = "stopping" /\ alive /\ inForce = ts.incoming
       => fact.old \/ conf = Torn]_vars

(* RunMariaDB has no MariaDB to wait for but one that was told to end: a   *)
(* restart never waits for a process that StopMariaDB left alone because   *)
(* it did not know of it (bootstrap_new_cluster.go:59-62,                  *)
(* manager.go:47, 106-123).                                                *)
WaitsOnlyForEnding == pc = "starting" /\ alive => asked

(* A MariaDB that runs while its node is not prepared is one whose flag    *)
(* is about to be touched, or could not be: no path leads from a start     *)
(* past TouchFile, and no other clears the flag                            *)
(* (bootstrap_new_cluster.go:62-70).                                       *)
UnpreparedIsMissed == alive => prepared \/ missed \/ pc = "started"

\* MariaDB runs as the target state asks, and everybody who could act on it knows:
\* the reconcile under way, the last heartbeat, the collections.
Converged ==
  /\ alive /\ ~asked /\ status = "running"
  /\ inForce = served.incoming /\ conf = served.incoming
  /\ pc \in {"idle", "fetched", "collected", "started"}
  /\ pc \in {"fetched", "collected"} => ts = served
  /\ pc = "collected" => fact.status = "running"
  /\ lastState # None => lastState.status = "running"
  /\ \A w \in Collector : col[w].phase = "status" => col[w].got.status = "running"

(* From then on the agent leaves its MariaDB alone, whatever fails: it     *)
(* does not stop, restart or reconfigure it until MariaDB or the agent     *)
(* ends or the target state changes (bootstrap_new_cluster.go:49-58,       *)
(* hb.go:133-189).                                                         *)
ConvergedStays == [][Converged => Converged' \/ ~alive' \/ served' # served]_vars

-------------------------------------------------------------------------------
(* The abstract agent.                                                     *)

\* This agent, as the only one of AgentPromise.
This(x) == [n \in {"this"} |-> x]

Promise == INSTANCE AgentPromise WITH
  Node     <- {"this"},
  List     <- Peers,
  served   <- This({served}),
  task     <- This(IF pc = "idle" THEN None ELSE ts),
  launched <- This(pc = "started"),
  running  <- This(IF alive THEN inForce ELSE None),
  prepared <- This(prepared),
  report   <- This(sending)

(* Whatever heartbeats it caches, files it compares and steps fail, the    *)
(* agent keeps AgentPromise: it starts MariaDB only when told to and with  *)
(* the addresses it was told, touches the flag only after a start, and     *)
(* reports no more than the flag and Galera say                            *)
(* (handler.go:86-99, bootstrap_new_cluster.go:49-70, hb.go:165-189).      *)
PromiseKept == Promise!Spec

-------------------------------------------------------------------------------
(* Liveness.                                                               *)

\* Both loops go on, MariaDB ends when it is told to, its end is published.
AgentFairness ==
  /\ \A w \in Collector : WF_vars(CollectFiles(w) \/ CollectStatus(w) \/ CollectDone(w))
  /\ WF_vars(SendHeartbeat)
  /\ WF_vars(Fetch) /\ WF_vars(TakeFact)
  /\ WF_vars(LeaveConf \/ RewriteConf)
  /\ WF_vars(StopMariaDB) /\ WF_vars(RunMariaDB) /\ WF_vars(TouchPrepared)
  /\ WF_vars(asked /\ MariaDBEnds) /\ WF_vars(PublishEnd)

\* From some time on nothing fails, the target state stays the same, and the
\* heartbeats, which have a period of their own, no longer read the status in
\* the middle of a restart.  (A ConfFails that changes nothing is the same step as
\* a LeaveConf that does not restart MariaDB.)
CalmsDown ==
  <>[][/\ ~AgentDies /\ ~RunFails
       /\ (ConfFails => LeaveConf)
       /\ (MariaDBEnds => asked)
       /\ (CollectStatus("heartbeat") => pc # "starting")
       /\ UNCHANGED served]_vars

FairSpec == Spec /\ AgentFairness /\ CalmsDown

(* MariaDB then comes to run for good, with the configuration the target   *)
(* state asks for, whatever went wrong before and whether or not the flag  *)
(* could be touched (handler.go:87-99, bootstrap_new_cluster.go:49-65).    *)
Settles ==
  <>[](Acts(served) => alive /\ ~asked /\ inForce = served.incoming)

(* The node is then reported prepared for good, unless TouchFile has failed *)
(* after the start of the MariaDB that runs.  One failure is enough: with   *)
(* MariaDB running, no later reconcile gets past the early return to touch  *)
(* the file (bootstrap_new_cluster.go:53, 67).                              *)
GetsPrepared == <>[](Acts(served) => prepared \/ missed)
===============================================================================
