---------------------------- MODULE MariaDBManager ----------------------------
(***************************************************************************)
(* The agent's MariaDBManager: RunMariaDB, StopMariaDB, GetState and the   *)
(* finalizer goroutine every RunMariaDB leaves behind.                     *)
(*                                                                         *)
(* A section under m.mu does not block (whoever holds mu waits for no      *)
(* other lock), so each is one step: StopMariaDB, RunMariaDB from mu.Lock  *)
(* to its return, the end of finalize.  The lock m.started is explicit: a  *)
(* RunMariaDB takes it and the finalizer of that call releases it.         *)
(*                                                                         *)
(* Go's defers run last in, first out: RunMariaDB releases mu and then     *)
(* starts the finalizer, on every return; finalize releases mu and then    *)
(* started.                                                                *)
(***************************************************************************)
EXTENDS FiniteSets

CONSTANTS
  Caller,    \* goroutines that restart MariaDB: StopMariaDB, then RunMariaDB
  Process,   \* process ids
  NoProc     \* nil

ASSUME ProcAssumption == NoProc \notin Process

VARIABLES
  State,       \* m.State
  proc,        \* m.proc
  started,     \* whether m.started is locked
  procs,       \* process table: "none", "alive" or "zombie" (not waited for)
  signalled,   \* processes that were sent SIGTERM
  pc,          \* where a caller is: "idle", "stopped" after StopMariaDB,
               \* "locked" when RunMariaDB has the lock started
  finalizers,  \* finalizer goroutines
  crashed      \* whether the agent died of a nil dereference

vars == <<State, proc, started, procs, signalled, pc, finalizers, crashed>>

\* The finalizer of a call, before and after it read which process to wait for.
Finalizer == [by : Caller, proc : {NoProc}, phase : {"new"}] \cup
             [by : Caller, proc : Process, phase : {"waiting", "waited", "settled"}]

TypeOK ==
  /\ State \in {"running", "stopped", "unknown"}
  /\ proc \in Process \cup {NoProc}
  /\ started \in BOOLEAN
  /\ procs \in [Process -> {"none", "alive", "zombie"}]
  /\ signalled \subseteq Process
  /\ pc \in [Caller -> {"idle", "stopped", "locked"}]
  /\ finalizers \subseteq Finalizer
  /\ crashed \in BOOLEAN

Init ==
  /\ State = "unknown"
  /\ proc = NoProc
  /\ started = FALSE
  /\ procs = [p \in Process |-> "none"]
  /\ signalled = {}
  /\ pc = [c \in Caller |-> "idle"]
  /\ finalizers = {}
  /\ crashed = FALSE

Alive == {p \in Process : procs[p] = "alive"}

-------------------------------------------------------------------------------
(* A restart by a caller.                                                  *)

\* The processes StopMariaDB signals.  Signalling one that was waited for fails,
\* and so does the SIGKILL that follows.
StopTargets == {p \in Process : State = "running" /\ p = proc /\ procs[p] # "none"}

\* StopMariaDB does not wait for the process.
StopMariaDB(c) ==
  /\ ~crashed
  /\ pc[c] = "idle"
  /\ signalled' = signalled \cup StopTargets
  /\ pc' = [pc EXCEPT ![c] = "stopped"]
  /\ UNCHANGED <<State, proc, started, procs, finalizers, crashed>>

LockStarted(c) ==
  /\ ~crashed
  /\ pc[c] = "stopped"
  /\ ~started
  /\ started' = TRUE
  /\ pc' = [pc EXCEPT ![c] = "locked"]
  /\ UNCHANGED <<State, proc, procs, signalled, finalizers, crashed>>

\* Every return of RunMariaDB leaves a finalizer.
Return(c) ==
  /\ pc' = [pc EXCEPT ![c] = "idle"]
  /\ finalizers' = finalizers \cup {[by |-> c, proc |-> NoProc, phase |-> "new"]}

\* Mutant: State is left as it was.
RunStartsUnpublished(c, p) ==
  /\ ~crashed
  /\ pc[c] = "locked"
  /\ State # "running"
  /\ procs[p] = "none"
  /\ procs' = [procs EXCEPT ![p] = "alive"]
  /\ signalled' = signalled \ {p}
  /\ proc' = p
  /\ Return(c)
  /\ UNCHANGED <<State, started, crashed>>

\* cmd.Start succeeds, with a process id that is free.
RunStarts(c, p) ==
  /\ ~crashed
  /\ pc[c] = "locked"
  /\ State # "running"
  /\ procs[p] = "none"
  /\ procs' = [procs EXCEPT ![p] = "alive"]
  /\ signalled' = signalled \ {p}
  /\ proc' = p
  /\ State' = "running"
  /\ Return(c)
  /\ UNCHANGED <<started, crashed>>

\* Mutant: a start that failed leaves no finalizer.
RunStartsNoneUnfinalized(c) ==
  /\ ~crashed
  /\ pc[c] = "locked"
  /\ pc' = [pc EXCEPT ![c] = "idle"]
  /\ UNCHANGED <<State, proc, started, procs, signalled, finalizers, crashed>>

\* It starts none: cmd.Start fails, or State is "running" and RunMariaDB returns
\* early.  proc and State stay those of the last process, if any.
RunStartsNone(c) ==
  /\ ~crashed
  /\ pc[c] = "locked"
  /\ Return(c)
  /\ UNCHANGED <<State, proc, started, procs, signalled, crashed>>

-------------------------------------------------------------------------------
(* A finalizer.                                                            *)

Advance(f, g) == finalizers' = (finalizers \ {f}) \cup {g}

\* Mutant: a nil process is waited for like any other.
FinalizerReadsNil(f) ==
  /\ ~crashed
  /\ f \in finalizers
  /\ f.phase = "new"
  /\ Advance(f, [f EXCEPT !.proc = proc, !.phase = "waiting"])
  /\ UNCHANGED <<State, proc, started, procs, signalled, pc, crashed>>

\* finalize reads m.proc, without mu.  A nil process is dereferenced by Wait.
FinalizerReads(f) ==
  /\ ~crashed
  /\ f \in finalizers
  /\ f.phase = "new"
  /\ \/ /\ proc # NoProc
        /\ Advance(f, [f EXCEPT !.proc = proc, !.phase = "waiting"])
        /\ UNCHANGED crashed
     \/ /\ proc = NoProc
        /\ crashed' = TRUE
        /\ UNCHANGED finalizers
  /\ UNCHANGED <<State, proc, started, procs, signalled, pc>>

\* Mutant: the process is not waited for.
FinalizerWaitsNot(f) ==
  /\ ~crashed
  /\ f \in finalizers
  /\ f.phase = "waiting"
  /\ Advance(f, [f EXCEPT !.phase = "waited"])
  /\ UNCHANGED <<State, proc, started, procs, signalled, pc, crashed>>

\* Mutant: started is released when Wait returns, before the status is set.
FinalizerWaitsUnlocks(f) ==
  /\ ~crashed
  /\ f \in finalizers
  /\ f.phase = "waiting"
  /\ procs[f.proc] # "alive"
  /\ procs' = [procs EXCEPT ![f.proc] = "none"]
  /\ started' = FALSE
  /\ Advance(f, [f EXCEPT !.phase = "waited"])
  /\ UNCHANGED <<State, proc, signalled, pc, crashed>>

\* Wait returns: at once for a process waited for before.
FinalizerWaits(f) ==
  /\ ~crashed
  /\ f \in finalizers
  /\ f.phase = "waiting"
  /\ procs[f.proc] # "alive"
  /\ procs' = [procs EXCEPT ![f.proc] = "none"]
  /\ Advance(f, [f EXCEPT !.phase = "waited"])
  /\ UNCHANGED <<State, proc, started, signalled, pc, crashed>>

FinalizerSettles(f) ==
  /\ ~crashed
  /\ f \in finalizers
  /\ f.phase = "waited"
  /\ State' = "stopped"
  /\ Advance(f, [f EXCEPT !.phase = "settled"])
  /\ UNCHANGED <<proc, started, procs, signalled, pc, crashed>>

FinalizerUnlocks(f) ==
  /\ ~crashed
  /\ f \in finalizers
  /\ f.phase = "settled"
  /\ started' = FALSE
  /\ finalizers' = finalizers \ {f}
  /\ UNCHANGED <<State, proc, procs, signalled, pc, crashed>>

-------------------------------------------------------------------------------
\* MariaDB ends: told to, killed when the agent's context ends, or by itself.
Exit(p) ==
  /\ procs[p] = "alive"
  /\ procs' = [procs EXCEPT ![p] = "zombie"]
  /\ UNCHANGED <<State, proc, started, signalled, pc, finalizers, crashed>>

\* The agent is its container's first process: when it dies the container is
\* started again with no process.
Restart ==
  /\ crashed
  /\ State' = "unknown"
  /\ proc' = NoProc
  /\ started' = FALSE
  /\ procs' = [p \in Process |-> "none"]
  /\ signalled' = {}
  /\ pc' = [c \in Caller |-> "idle"]
  /\ finalizers' = {}
  /\ crashed' = FALSE

Next ==
  \/ \E c \in Caller : StopMariaDB(c)
  \/ \E c \in Caller : LockStarted(c)
  \/ \E c \in Caller, p \in Process : RunStarts(c, p)
  \/ \E c \in Caller : RunStartsNone(c)
  \/ \E f \in finalizers : FinalizerReads(f)
  \/ \E f \in finalizers : FinalizerWaits(f)
  \/ \E f \in finalizers : FinalizerSettles(f)
  \/ \E f \in finalizers : FinalizerUnlocks(f)
  \/ \E p \in Process : Exit(p)
  \/ Restart

Spec == Init /\ [][Next]_vars
-------------------------------------------------------------------------------
(* Safety.                                                                 *)

(* A process that is alive is the one the manager holds and its status is  *)
(* "running": no finalizer of an earlier process takes the status of a     *)
(* later one, and StopMariaDB reaches whatever runs (manager.go:35-38).    *)
AliveIsRunning ==
  \A p \in Alive : State = "running" /\ proc = p

(* A RunMariaDB that got past the lock never finds the status "running":   *)
(* the early return of manager.go:56 would report success without having   *)
(* started anything, right after StopMariaDB told the process to end.      *)
RunAlwaysStarts ==
  \A c \in Caller : pc[c] = "locked" => State # "running"

(* The lock started is handed from a RunMariaDB to the finalizer of that   *)
(* call: while a finalizer is there the lock is taken, by nobody else.  Go *)
(* kills a program that unlocks a mutex which is not locked, and a second  *)
(* holder would unlock the first one's (manager.go:47, 51, 93).            *)
LockHandedOver ==
  \A f \in finalizers :
    started /\ finalizers = {f} /\ \A c \in Caller : pc[c] # "locked"

\* A caller that told MariaDB to end waits for a process it did not tell.
WaitsInVain(c) == pc[c] = "stopped" /\ ~(Alive \subseteq signalled)

(* StopMariaDB reaches every process there is: a caller comes to wait for  *)
(* one that nobody ends only when another RunMariaDB starts it behind its  *)
(* back (manager.go:106-123, 47).                                          *)
StopReaches ==
  [][\A c \in Caller :
       ~WaitsInVain(c) /\ WaitsInVain(c)'
         => \E d \in Caller \ {c} : pc[d] = "locked" /\ pc'[d] = "idle"]_vars

(* The locks, goroutines and process handles amount to the supervisor the  *)
(* rest of the agent relies on.                                            *)
Supervisor == INSTANCE ProcessSupervisor WITH alive <- Alive, status <- State

Supervised == Supervisor!Spec

-------------------------------------------------------------------------------
(* Liveness.                                                               *)

FinalizerStep(f) == \/ FinalizerReads(f) \/ FinalizerWaits(f)
                    \/ FinalizerSettles(f) \/ FinalizerUnlocks(f)

\* Goroutines run on, a Go mutex starves nobody, a container whose agent died is
\* started again, and MariaDB ends after SIGTERM.
Fairness ==
  /\ \A c \in Caller :
       /\ WF_vars(StopMariaDB(c))
       /\ SF_vars(LockStarted(c))
       /\ WF_vars((\E p \in Process : RunStarts(c, p)) \/ RunStartsNone(c))
       /\ WF_vars(\E f \in finalizers : f.by = c /\ FinalizerStep(f))
  /\ \A p \in Process : WF_vars(p \in signalled /\ Exit(p))
  /\ WF_vars(Restart)

FairSpec == Spec /\ Fairness

(* A restart of MariaDB comes to an end: RunMariaDB gets the lock its      *)
(* predecessor's finalizer holds (manager.go:47, 93).  Only a process that *)
(* another caller started meanwhile can keep it waiting, since nobody ends *)
(* that one.                                                               *)
RunReturns ==
  \A c \in Caller :
    \/ pc[c] = "stopped" ~> pc[c] = "idle"
    \/ /\ <>(\E d \in Caller \ {c} : pc[d] # "idle")
       /\ <>[](\E p \in Alive : p \notin signalled)
===============================================================================
