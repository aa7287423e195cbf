------------------------- MODULE MariaDBManagerProofs -------------------------
(***************************************************************************)
(* Proofs about MariaDBManager, for any number of callers and processes.   *)
(***************************************************************************)
EXTENDS MariaDBManager, TLAPS

LEMMA TypeInit == Init => TypeOK
BY DEF Init, TypeOK

LEMMA TypeStep == TypeOK /\ [Next]_vars => TypeOK'
<1> SUFFICES ASSUME TypeOK, [Next]_vars PROVE TypeOK'
  OBVIOUS
<1> USE DEF TypeOK
<1>1. ASSUME NEW c \in Caller, StopMariaDB(c) PROVE TypeOK'
  BY <1>1 DEF StopMariaDB, StopTargets
<1>2. ASSUME NEW c \in Caller, LockStarted(c) PROVE TypeOK'
  BY <1>2 DEF LockStarted
<1>3. ASSUME NEW c \in Caller, NEW p \in Process, RunStarts(c, p) PROVE TypeOK'
  BY <1>3 DEF RunStarts, Return, Finalizer
<1>4. ASSUME NEW c \in Caller, RunStartsNone(c) PROVE TypeOK'
  BY <1>4 DEF RunStartsNone, Return, Finalizer
<1>5. ASSUME NEW f \in finalizers, FinalizerReads(f) PROVE TypeOK'
  BY <1>5 DEF FinalizerReads, Advance, Finalizer
<1>6. ASSUME NEW f \in finalizers, FinalizerWaits(f) PROVE TypeOK'
  BY <1>6 DEF FinalizerWaits, Advance, Finalizer
<1>7. ASSUME NEW f \in finalizers, FinalizerSettles(f) PROVE TypeOK'
  BY <1>7 DEF FinalizerSettles, Advance, Finalizer
<1>8. ASSUME NEW f \in finalizers, FinalizerUnlocks(f) PROVE TypeOK'
  BY <1>8 DEF FinalizerUnlocks
<1>9. ASSUME NEW p \in Process, Exit(p) PROVE TypeOK'
  BY <1>9 DEF Exit
<1>10. CASE Restart
  BY <1>10 DEF Restart
<1>11. CASE UNCHANGED vars
  BY <1>11 DEF vars
<1> QED BY <1>1, <1>2, <1>3, <1>4, <1>5, <1>6, <1>7, <1>8, <1>9, <1>10, <1>11
        DEF Next

-------------------------------------------------------------------------------
(* The semaphore started.  It is held by one RunMariaDB or by the one      *)
(* finalizer it was handed to, never by both.                              *)

SemaphoreInv ==
  /\ ~started => finalizers = {} /\ \A c \in Caller : pc[c] # "locked"
  /\ \A c, d \in Caller : pc[c] = "locked" /\ pc[d] = "locked" => c = d
  /\ \A c \in Caller : pc[c] = "locked" => finalizers = {}
  /\ \A f, g \in finalizers : f = g

LEMMA SemaphoreInit == Init => SemaphoreInv
BY DEF Init, SemaphoreInv

LEMMA SemaphoreStep == TypeOK /\ SemaphoreInv /\ [Next]_vars => SemaphoreInv'
<1> SUFFICES ASSUME TypeOK, SemaphoreInv, [Next]_vars PROVE SemaphoreInv'
  OBVIOUS
<1> USE DEF TypeOK, SemaphoreInv
<1>1. ASSUME NEW c \in Caller, StopMariaDB(c) PROVE SemaphoreInv'
  BY <1>1 DEF StopMariaDB
<1>2. ASSUME NEW c \in Caller, LockStarted(c) PROVE SemaphoreInv'
  BY <1>2 DEF LockStarted
<1>3. ASSUME NEW c \in Caller, pc[c] = "locked", Return(c), UNCHANGED started
      PROVE  SemaphoreInv'
  BY <1>3 DEF Return
<1>4. ASSUME NEW c \in Caller, NEW p \in Process, RunStarts(c, p) PROVE SemaphoreInv'
  BY <1>3, <1>4 DEF RunStarts
<1>5. ASSUME NEW c \in Caller, RunStartsNone(c) PROVE SemaphoreInv'
  BY <1>3, <1>5 DEF RunStartsNone
<1>6. ASSUME NEW f \in finalizers, NEW g, Advance(f, g), UNCHANGED <<pc, started>>
      PROVE  SemaphoreInv'
  BY <1>6 DEF Advance
<1>7. ASSUME NEW f \in finalizers, FinalizerReads(f) PROVE SemaphoreInv'
  BY <1>6, <1>7 DEF FinalizerReads
<1>8. ASSUME NEW f \in finalizers, FinalizerWaits(f) PROVE SemaphoreInv'
  BY <1>6, <1>8 DEF FinalizerWaits
<1>9. ASSUME NEW f \in finalizers, FinalizerSettles(f) PROVE SemaphoreInv'
  BY <1>6, <1>9 DEF FinalizerSettles
<1>10. ASSUME NEW f \in finalizers, FinalizerUnlocks(f) PROVE SemaphoreInv'
  BY <1>10 DEF FinalizerUnlocks
<1>11. ASSUME NEW p \in Process, Exit(p) PROVE SemaphoreInv'
  BY <1>11 DEF Exit
<1>12. CASE Restart
  BY <1>12 DEF Restart
<1>13. CASE UNCHANGED vars
  BY <1>13 DEF vars
<1> QED BY <1>1, <1>2, <1>4, <1>5, <1>7, <1>8, <1>9, <1>10, <1>11, <1>12, <1>13
        DEF Next

-------------------------------------------------------------------------------
(* The process.  It may be alive only while its finalizer is there, has    *)
(* not been waited for yet, and waits for that very process.               *)

ProcessInv ==
  /\ AliveIsRunning
  /\ State = "running" => proc \in Process
  /\ finalizers = {} => Alive = {} /\ State # "running"
  /\ \A f \in finalizers :
       /\ f.phase = "waiting" => f.proc = proc /\ proc \in Process
       /\ f.phase \in {"waited", "settled"} => Alive = {}
       /\ f.phase = "settled" => State = "stopped"

LEMMA ProcessInit == Init => ProcessInv
BY DEF Init, ProcessInv, AliveIsRunning, Alive

LEMMA ProcessStep ==
  TypeOK /\ SemaphoreInv /\ ProcessInv /\ [Next]_vars => ProcessInv'
<1> SUFFICES ASSUME TypeOK, SemaphoreInv, ProcessInv, [Next]_vars PROVE ProcessInv'
  OBVIOUS
<1> USE DEF TypeOK, SemaphoreInv, ProcessInv, AliveIsRunning, Alive
<1>1. ASSUME NEW c \in Caller, StopMariaDB(c) PROVE ProcessInv'
  BY <1>1 DEF StopMariaDB
<1>2. ASSUME NEW c \in Caller, LockStarted(c) PROVE ProcessInv'
  BY <1>2 DEF LockStarted
<1>3. ASSUME NEW c \in Caller, NEW p \in Process, RunStarts(c, p) PROVE ProcessInv'
  <2>1. finalizers = {} /\ Alive = {}
    BY <1>3 DEF RunStarts
  <2>2. finalizers' = {[by |-> c, proc |-> NoProc, phase |-> "new"]}
    BY <1>3, <2>1 DEF RunStarts, Return
  <2>3. \A q \in Process : procs'[q] = "alive" => q = p
    BY <1>3, <2>1 DEF RunStarts
  <2>4. proc' = p /\ State' = "running"
    BY <1>3 DEF RunStarts
  <2>5. finalizers' # {} /\ \A f \in finalizers' : f.phase = "new"
    BY <2>2
  <2> QED BY <2>3, <2>4, <2>5
<1>4. ASSUME NEW c \in Caller, RunStartsNone(c) PROVE ProcessInv'
  BY <1>4 DEF RunStartsNone, Return
<1>5. ASSUME NEW f \in finalizers, FinalizerReads(f) PROVE ProcessInv'
  BY <1>5 DEF FinalizerReads, Advance, Finalizer
<1>6. ASSUME NEW f \in finalizers, FinalizerWaits(f) PROVE ProcessInv'
  <2>1. f.proc = proc /\ proc \in Process /\ Alive = {}
    BY <1>6 DEF FinalizerWaits
  <2>2. finalizers' = {[f EXCEPT !.phase = "waited"]} /\ Alive' = {}
    BY <1>6, <2>1 DEF FinalizerWaits, Advance
  <2>3. [f EXCEPT !.phase = "waited"].phase = "waited"
    BY DEF Finalizer
  <2>4. UNCHANGED <<State, proc>>
    BY <1>6 DEF FinalizerWaits
  <2> QED BY <2>1, <2>2, <2>3, <2>4
<1>7. ASSUME NEW f \in finalizers, FinalizerSettles(f) PROVE ProcessInv'
  <2>1. Alive = {} /\ Alive' = {}
    BY <1>7 DEF FinalizerSettles
  <2>2. finalizers' = {[f EXCEPT !.phase = "settled"]}
    BY <1>7 DEF FinalizerSettles, Advance
  <2> QED BY <1>7, <2>1, <2>2 DEF FinalizerSettles, Finalizer
<1>8. ASSUME NEW f \in finalizers, FinalizerUnlocks(f) PROVE ProcessInv'
  BY <1>8 DEF FinalizerUnlocks
<1>9. ASSUME NEW p \in Process, Exit(p) PROVE ProcessInv'
  BY <1>9 DEF Exit
<1>10. CASE Restart
  BY <1>10 DEF Restart
<1>11. CASE UNCHANGED vars
  BY <1>11 DEF vars
<1> QED BY <1>1, <1>2, <1>3, <1>4, <1>5, <1>6, <1>7, <1>8, <1>9, <1>10, <1>11
        DEF Next

\* The manager's fields, locks and goroutines keep their types (manager.go:27-40).
THEOREM ManagerTypeCorrect == Spec => []TypeOK
BY TypeInit, TypeStep, PTL DEF Spec

\* A process that is alive is the one StopMariaDB would reach
\* (manager.go:35-38, 106-123).
THEOREM AliveIsRunningHolds == Spec => []AliveIsRunning
<1>1. ProcessInv => AliveIsRunning
  BY DEF ProcessInv
<1> QED BY <1>1, TypeInit, TypeStep, SemaphoreInit, SemaphoreStep, ProcessInit,
           ProcessStep, PTL DEF Spec

\* The early return of RunMariaDB is never taken (manager.go:56).
THEOREM RunAlwaysStartsHolds == Spec => []RunAlwaysStarts
<1>1. SemaphoreInv /\ ProcessInv => RunAlwaysStarts
  BY DEF SemaphoreInv, ProcessInv, RunAlwaysStarts
<1> QED BY <1>1, TypeInit, TypeStep, SemaphoreInit, SemaphoreStep, ProcessInit,
           ProcessStep, PTL DEF Spec

\* No mutex is unlocked that is not locked (manager.go:47, 51, 93).
THEOREM LockHandedOverHolds == Spec => []LockHandedOver
<1>1. SemaphoreInv => LockHandedOver
  BY DEF SemaphoreInv, LockHandedOver
<1> QED BY <1>1, TypeInit, TypeStep, SemaphoreInit, SemaphoreStep, PTL DEF Spec

-------------------------------------------------------------------------------
(* Whom StopMariaDB reaches.                                               *)

LEMMA ReachStep ==
  ASSUME TypeOK, ProcessInv, [Next]_vars,
         NEW c \in Caller, ~WaitsInVain(c), WaitsInVain(c)'
  PROVE  \E d \in Caller \ {c} : pc[d] = "locked" /\ pc'[d] = "idle"
<1> USE DEF TypeOK, WaitsInVain, Alive
<1>1. ASSUME NEW d \in Caller, StopMariaDB(d) PROVE FALSE
  <2>1. Alive \subseteq StopTargets
    BY <1>1 DEF ProcessInv, AliveIsRunning, StopTargets
  <2>2. Alive' = Alive /\ Alive \subseteq signalled'
    BY <1>1, <2>1 DEF StopMariaDB
  <2> QED BY <2>2
<1>2. ASSUME NEW d \in Caller, LockStarted(d) PROVE FALSE
  BY <1>2 DEF LockStarted
<1>3. ASSUME NEW d \in Caller, NEW p \in Process, RunStarts(d, p)
      PROVE  \E e \in Caller \ {c} : pc[e] = "locked" /\ pc'[e] = "idle"
  <2>1. pc[d] = "locked" /\ pc'[d] = "idle"
    BY <1>3 DEF RunStarts, Return
  <2> QED BY <2>1
<1>4. ASSUME NEW d \in Caller, RunStartsNone(d) PROVE FALSE
  BY <1>4 DEF RunStartsNone, Return
<1>5. ASSUME NEW f \in finalizers, FinalizerWaits(f) PROVE FALSE
  BY <1>5 DEF FinalizerWaits
<1>6. ASSUME NEW p \in Process, Exit(p) PROVE FALSE
  BY <1>6 DEF Exit
<1>7. ASSUME Restart PROVE FALSE
  BY <1>7 DEF Restart
<1>8. CASE \/ \E f \in finalizers : \/ FinalizerReads(f) \/ FinalizerSettles(f)
                                   \/ FinalizerUnlocks(f)
           \/ UNCHANGED vars
  BY <1>8 DEF FinalizerReads, FinalizerSettles, FinalizerUnlocks, vars
<1> QED BY <1>1, <1>2, <1>3, <1>4, <1>5, <1>6, <1>7, <1>8 DEF Next

\* Only a process started behind its back keeps a stopped caller waiting
\* (manager.go:106-123).
THEOREM StopReachesHolds == Spec => StopReaches
<1>1. TypeOK /\ ProcessInv /\ [Next]_vars
        => [\A c \in Caller :
              ~WaitsInVain(c) /\ WaitsInVain(c)'
                => \E d \in Caller \ {c} : pc[d] = "locked" /\ pc'[d] = "idle"]_vars
  BY ReachStep
<1> QED BY <1>1, TypeInit, TypeStep, SemaphoreInit, SemaphoreStep, ProcessInit,
           ProcessStep, PTL DEF Spec, StopReaches

\* A single caller is never kept waiting by a process it did not tell to end.  The
\* agent has one caller, and relies on it (manager.go:47, 106-123).
THEOREM SoleCallerIsNeverKept ==
  ASSUME \A c, d \in Caller : c = d
  PROVE  Spec => [](\A c \in Caller : ~WaitsInVain(c))
<1> DEFINE NoneKept == \A c \in Caller : ~WaitsInVain(c)
<1>1. Init => NoneKept
  BY DEF Init, WaitsInVain
<1>2. TypeOK /\ ProcessInv /\ NoneKept /\ [Next]_vars => NoneKept'
  BY ReachStep
<1> QED BY <1>1, <1>2, TypeInit, TypeStep, SemaphoreInit, SemaphoreStep, ProcessInit,
           ProcessStep, PTL DEF Spec

-------------------------------------------------------------------------------
(* Refinement.                                                             *)

LEMMA SupervisorStep ==
  TypeOK /\ SemaphoreInv /\ ProcessInv /\ [Next]_vars
    => [Supervisor!Next]_(Supervisor!vars)
<1> SUFFICES ASSUME TypeOK, SemaphoreInv, ProcessInv, [Next]_vars
             PROVE  Supervisor!Next \/ (Alive' = Alive /\ State' = State)
  BY DEF Supervisor!vars
<1> USE DEF TypeOK
<1>1. ASSUME NEW c \in Caller, NEW p \in Process, RunStarts(c, p)
      PROVE  Supervisor!Start(p)
  <2>1. Alive = {} /\ State # "running"
    BY <1>1 DEF RunStarts, SemaphoreInv, ProcessInv
  <2>2. Alive' = {p} /\ State' = "running"
    BY <1>1, <2>1 DEF RunStarts, Alive
  <2> QED BY <2>1, <2>2 DEF Supervisor!Start, Supervisor!Free
<1>2. ASSUME NEW p \in Process, Exit(p) PROVE Supervisor!End
  <2>1. p \in Alive /\ Alive \subseteq {p}
    BY <1>2 DEF Exit, Alive, ProcessInv, AliveIsRunning
  <2>2. Alive' = {} /\ State' = State
    BY <1>2, <2>1 DEF Exit, Alive
  <2> QED BY <2>1, <2>2 DEF Supervisor!End
<1>3. ASSUME NEW f \in finalizers, FinalizerSettles(f) PROVE Supervisor!Publish
  <2>1. Alive = {} /\ Alive' = {} /\ State' = "stopped"
    BY <1>3 DEF FinalizerSettles, ProcessInv, Alive
  <2> QED BY <2>1 DEF Supervisor!Publish
<1>4. CASE Restart
  <2>1. Alive' = {} /\ State' = "unknown"
    BY <1>4 DEF Restart, Alive
  <2> QED BY <2>1 DEF Supervisor!Next, Supervisor!Replace
<1>5. ASSUME NEW f \in finalizers, FinalizerWaits(f)
      PROVE  Alive' = Alive /\ State' = State
  BY <1>5 DEF FinalizerWaits, Alive
<1>6. CASE \/ \E c \in Caller : \/ StopMariaDB(c) \/ LockStarted(c) \/ RunStartsNone(c)
           \/ \E f \in finalizers : FinalizerReads(f) \/ FinalizerUnlocks(f)
           \/ UNCHANGED vars
  BY <1>6 DEF StopMariaDB, LockStarted, RunStartsNone, FinalizerReads,
              FinalizerUnlocks, vars, Alive
<1> QED BY <1>1, <1>2, <1>3, <1>4, <1>5, <1>6 DEF Next, Supervisor!Next

\* MariaDBManager implements the supervisor (manager.go:46-123).
THEOREM SupervisedHolds == Spec => Supervised
<1>1. Init => Supervisor!Init
  BY DEF Init, Alive, Supervisor!Init
<1> QED BY <1>1, TypeInit, TypeStep, SemaphoreInit, SemaphoreStep, ProcessInit,
           ProcessStep, SupervisorStep, PTL
        DEF Spec, Supervised, Supervisor!Spec
===============================================================================
