--------------------------- MODULE ControllerManager ---------------------------
(***************************************************************************)
(* The controller-manager process as its own scheduler: main, the loop of  *)
(* each registered controller with the iterations it makes and the         *)
(* reconciles they start, and the state API's HTTP server, from the start  *)
(* to the end of the process.  What reconciles and requests do to the      *)
(* storage is ControlPlane's matter.                                       *)
(*                                                                         *)
(* An iteration starts one goroutine per resource and takes a place of its *)
(* limiter for each, which the goroutine gives back.  It waits for places, *)
(* never for goroutines; the next iteration makes a new limiter.           *)
(***************************************************************************)
EXTENDS Integers

CONSTANTS
  Controller,    \* names of the registered controllers
  Places,        \* places of a limiter (20 in the code)
  MaxResources,  \* bound on the resources a controller lists
  MaxEarlier,    \* bound on the reconciles left over from earlier iterations
  Request        \* requests to the state API

ASSUME PlacesAssumption == Places \in Nat \ {0}
ASSUME BoundsAssumption == MaxResources \in Nat /\ MaxEarlier \in Nat

VARIABLES
  signalled,  \* SIGTERM or SIGINT was received
  cancelled,  \* main's context was cancelled
  loop,       \* where a controller's loop is: "select" between iterations,
              \* "check" before a resource, "send" waiting for a place
  todo,       \* resources the iteration has not started a reconcile for
  working,    \* reconciles that hold a place of the current limiter
  earlier,    \* reconciles of earlier iterations, which hold none of it
  server,     \* "starting", "listening", "closing" once Shutdown was called
  requests,   \* requests being handled
  exit        \* how the process ended: "none" while it runs

loops == <<loop, todo, working, earlier>>
api == <<server, requests>>
vars == <<signalled, cancelled, loops, api, exit>>

TypeOK ==
  /\ signalled \in BOOLEAN
  /\ cancelled \in BOOLEAN
  /\ loop \in [Controller -> {"select", "check", "send"}]
  /\ todo \in [Controller -> Nat]
  /\ working \in [Controller -> 0 .. Places]
  /\ earlier \in [Controller -> Nat]
  /\ server \in {"starting", "listening", "closing"}
  /\ requests \subseteq Request
  /\ exit \in {"none", "ok", "failed"}

Init ==
  /\ signalled = FALSE
  /\ cancelled = FALSE
  /\ loop = [c \in Controller |-> "select"]
  /\ todo = [c \in Controller |-> 0]
  /\ working = [c \in Controller |-> 0]
  /\ earlier = [c \in Controller |-> 0]
  /\ server = "starting"
  /\ requests = {}
  /\ exit = "none"

-------------------------------------------------------------------------------
(* A controller's loop.                                                    *)

\* The ticker fires and GetResources lists n resources; one that fails changes
\* nothing and is left out.  When the context is done as well, select may still
\* choose the ticker.
Tick(c, n) ==
  /\ exit = "none"
  /\ loop[c] = "select"
  /\ earlier[c] + working[c] <= MaxEarlier
  /\ loop' = [loop EXCEPT ![c] = "check"]
  /\ todo' = [todo EXCEPT ![c] = n]
  /\ earlier' = [earlier EXCEPT ![c] = @ + working[c]]
  /\ working' = [working EXCEPT ![c] = 0]
  /\ UNCHANGED <<signalled, cancelled, api, exit>>

\* Mutant: the iteration returns instead of waiting when the places are taken.
CheckContextDropping(c) ==
  /\ exit = "none"
  /\ loop[c] = "check"
  /\ todo[c] > 0
  /\ loop' = [loop EXCEPT ![c] =
                IF cancelled \/ working[c] = Places THEN "select" ELSE "send"]
  /\ UNCHANGED <<signalled, cancelled, todo, working, earlier, api, exit>>

\* Before each resource: the iteration returns when the context is done.
CheckContext(c) ==
  /\ exit = "none"
  /\ loop[c] = "check"
  /\ todo[c] > 0
  /\ loop' = [loop EXCEPT ![c] = IF cancelled THEN "select" ELSE "send"]
  /\ UNCHANGED <<signalled, cancelled, todo, working, earlier, api, exit>>

\* Mutant: the goroutine is started without a place of the limiter.
StartReconcileUnlimited(c) ==
  /\ exit = "none"
  /\ loop[c] = "send"
  /\ loop' = [loop EXCEPT ![c] = "check"]
  /\ todo' = [todo EXCEPT ![c] = @ - 1]
  /\ working' = [working EXCEPT ![c] = @ + 1]
  /\ UNCHANGED <<signalled, cancelled, earlier, api, exit>>

\* There is a place: a goroutine is started for the resource.
StartReconcile(c) ==
  /\ exit = "none"
  /\ loop[c] = "send"
  /\ working[c] < Places
  /\ loop' = [loop EXCEPT ![c] = "check"]
  /\ todo' = [todo EXCEPT ![c] = @ - 1]
  /\ working' = [working EXCEPT ![c] = @ + 1]
  /\ UNCHANGED <<signalled, cancelled, earlier, api, exit>>

EndIteration(c) ==
  /\ exit = "none"
  /\ loop[c] = "check"
  /\ todo[c] = 0
  /\ loop' = [loop EXCEPT ![c] = "select"]
  /\ UNCHANGED <<signalled, cancelled, todo, working, earlier, api, exit>>

\* Mutant: a reconcile ends without giving its place back.
ReconcileEndsInPlace(c) ==
  /\ exit = "none"
  /\ earlier[c] > 0
  /\ earlier' = [earlier EXCEPT ![c] = @ - 1]
  /\ UNCHANGED <<signalled, cancelled, loop, todo, working, api, exit>>

ReconcileEnds(c) ==
  /\ exit = "none"
  /\ \/ /\ working[c] > 0
        /\ working' = [working EXCEPT ![c] = @ - 1]
        /\ UNCHANGED earlier
     \/ /\ earlier[c] > 0
        /\ earlier' = [earlier EXCEPT ![c] = @ - 1]
        /\ UNCHANGED working
  /\ UNCHANGED <<signalled, cancelled, loop, todo, api, exit>>

\* The loop finds the context done and returns its error, which is fatal.
LoopFails(c) ==
  /\ exit = "none"
  /\ loop[c] = "select"
  /\ cancelled
  /\ exit' = "failed"
  /\ UNCHANGED <<signalled, cancelled, loops, api>>

-------------------------------------------------------------------------------
(* The state API's server.                                                 *)

Listen ==
  /\ exit = "none"
  /\ server = "starting"
  /\ server' = "listening"
  /\ UNCHANGED <<signalled, cancelled, loops, requests, exit>>

\* ListenAndServe fails, which is fatal.
ListenFails ==
  /\ exit = "none"
  /\ server = "starting"
  /\ exit' = "failed"
  /\ UNCHANGED <<signalled, cancelled, loops, api>>

Arrive(r) ==
  /\ exit = "none"
  /\ server = "listening"
  /\ r \notin requests
  /\ requests' = requests \cup {r}
  /\ UNCHANGED <<signalled, cancelled, loops, server, exit>>

Answer(r) ==
  /\ exit = "none"
  /\ r \in requests
  /\ requests' = requests \ {r}
  /\ UNCHANGED <<signalled, cancelled, loops, server, exit>>

\* Shutdown closes the listener; ListenAndServe returns at once and Start with
\* it, while the goroutine waits for the requests.
Shutdown ==
  /\ exit = "none"
  /\ cancelled
  /\ server # "closing"
  /\ server' = "closing"
  /\ UNCHANGED <<signalled, cancelled, loops, requests, exit>>

-------------------------------------------------------------------------------
(* main.                                                                   *)

Signal ==
  /\ exit = "none"
  /\ ~signalled
  /\ signalled' = TRUE
  /\ UNCHANGED <<cancelled, loops, api, exit>>

\* Mutant: main first waits for the controllers to end.
MainReturnsLate ==
  /\ exit = "none"
  /\ signalled
  /\ ~cancelled
  /\ \A c \in Controller : loop[c] = "ended"
  /\ cancelled' = TRUE
  /\ UNCHANGED <<signalled, loops, api, exit>>

\* main returns: its deferred cancel is the last thing it does.
MainReturns ==
  /\ exit = "none"
  /\ signalled
  /\ ~cancelled
  /\ cancelled' = TRUE
  /\ UNCHANGED <<signalled, loops, api, exit>>

\* And with main the process is over, whatever its goroutines do.
Exit ==
  /\ exit = "none"
  /\ cancelled
  /\ exit' = "ok"
  /\ UNCHANGED <<signalled, cancelled, loops, api>>

ControllerNext(c) ==
  \/ \E n \in 0 .. MaxResources : Tick(c, n)
  \/ CheckContext(c) \/ StartReconcile(c) \/ EndIteration(c)
  \/ ReconcileEnds(c) \/ LoopFails(c)

Next ==
  \/ \E c \in Controller : ControllerNext(c)
  \/ Listen \/ ListenFails \/ Shutdown
  \/ \E r \in Request : Arrive(r) \/ Answer(r)
  \/ Signal \/ MainReturns \/ Exit

Spec == Init /\ [][Next]_vars

-------------------------------------------------------------------------------
(* Safety.                                                                 *)

(* An iteration leaves resources out only when the process is stopping:    *)
(* full limiters delay reconciles, they never drop one                     *)
(* (controller_manager.go:91-108).                                         *)
LeavesNoneOut ==
  \A c \in Controller : loop[c] = "select" /\ todo[c] > 0 => cancelled

(* What the code's graceful shutdown with its timeout is for: a process    *)
(* that was told to end answers the requests it has begun to handle        *)
(* (server.go:75-86).  Nothing waits for it: main cancels the context and  *)
(* is over (main.go:21, 56-58).                                            *)
ShutdownIsGraceful == exit = "ok" => requests = {}

-------------------------------------------------------------------------------
(* Liveness.                                                               *)

\* Goroutines run on: reconciles and loops, main, the server.
Fairness ==
  /\ \A c \in Controller :
       /\ WF_vars(CheckContext(c) \/ StartReconcile(c) \/ EndIteration(c))
       /\ WF_vars(ReconcileEnds(c))
  /\ WF_vars(MainReturns) /\ WF_vars(Exit)

FairSpec == Spec /\ Fairness

(* An iteration ends even if it lists more resources than there are places *)
(* and reconciles of earlier iterations still go on                        *)
(* (controller_manager.go:89-107).                                         *)
IterationsEnd ==
  \A c \in Controller : loop[c] # "select" ~> loop[c] = "select" \/ exit # "none"

(* A process that was told to end ends, in the middle of iterations and    *)
(* with requests unanswered too (main.go:55-57,                            *)
(* controller_manager.go:123-125).                                         *)
EndsWhenTold == signalled ~> exit # "none"
===============================================================================
