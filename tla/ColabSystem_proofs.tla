------------------------- MODULE ColabSystem_proofs -------------------------
(***************************************************************************)
(* Proofs about ColabSystem, for every value of its constants.             *)
(*                                                                         *)
(* Each of its steps is a step of WorkerManager or leaves it alone, so     *)
(* what is proved of WorkerManager holds behind the Colab driver.  On top  *)
(* of that, CallInv says where in _do_startup and in the loop each CLI     *)
(* call can be under way, and ReleaseInv what those calls leave behind.    *)
(***************************************************************************)
EXTENDS ColabSystem, WorkerManager_proofs

USE DEF allVars, colabVars, vars, statusVars, startupVars, requestVars, semaphoreVars, loopVars

----------------------------------------------------------------------------
(* ColabSystem implements WorkerManager                                     *)

LEMMA ColabStep == [ColabNext]_allVars => [Next]_vars
  <1> SUFFICES ASSUME [ColabNext]_allVars PROVE Next \/ UNCHANGED vars
    OBVIOUS
  <1>1. CASE ControllerStep
    BY <1>1 DEF ControllerStep, Next, RequestStep, LoopStep, IncidentStep
  <1>2. ASSUME NEW r \in Requests, Inferred(r) PROVE Next
    BY <1>2 DEF Inferred, Next, RequestStep, InferenceAnswers
  <1>3. ASSUME NEW t \in Tasks, Starts(t) \/ Started(t) \/ StartFailed(t) \/ CleanedUp(t)
        PROVE  Next
    BY <1>3 DEF Starts, Started, StartFailed, CleanedUp, Next, StartupStep
  <1>4. ASSUME NEW t \in Tasks,
               NewSucceeds(t) \/ NewLeaks(t) \/ UploadOrInstall(t) \/ BootstrapReady(t)
                 \/ CallFails(t)
        PROVE  UNCHANGED vars
    BY <1>4 DEF NewSucceeds, NewLeaks, UploadOrInstall, BootstrapReady, CallFails
  <1>5. CASE Probed \/ LoopStopped \/ ForcedStop
    BY <1>5 DEF Probed, LoopStopped, ForcedStop, Next, LoopStep, HealthReturns, IncidentStep
  <1>6. ASSUME NEW c \in Stoppers, StopReleases(c) \/ StopFails(c) PROVE UNCHANGED vars
    BY <1>6 DEF StopReleases, StopFails
  <1>7. CASE SessionLost
    BY <1>7 DEF SessionLost
  <1>8. CASE ProcessEnds
    BY <1>8 DEF ProcessEnds, Next, IncidentStep
  <1>9. CASE UNCHANGED allVars
    BY <1>9
  <1> QED
    BY <1>1, <1>2, <1>3, <1>4, <1>5, <1>6, <1>7, <1>8, <1>9 DEF ColabNext

\* The controller over the Colab driver behaves like the controller over any
\* driver (colab_driver.py:31-92): each theorem about WorkerManager holds here.
THEOREM ColabImplementsManager == ColabSpec => Spec
  <1>1. ColabInit => Init
    BY DEF ColabInit
  <1> QED
    BY <1>1, ColabStep, PTL DEF ColabSpec, Spec

LEMMA ManagerInvariants == ColabSpec => [](SlotInv /\ FlightInv)
  BY ColabImplementsManager, SlotInvariant, FlightInvariant, PTL

----------------------------------------------------------------------------
(* Where the CLI calls are                                                  *)

\* driver.start runs for a task that awaits it, and so does its cleanup's stop.
StartsAwaited == \A t \in Tasks : provision[t] # "idle" => task[t] = "starting"
CleanupsAwaited == \A t \in Tasks : stop_call[t] # "idle" => task[t] = "cleaning"

\* The idle stop's call runs while the loop awaits it.
LoopStopAwaited == stop_call["loop"] # "idle" => loop = "stopping"

\* Once the server shuts down nothing is asked of it any more.
Drained ==
    /\ loop = "exited" => stop_event
    /\ stop_event => \A r \in Requests : req[r] \in {"idle"} \cup Answers

\* STOPPING is only the state of an idle stop as long as no startup has begun.
StoppingQuiet ==
    state = "STOPPING" /\ ~forced => \A t \in Tasks : task[t] \in {"done", "created"}

CallInv ==
    /\ ColabTypeOK
    /\ StartsAwaited /\ CleanupsAwaited /\ LoopStopAwaited
    /\ Drained
    /\ StoppingQuiet

LEMMA CallInit == ColabInit => CallInv
  <1> SUFFICES ASSUME ColabInit PROVE CallInv
    OBVIOUS
  <1>1. TypeOK
    BY SlotInit DEF ColabInit, SlotInv
  <1> QED
    BY <1>1
    DEF ColabInit, Init, FreshProcess, DefaultStatus, NoCalls, CallInv, ColabTypeOK, Sessions, Provisions, Calls,
        Stoppers,        StartsAwaited, CleanupsAwaited, LoopStopAwaited, Drained, StoppingQuiet, Answers

\* What the steps that make no call of the driver do to the tasks and the state.
LEMMA ControllerFrame ==
  ASSUME SlotInv, CallInv, ControllerStep
  PROVE  /\ UNCHANGED <<state, forced>>
         /\ \A t \in Tasks : task'[t] = task[t] \/ (task[t] = "done" /\ task'[t] = "created")
         /\ loop = "stopping" => loop' = "stopping"
         /\ Drained'
  <1> USE DEF SlotInv, TypeOK, CallInv, Drained
  <1>1. ASSUME NEW r \in Requests, ArriveReady(r) \/ ArriveCooling(r)
        PROVE  /\ UNCHANGED <<state, forced, task, loop>>
               /\ Drained'
    BY <1>1 DEF ArriveReady, ArriveCooling
  <1>2. ASSUME NEW r \in Requests, ArriveWaiting(r)
        PROVE  /\ UNCHANGED <<state, forced, loop>>
               /\ \A t \in Tasks : task'[t] = task[t] \/ (task[t] = "done" /\ task'[t] = "created")
               /\ Drained'
    BY <1>2 DEF ArriveWaiting
  <1>3. ASSUME NEW r \in Requests, WakeReady(r) \/ WakeFailed(r) \/ ResumeGranted(r)
        PROVE  /\ UNCHANGED <<state, forced, task, loop>>
               /\ Drained'
    <2>1. /\ req[r] \in {"ready", "failed", "granted"}
          /\ UNCHANGED <<state, forced, task, loop, stop_event>>
      BY <1>3 DEF WakeReady, WakeFailed, ResumeGranted
    <2>2. ~stop_event
      BY <2>1 DEF Answers
    <2> QED
      BY <2>1, <2>2
  <1>5. ASSUME NEW r \in Requests, Retire(r)
        PROVE  /\ UNCHANGED <<state, forced, task, loop>>
               /\ Drained'
    BY <1>5 DEF Retire
  <1>4. ASSUME LoopWakes \/ LoopExits \/ Shutdown \/ Tick
        PROVE  /\ UNCHANGED <<state, forced, task>>
               /\ loop = "stopping" => loop' = "stopping"
               /\ Drained'
    BY <1>4 DEF LoopWakes, LoopExits, Shutdown, Tick
  <1> QED
    BY <1>1, <1>2, <1>3, <1>4, <1>5 DEF ControllerStep

LEMMA CallStep ==
  SlotInv /\ FlightInv /\ CallInv /\ [ColabNext]_allVars => CallInv'
  <1> SUFFICES ASSUME SlotInv, FlightInv, CallInv, [ColabNext]_allVars PROVE CallInv'
    OBVIOUS
  <1>0. TypeOK /\ TypeOK'
    BY ColabStep, SlotStep DEF SlotInv
  <1> USE StoppersAssumption DEF ColabTypeOK, Stoppers
  <1>1. CASE ControllerStep
    BY <1>0, <1>1, ControllerFrame
    DEF ControllerStep, CallInv, StartsAwaited, CleanupsAwaited, LoopStopAwaited, StoppingQuiet
  <1>2. ASSUME NEW r \in Requests, Inferred(r) PROVE CallInv'
    <2>1. UNCHANGED <<state, forced, task, loop, stop_event, colabVars>> /\ req[r] = "inferring"
      BY <1>2 DEF Inferred, InferReturns
    <2>2. ~stop_event
      BY <2>1 DEF CallInv, Drained, Answers
    <2> QED
      BY <1>0, <2>1, <2>2
      DEF CallInv, StartsAwaited, CleanupsAwaited, LoopStopAwaited, StoppingQuiet, Drained
  <1>3. ASSUME NEW t \in Tasks, Starts(t) PROVE CallInv'
    <2>1. /\ task' = [task EXCEPT ![t] = "starting"] /\ task[t] \in {"created", "backoff"}
          /\ state' = "LOADING_MODEL"
          /\ UNCHANGED <<req, loop, stop_event, session, stop_call>>
          /\ provision' = [provision EXCEPT ![t] = "new"]
      BY <1>3 DEF Starts, StartupBegins, BackoffEnds
    <2> QED
      BY <1>0, <2>1
      DEF CallInv, StartsAwaited, CleanupsAwaited, LoopStopAwaited, StoppingQuiet, Drained,
          TypeOK, Provisions, Calls
  <1>4. ASSUME NEW t \in Tasks, Started(t) PROVE CallInv'
    <2>1. /\ task' = [task EXCEPT ![t] = "done"] /\ task[t] = "starting" /\ Deliver(t, "READY")
          /\ state' = "READY"
          /\ UNCHANGED <<loop, stop_event, session, stop_call>>
          /\ provision' = [provision EXCEPT ![t] = "idle"]
      BY <1>4 DEF Started, StartSucceeds
    <2>2. Drained'
      BY <2>1 DEF CallInv, Drained, Deliver, Answers
    <2> QED
      BY <1>0, <2>1, <2>2
      DEF CallInv, StartsAwaited, CleanupsAwaited, LoopStopAwaited, StoppingQuiet, TypeOK,
          Provisions
  <1>5. ASSUME NEW t \in Tasks, StartFailed(t) PROVE CallInv'
    <2>1. /\ task' = [task EXCEPT ![t] = "cleaning"] /\ task[t] = "starting"
          /\ state' = "ERROR"
          /\ UNCHANGED <<req, loop, stop_event, session>>
          /\ provision' = [provision EXCEPT ![t] = "idle"]
          /\ stop_call' = [stop_call EXCEPT ![t] = "running"]
      BY <1>5 DEF StartFailed, StartFails, CleanupCall
    <2> QED
      BY <1>0, <2>1
      DEF CallInv, StartsAwaited, CleanupsAwaited, LoopStopAwaited, StoppingQuiet, Drained,
          TypeOK, Provisions
  <1>6. ASSUME NEW t \in Tasks, CleanedUp(t) PROVE CallInv'
    <2>1. /\ task[t] = "cleaning" /\ task' \in {[task EXCEPT ![t] = p] : p \in {"backoff", "done"}}
          /\ UNCHANGED <<state, forced, loop, stop_event, session, provision>>
          /\ stop_call' = [stop_call EXCEPT ![t] = "idle"]
          /\ req' = req \/ Deliver(t, state)
      BY <1>6 DEF CleanedUp, CleanupReturns
    <2>2. Drained'
      BY <2>1 DEF CallInv, Drained, Deliver, Answers
    <2>3. StoppingQuiet'
      BY <2>1 DEF CallInv, StoppingQuiet
    <2>4. StartsAwaited' /\ CleanupsAwaited'
      <3>1. \A u \in Tasks \ {t} : task'[u] = task[u] /\ stop_call'[u] = stop_call[u]
        BY <1>0, <2>1 DEF TypeOK
      <3>2. stop_call'[t] = "idle" /\ provision'[t] = "idle"
        BY <2>1 DEF CallInv, StartsAwaited
      <3> QED
        BY <2>1, <3>1, <3>2 DEF CallInv, StartsAwaited, CleanupsAwaited
    <2> QED
      BY <1>0, <2>1, <2>2, <2>3, <2>4 DEF CallInv, LoopStopAwaited
  <1>7. ASSUME NEW t \in Tasks,
               NewSucceeds(t) \/ NewLeaks(t) \/ UploadOrInstall(t) \/ BootstrapReady(t)
                 \/ CallFails(t)
        PROVE  CallInv'
    <2>1. /\ provision[t] # "idle" /\ session' \in Sessions
          /\ \E p \in Provisions : provision' = [provision EXCEPT ![t] = p]
          /\ UNCHANGED <<vars, stop_call>>
      BY <1>7 DEF NewSucceeds, NewLeaks, UploadOrInstall, BootstrapReady, CallFails, NextCall,
                  Provisions, Calls, Sessions, CallInv
    <2> QED
      BY <1>0, <2>1
      DEF CallInv, StartsAwaited, CleanupsAwaited, LoopStopAwaited, StoppingQuiet, Drained
  <1>8. CASE Probed
    <2>1. /\ UNCHANGED <<task, req, stop_event, forced, session, provision>>
          /\ loop = "health" /\ loop' \in {"waiting", "stopping"}
          /\ state' = "STOPPING" => state = "STOPPING" \/ (state = "READY" /\ loop' = "stopping")
          /\ stop_call' = IF loop' = "stopping"
                          THEN [stop_call EXCEPT !["loop"] = "running"] ELSE stop_call
      BY <1>8 DEF Probed, HealthReplies, RestOfIteration, HealthRaises
    <2>2. state = "READY" => \A t \in Tasks : task[t] = "done"
      BY DEF FlightInv, ReadyMeansStarted
    <2> QED
      BY <1>0, <2>1, <2>2
      DEF CallInv, StartsAwaited, CleanupsAwaited, LoopStopAwaited, StoppingQuiet, Drained
  <1>9. CASE LoopStopped
    BY <1>0, <1>9
    DEF LoopStopped, LoopStopReturns, MarkOffline, CallInv, StartsAwaited, CleanupsAwaited,
        LoopStopAwaited, StoppingQuiet, Drained
  <1>10. CASE ForcedStop
    BY <1>0, <1>10
    DEF ForcedStop, ForceStopBegins, ForceStopReturns, MarkOffline, CallInv, StartsAwaited,
        CleanupsAwaited, LoopStopAwaited, StoppingQuiet, Drained
  <1>11. ASSUME NEW c \in Stoppers, StopReleases(c) \/ StopFails(c) PROVE CallInv'
    <2>1. /\ stop_call[c] # "idle" /\ stop_call' = [stop_call EXCEPT ![c] = "returned"]
          /\ session' \in {session, "none"}
          /\ UNCHANGED <<vars, provision>>
      BY <1>11 DEF StopReleases, StopFails
    <2> QED
      BY <1>0, <2>1
      DEF CallInv, StartsAwaited, CleanupsAwaited, LoopStopAwaited, StoppingQuiet, Drained,
          Sessions
  <1>12. CASE SessionLost
    BY <1>0, <1>12
    DEF SessionLost, CallInv, StartsAwaited, CleanupsAwaited, LoopStopAwaited, StoppingQuiet,
        Drained, Sessions
  <1>13. CASE ProcessEnds
    <2>1. Boot /\ session' = session
      BY <1>13 DEF ProcessEnds, Restart, Crash, TornSave
    <2>2. /\ provision' = [t \in Tasks |-> "idle"]
          /\ stop_call' = [c \in Stoppers |-> "idle"]
      BY <1>13 DEF ProcessEnds
    <2> QED
      BY <1>0, <2>1, <2>2
      DEF Boot, CallInv, StartsAwaited, CleanupsAwaited, LoopStopAwaited, StoppingQuiet,
          Drained, Provisions
  <1>14. CASE UNCHANGED allVars
    BY <1>0, <1>14
    DEF CallInv, StartsAwaited, CleanupsAwaited, LoopStopAwaited, StoppingQuiet, Drained
  <1> QED
    BY <1>1, <1>2, <1>3, <1>4, <1>5, <1>6, <1>7, <1>8, <1>9, <1>10, <1>11, <1>12, <1>13, <1>14
    DEF ColabNext

LEMMA CallInvariant == ColabSpec => []CallInv
  BY CallInit, CallStep, ManagerInvariants, PTL DEF ColabSpec

\* The session, driver.start and the driver.stops stay in their types, on top of
\* WorkerManager's.
THEOREM ColabTypesCorrect == ColabSpec => []ColabTypeOK
  <1>1. CallInv => ColabTypeOK
    BY DEF CallInv
  <1> QED
    BY <1>1, CallInvariant, PTL

\* Two driver.start calls never overlap (worker_manager.py:48-56,
\* colab_driver.py:37-69): no `colab new` runs beside another one.
THEOREM OneProvisioningAtATime == ColabSpec => []OneProvisioning
  <1>1. CallInv /\ FlightInv => OneProvisioning
    BY DEF CallInv, StartsAwaited, FlightInv, SingleStartup, OneProvisioning
  <1> QED
    BY <1>1, CallInvariant, ManagerInvariants, PTL

\* When the lifespan is over (lifecycle_manager.py:23-26), no startup runs and the
\* idle stop is done.
THEOREM GracefulExitIsQuiet == ColabSpec => []GracefulExitQuiet
  <1>1. CallInv /\ FlightInv => GracefulExitQuiet
    <2> SUFFICES ASSUME CallInv, FlightInv, loop = "exited"
                 PROVE  /\ \A t \in Tasks : provision[t] = "idle"
                        /\ \A c \in Stoppers \ {"force"} : stop_call[c] = "idle"
      BY DEF GracefulExitQuiet
    <2>1. \A r \in Requests : req[r] # "joined"
      BY DEF CallInv, Drained, Answers
    <2>2. \A t \in Tasks : task[t] = "done"
      BY <2>1 DEF FlightInv, StartupAwaited
    <2> QED
      BY <2>2 DEF CallInv, StartsAwaited, CleanupsAwaited, LoopStopAwaited, Stoppers
  <1> QED
    BY <1>1, CallInvariant, ManagerInvariants, PTL

----------------------------------------------------------------------------
(* What the calls leave behind, as long as `colab stop` works               *)

ReleaseInv == FailedAttemptLeavesNothing /\ UndisturbedStopReleases

\* A session only appears while its task is in driver.start: then no other task
\* is anywhere, and no idle stop is undisturbed.
LEMMA NewDisturbs ==
  ASSUME FlightInv, CallInv, NEW t \in Tasks, provision[t] # "idle"
  PROVE  /\ \A u \in Tasks : task[u] # "backoff" /\ stop_call[u] = "idle"
         /\ ~(state = "STOPPING" /\ ~forced)
  BY DEF FlightInv, SingleStartup, CallInv, StartsAwaited, CleanupsAwaited, StoppingQuiet

LEMMA ReleaseStep ==
  ASSUME "stop_fails" \notin ColabIncidents,
         SlotInv, FlightInv, CallInv, CallInv', ReleaseInv, [ColabNext]_allVars
  PROVE  ReleaseInv'
  <1>0. TypeOK
    BY DEF SlotInv
  <1> USE StoppersAssumption DEF ReleaseInv, FailedAttemptLeavesNothing, UndisturbedStopReleases
  <1>1. CASE ControllerStep
    BY <1>1, ControllerFrame DEF ControllerStep
  <1>2. ASSUME NEW r \in Requests, Inferred(r) PROVE ReleaseInv'
    BY <1>2 DEF Inferred, InferReturns
  <1>3. ASSUME NEW t \in Tasks, Starts(t) PROVE ReleaseInv'
    <2>1. /\ task' = [task EXCEPT ![t] = "starting"] /\ state' = "LOADING_MODEL"
          /\ UNCHANGED <<session, stop_call>>
      BY <1>3 DEF Starts, StartupBegins, BackoffEnds
    <2> QED
      BY <1>0, <2>1 DEF TypeOK
  <1>4. ASSUME NEW t \in Tasks, Started(t) PROVE ReleaseInv'
    <2>1. /\ task' = [task EXCEPT ![t] = "done"] /\ state' = "READY"
          /\ UNCHANGED <<session, stop_call>>
      BY <1>4 DEF Started, StartSucceeds
    <2> QED
      BY <1>0, <2>1 DEF TypeOK
  <1>5. ASSUME NEW t \in Tasks, StartFailed(t) PROVE ReleaseInv'
    <2>1. /\ task' = [task EXCEPT ![t] = "cleaning"] /\ state' = "ERROR"
          /\ stop_call' = [stop_call EXCEPT ![t] = "running"] /\ UNCHANGED session
      BY <1>5 DEF StartFailed, StartFails, CleanupCall
    <2> QED
      BY <1>0, <2>1 DEF TypeOK, CallInv, ColabTypeOK, Stoppers
  <1>6. ASSUME NEW t \in Tasks, CleanedUp(t) PROVE ReleaseInv'
    <2>1. /\ stop_call[t] = "returned" /\ stop_call' = [stop_call EXCEPT ![t] = "idle"]
          /\ UNCHANGED <<state, forced, session>>
      BY <1>6 DEF CleanedUp, CleanupReturns
    <2>2. session' = "none"
      BY <2>1
    <2> QED
      BY <2>2
  <1>7. ASSUME NEW t \in Tasks,
               NewSucceeds(t) \/ NewLeaks(t) \/ UploadOrInstall(t) \/ BootstrapReady(t)
                 \/ CallFails(t)
        PROVE  ReleaseInv'
    <2>1. provision[t] # "idle" /\ UNCHANGED <<vars, stop_call>>
      BY <1>7 DEF NewSucceeds, NewLeaks, UploadOrInstall, BootstrapReady, CallFails, NextCall,
                  Calls
    <2> QED
      BY <2>1, NewDisturbs
  <1>8. CASE Probed
    <2>1. /\ UNCHANGED <<task, session>> /\ loop = "health"
          /\ \A t \in Tasks : stop_call'[t] = stop_call[t]
          /\ stop_call'["loop"] \in {stop_call["loop"], "running"}
      BY <1>8 DEF Probed, HealthReplies, RestOfIteration, HealthRaises, CallInv, ColabTypeOK,
                  Stoppers
    <2>2. stop_call["loop"] = "idle"
      BY <2>1 DEF CallInv, LoopStopAwaited, ColabTypeOK, Stoppers
    <2> QED
      BY <2>1, <2>2
  <1>9. CASE LoopStopped
    <2>1. /\ UNCHANGED <<task, session>> /\ state' = "OFFLINE"
          /\ \A t \in Tasks : stop_call'[t] = stop_call[t]
      BY <1>9 DEF LoopStopped, LoopStopReturns, MarkOffline, CallInv, ColabTypeOK, Stoppers
    <2> QED
      BY <2>1
  <1>10. CASE ForcedStop
    <2>1. /\ UNCHANGED <<task, session>> /\ (forced' \/ state' = "OFFLINE")
          /\ \A t \in Tasks : stop_call'[t] = stop_call[t]
      BY <1>10 DEF ForcedStop, ForceStopBegins, ForceStopReturns, MarkOffline, CallInv,
                   ColabTypeOK, Stoppers
    <2> QED
      BY <2>1
  <1>11. ASSUME NEW c \in Stoppers, StopReleases(c) PROVE ReleaseInv'
    BY <1>11 DEF StopReleases
  <1>12. CASE SessionLost
    BY <1>12 DEF SessionLost
  <1>13. CASE ProcessEnds
    <2>1. /\ \A t \in Tasks : task'[t] = "done" /\ stop_call'[t] = "idle"
          /\ stop_call'["loop"] = "idle"
      BY <1>13 DEF ProcessEnds, Restart, Crash, TornSave, Boot, Stoppers
    <2> QED
      BY <2>1
  <1>14. CASE UNCHANGED allVars
    BY <1>14
  <1> QED
    BY <1>1, <1>2, <1>3, <1>4, <1>5, <1>6, <1>7, <1>8, <1>9, <1>10, <1>11, <1>12, <1>13, <1>14
    DEF ColabNext, StopFails

LEMMA ReleaseInvariant ==
  ASSUME "stop_fails" \notin ColabIncidents
  PROVE  ColabSpec => []ReleaseInv
  <1>1. ColabInit => ReleaseInv
    BY DEF ColabInit, ReleaseInv, FailedAttemptLeavesNothing, UndisturbedStopReleases
  <1>2. SlotInv /\ FlightInv /\ CallInv /\ CallInv' /\ ReleaseInv /\ [ColabNext]_allVars
          => ReleaseInv'
    BY ReleaseStep
  <1> QED
    BY <1>1, <1>2, CallInvariant, ManagerInvariants, PTL DEF ColabSpec

\* After a failed attempt driver.stop runs before anything else is tried or said
\* (worker_manager.py:159-171), and finds whatever the attempt has left: provided
\* that `colab stop` works, no failed attempt leaves a session behind.
THEOREM FailedAttemptsClean ==
  ASSUME "stop_fails" \notin ColabIncidents
  PROVE  ColabSpec => []FailedAttemptLeavesNothing
  <1>1. ReleaseInv => FailedAttemptLeavesNothing
    BY DEF ReleaseInv
  <1> QED
    BY <1>1, ReleaseInvariant, PTL

\* An idle stop that nobody interferes with (worker_manager.py:178-192) has
\* released the session when its `colab stop` is back, provided that one works.
THEOREM UndisturbedStopsRelease ==
  ASSUME "stop_fails" \notin ColabIncidents
  PROVE  ColabSpec => []UndisturbedStopReleases
  <1>1. ReleaseInv => UndisturbedStopReleases
    BY DEF ReleaseInv
  <1> QED
    BY <1>1, ReleaseInvariant, PTL

=============================================================================
