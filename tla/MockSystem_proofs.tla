-------------------------- MODULE MockSystem_proofs --------------------------
(***************************************************************************)
(* Proofs about MockSystem, for every value of its constants: it            *)
(* implements WorkerManager, its registry credits no stranger, and _proc    *)
(* loses no worker unless driver calls overlap or a live one is given up.  *)
(***************************************************************************)
EXTENDS MockSystem, WorkerManager_proofs

USE DEF allVars, mockVars, workerVars, driverVars,
        vars, statusVars, startupVars, requestVars, semaphoreVars, loopVars

----------------------------------------------------------------------------
(* MockSystem implements WorkerManager                                      *)

WorkerStep(w) == Bind(w) \/ Unbind(w) \/ Load(w) \/ Beat(w) \/ WorkerExits(w) \/ Handle(w)
StartStep(t) == ClearRegistry(t) \/ Spawn(t) \/ PollReady(t) \/ PollFails(t)

\* What every step of a stop leaves alone, and where it can go.
LEMMA StopFrame ==
  ASSUME NEW c \in Stoppers, StopStep(c)
  PROVE  /\ UNCHANGED <<vars, own, mail, polling, astray>>
         /\ stop_call[c] # "idle"
         /\ \E p \in StopPhases \ {"idle"} : stop_call' = [stop_call EXCEPT ![c] = p]
  <1> USE DEF StopGoesOn, StopPhases
  <1>1. CASE StopChecks(c)
    BY <1>1 DEF StopChecks
  <1>2. CASE StopTerminates(c)
    BY <1>2 DEF StopTerminates
  <1>3. CASE StopReaps(c) \/ StopForgets(c) \/ StopClears(c)
    BY <1>3 DEF StopReaps, StopForgets, StopClears
  <1>4. CASE StopKills(c)
    BY <1>4 DEF StopKills
  <1> QED
    BY <1>1, <1>2, <1>3, <1>4 DEF StopStep

LEMMA MockStep == [MockNext]_allVars => [Next]_vars
  <1> SUFFICES ASSUME [MockNext]_allVars PROVE Next \/ UNCHANGED vars
    OBVIOUS
  <1>1. CASE ControllerStep
    BY <1>1 DEF ControllerStep, Next, RequestStep, LoopStep, IncidentStep
  <1>2. CASE MockTick
    BY <1>2 DEF MockTick, Next
  <1>3. ASSUME NEW r \in Requests, Inferred(r) PROVE Next
    BY <1>3 DEF Inferred, Next, RequestStep, InferenceAnswers
  <1>4. ASSUME NEW w \in Workers, WorkerStep(w) PROVE UNCHANGED vars
    BY <1>4 DEF WorkerStep, Bind, Unbind, Load, Beat, WorkerExits, Handle
  <1>5. ASSUME NEW t \in Tasks, Starts(t) \/ Started(t) \/ StartFailed(t) \/ CleanedUp(t)
        PROVE  Next
    BY <1>5 DEF Starts, Started, StartFailed, CleanedUp, Next, StartupStep
  <1>6. ASSUME NEW t \in Tasks, StartStep(t) PROVE UNCHANGED vars
    BY <1>6 DEF StartStep, ClearRegistry, Spawn, PollReady, PollFails
  <1>7. ASSUME NEW c \in Stoppers, StopStep(c) PROVE UNCHANGED vars
    BY <1>7, StopFrame
  <1>8. CASE Probed
    BY <1>8, MockHealthAssumption DEF Probed, Next, LoopStep, HealthReturns
  <1>9. CASE LoopStopped \/ ForcedStop
    BY <1>9 DEF LoopStopped, ForcedStop, Next, LoopStep, IncidentStep
  <1>10. CASE ProcessEnds
    BY <1>10 DEF ProcessEnds, Next, IncidentStep
  <1>11. CASE UNCHANGED allVars
    BY <1>11
  <1> QED
    BY <1>1, <1>2, <1>3, <1>4, <1>5, <1>6, <1>7, <1>8, <1>9, <1>10, <1>11
    DEF MockNext, WorkerStep, StartStep

\* The controller over the mock driver behaves like the controller over any
\* driver (mock_driver.py:24-88): each theorem about WorkerManager holds here.
THEOREM MockImplementsManager == MockSpec => Spec
  <1>1. MockInit => Init
    BY DEF MockInit
  <1> QED
    BY <1>1, MockStep, PTL DEF MockSpec, Spec

LEMMA ManagerTypes == MockSpec => []TypeOK
  BY MockImplementsManager, TypeCorrect, PTL

----------------------------------------------------------------------------
(* Types                                                                    *)

\* The variables this module adds.
DriverTypeOK ==
    /\ worker \in [Workers -> Statuses \cup {"none"}]
    /\ terminated \subseteq Workers /\ own \subseteq Workers
    /\ port \in Workers \cup {None}
    /\ mail \in [Workers -> Mails]
    /\ last \in Pushes \cup {None}
    /\ proc \in Workers \cup {None}
    /\ polling \in [Tasks -> StartPhases]
    /\ stop_call \in [Stoppers -> StopPhases]
    /\ victim \in [Stoppers -> Workers \cup {None}]
    /\ astray \in BOOLEAN

StartsNow(t) == polling[t] \notin {"idle", "failed"}
StopsNow(c) == stop_call[c] # "idle"

\* What a beginning call leaves in `astray`.
LEMMA WatchTells ==
    ASSUME Watch
    PROVE  /\ astray' \in BOOLEAN
           /\ ~astray' => /\ ~astray
                         /\ \A t \in Tasks : ~StartsNow(t)
                         /\ \A c \in Stoppers : ~StopsNow(c)
  BY Zenon DEF Watch, StartsNow, StopsNow

\* And what a probe that stops nothing leaves in it.
LEMMA GivesUpTells ==
    ASSUME GivesUp, astray \in BOOLEAN
    PROVE  /\ astray' \in BOOLEAN
           /\ ~astray' => ~astray /\ ~(state' = "ERROR" /\ Running)
  BY Zenon DEF GivesUp

LEMMA DriverTypeStep == DriverTypeOK /\ [MockNext]_allVars => DriverTypeOK'
  <1> SUFFICES ASSUME DriverTypeOK, [MockNext]_allVars PROVE DriverTypeOK'
    OBVIOUS
  <1> USE DEF DriverTypeOK
  <1>1. CASE ControllerStep
    BY <1>1 DEF ControllerStep
  <1>2. CASE MockTick
    <2>1. last' \in Pushes \cup {None}
      <3>1. CASE last = None
        BY <1>2, <3>1 DEF MockTick
      <3>2. CASE last # None
        <4>1. last \in Pushes
          BY <3>2
        <4>2. Older(last.seen, HeartbeatTimeout + 1) \in 0..HeartbeatTimeout + 1
          BY <4>1, LimitsAssumption DEF Pushes, Older
        <4>3. last' = [last EXCEPT !.seen = Older(last.seen, HeartbeatTimeout + 1)]
          BY <1>2, <3>2 DEF MockTick
        <4> QED
          BY <4>1, <4>2, <4>3 DEF Pushes
      <3> QED
        BY <3>1, <3>2
    <2> QED
      BY <1>2, <2>1 DEF MockTick
  <1>3. ASSUME NEW r \in Requests, Inferred(r) PROVE DriverTypeOK'
    BY <1>3 DEF Inferred
  <1>4. ASSUME NEW w \in Workers,
               Bind(w) \/ Unbind(w) \/ Load(w) \/ Beat(w) \/ WorkerExits(w)
        PROVE  DriverTypeOK'
    BY <1>4 DEF Bind, Unbind, Load, Beat, WorkerExits, Gone, Statuses, Mails
  <1>5. ASSUME NEW w \in Workers, Handle(w) PROVE DriverTypeOK'
    <2>1. last' \in Pushes \cup {None}
      <3>1. CASE mail[w] # "heartbeat"
        <4>1. mail[w] \in Statuses /\ 0 \in 0..HeartbeatTimeout + 1
          BY <1>5, <3>1, LimitsAssumption DEF Handle, Mails
        <4> QED
          BY <1>5, <3>1, <4>1 DEF Handle, Pushes
      <3>2. CASE mail[w] = "heartbeat" /\ BeatCounts(w)
        <4>1. last \in Pushes /\ 0 \in 0..HeartbeatTimeout + 1 /\ "READY" \in Statuses
          BY <3>2, LimitsAssumption DEF BeatCounts, Statuses
        <4>2. last' = [last EXCEPT !.status = "READY", !.seen = 0, !.by = w]
          BY <1>5, <3>2 DEF Handle
        <4> QED
          BY <4>1, <4>2 DEF Pushes
      <3>3. CASE mail[w] = "heartbeat" /\ ~BeatCounts(w)
        BY <1>5, <3>3 DEF Handle
      <3> QED
        BY <3>1, <3>2, <3>3
    <2> QED
      BY <1>5, <2>1 DEF Handle, Mails
  <1>6. ASSUME NEW t \in Tasks, Starts(t) \/ Started(t) \/ StartFailed(t) \/ CleanedUp(t)
        PROVE  DriverTypeOK'
    <2>1. CASE Starts(t)
      BY <2>1, WatchTells DEF Starts, StartPhases
    <2>2. CASE Started(t)
      BY <2>2 DEF Started, StartPhases
    <2>3. CASE StartFailed(t)
      BY <2>3, WatchTells DEF StartFailed, StartPhases, StopPhases
    <2>4. CASE CleanedUp(t)
      BY <2>4 DEF CleanedUp, StopPhases
    <2> QED
      BY <1>6, <2>1, <2>2, <2>3, <2>4
  <1>7. ASSUME NEW t \in Tasks, StartStep(t) PROVE DriverTypeOK'
    <2>1. CASE Spawn(t)
      <3>1. PICK w \in Workers :
              /\ worker' = [worker EXCEPT ![w] = "LOADING_MODEL"]
              /\ mail' = [mail EXCEPT ![w] = "LOADING_MODEL"]
              /\ own' = own \cup {w} /\ proc' = w
        BY <2>1 DEF Spawn
      <3>2. /\ worker' \in [Workers -> Statuses \cup {"none"}]
            /\ mail' \in [Workers -> Mails]
        BY <3>1 DEF Statuses, Mails
      <3>3. /\ polling' \in [Tasks -> StartPhases]
            /\ UNCHANGED <<last, terminated, port, stop_call, victim, astray>>
        BY <2>1 DEF Spawn, StartPhases
      <3> QED
        BY <3>1, <3>2, <3>3
    <2>2. CASE ClearRegistry(t) \/ PollReady(t) \/ PollFails(t)
      BY <2>2 DEF ClearRegistry, PollReady, PollFails, StartPhases
    <2> QED
      BY <1>7, <2>1, <2>2 DEF StartStep
  <1>8. ASSUME NEW c \in Stoppers, StopStep(c) PROVE DriverTypeOK'
    <2>1. /\ stop_call' \in [Stoppers -> StopPhases]
          /\ UNCHANGED <<own, mail, polling, astray>>
      BY <1>8, StopFrame
    <2>2. CASE StopChecks(c) \/ StopTerminates(c)
      BY <2>1, <2>2 DEF StopChecks, StopTerminates, StopGoesOn, Running
    <2>3. CASE StopReaps(c) \/ StopForgets(c) \/ StopClears(c)
      BY <2>1, <2>3 DEF StopReaps, StopForgets, StopClears, StopGoesOn
    <2>4. CASE StopKills(c)
      BY <2>1, <2>4 DEF StopKills, StopGoesOn, Running, Gone
    <2> QED
      BY <1>8, <2>2, <2>3, <2>4 DEF StopStep
  <1>9. CASE Probed \/ LoopStopped \/ ForcedStop
    BY <1>9, WatchTells, GivesUpTells DEF Probed, LoopStopped, ForcedStop, StopPhases
  <1>10. CASE ProcessEnds
    BY <1>10 DEF ProcessEnds, Mails, StartPhases, StopPhases
  <1>11. CASE UNCHANGED allVars
    BY <1>11
  <1> QED
    BY <1>1, <1>2, <1>3, <1>4, <1>5, <1>6, <1>7, <1>8, <1>9, <1>10, <1>11
    DEF MockNext, StartStep

LEMMA DriverTypes == MockSpec => []DriverTypeOK
  <1>1. MockInit => DriverTypeOK
    <2> SUFFICES ASSUME MockInit PROVE DriverTypeOK
      OBVIOUS
    <2>1. /\ worker \in [Workers -> Statuses \cup {"none"}]
          /\ mail \in [Workers -> Mails]
      BY DEF MockInit, Mails
    <2> QED
      BY <2>1 DEF MockInit, NoCalls, DriverTypeOK, StartPhases, StopPhases
  <1> QED
    BY <1>1, DriverTypeStep, PTL DEF MockSpec

\* The workers, the registry's slot and the driver's calls keep to their types,
\* on top of WorkerManager's.
THEOREM MockTypesCorrect == MockSpec => []MockTypeOK
  <1>1. TypeOK /\ DriverTypeOK => MockTypeOK
    BY DEF DriverTypeOK, MockTypeOK
  <1> QED
    BY <1>1, ManagerTypes, DriverTypes, PTL

----------------------------------------------------------------------------
(* The registry                                                             *)

LEMMA RegistryStep ==
    DriverTypeOK /\ RegistryHonest /\ [MockNext]_allVars => RegistryHonest'
  <1> SUFFICES ASSUME DriverTypeOK, RegistryHonest, [MockNext]_allVars,
                      last' # None, last'.own
               PROVE  last'.by \in own'
    BY DEF RegistryHonest
  <1> DEFINE Kept == last' = last /\ own' = own
  <1>0. CASE Kept
    BY <1>0 DEF RegistryHonest
  <1>1. CASE ControllerStep
    BY <1>0, <1>1 DEF ControllerStep
  <1>2. CASE MockTick
    <2>1. last # None /\ own' = own
      BY <1>2 DEF MockTick
    <2>2. last' = [last EXCEPT !.seen = Older(last.seen, HeartbeatTimeout + 1)]
      BY <1>2, <2>1 DEF MockTick
    <2>3. last'.own = last.own /\ last'.by = last.by
      BY <2>1, <2>2 DEF DriverTypeOK, Pushes
    <2> QED
      BY <2>1, <2>3 DEF RegistryHonest
  <1>3. ASSUME NEW r \in Requests, Inferred(r) PROVE last'.by \in own'
    BY <1>0, <1>3 DEF Inferred
  <1>4. ASSUME NEW w \in Workers,
               Bind(w) \/ Unbind(w) \/ Load(w) \/ Beat(w) \/ WorkerExits(w)
        PROVE  last'.by \in own'
    BY <1>0, <1>4 DEF Bind, Unbind, Load, Beat, WorkerExits
  <1>5. ASSUME NEW w \in Workers, Handle(w) PROVE last'.by \in own'
    <2>1. own' = own
      BY <1>5 DEF Handle
    <2>2. CASE mail[w] # "heartbeat"
      BY <1>5, <2>1, <2>2 DEF Handle
    <2>3. CASE mail[w] = "heartbeat" /\ BeatCounts(w)
      <3>1. last' = [last EXCEPT !.status = "READY", !.seen = 0, !.by = w]
        BY <1>5, <2>3 DEF Handle
      <3>2. last'.own = last.own /\ last'.by = w
        BY <2>3, <3>1 DEF BeatCounts, DriverTypeOK, Pushes
      <3> QED
        BY <2>1, <2>3, <3>2 DEF BeatCounts
    <2>4. CASE mail[w] = "heartbeat" /\ ~BeatCounts(w)
      BY <1>0, <1>5, <2>1, <2>4 DEF Handle
    <2> QED
      BY <2>2, <2>3, <2>4
  <1>6. ASSUME NEW t \in Tasks,
               \/ Starts(t) \/ Started(t) \/ StartFailed(t) \/ CleanedUp(t)
               \/ ClearRegistry(t) \/ PollReady(t) \/ PollFails(t)
        PROVE  last'.by \in own'
    BY <1>0, <1>6
    DEF Starts, Started, StartFailed, CleanedUp, ClearRegistry, PollReady, PollFails
  <1>7. ASSUME NEW t \in Tasks, Spawn(t) PROVE last'.by \in own'
    <2>1. last' = last /\ own \subseteq own'
      BY <1>7 DEF Spawn
    <2> QED
      BY <2>1 DEF RegistryHonest
  <1>8. ASSUME NEW c \in Stoppers, StopStep(c) PROVE last'.by \in own'
    <2>1. own' = own /\ (last' = None \/ last' = last)
      BY <1>8, StopFrame
      DEF StopStep, StopChecks, StopTerminates, StopReaps, StopKills, StopForgets, StopClears
    <2> QED
      BY <1>0, <2>1
  <1>9. CASE Probed \/ LoopStopped \/ ForcedStop
    BY <1>0, <1>9 DEF Probed, LoopStopped, ForcedStop
  <1>10. CASE ProcessEnds
    BY <1>10 DEF ProcessEnds
  <1>11. CASE UNCHANGED allVars
    BY <1>0, <1>11
  <1> QED
    BY <1>1, <1>2, <1>3, <1>4, <1>5, <1>6, <1>7, <1>8, <1>9, <1>10, <1>11
    DEF MockNext

\* What the registry holds under this controller's WORKER_ID was said by one of
\* its own workers, in whatever order the pushes arrive (services/registry.py:25-35).
THEOREM RegistryCreditsNoStranger == MockSpec => []RegistryHonest
  <1>1. MockInit => RegistryHonest
    BY DEF MockInit, NoCalls, RegistryHonest
  <1> QED
    BY <1>1, RegistryStep, DriverTypes, PTL DEF MockSpec

----------------------------------------------------------------------------
(* The process behind _proc                                                 *)

\* Until a call has begun beside another, at most one is under way.
SoleCall ==
    ~astray =>
        /\ \A t, u \in Tasks : StartsNow(t) /\ StartsNow(u) => t = u
        /\ \A c, d \in Stoppers : StopsNow(c) /\ StopsNow(d) => c = d
        /\ \A t \in Tasks, c \in Stoppers : ~(StartsNow(t) /\ StopsNow(c))

\* And the process that it waits for is still _proc.
WaitsForProc ==
    ~astray => \A c \in Stoppers : stop_call[c] = "waiting" => victim[c] = proc

\* The start has still to spawn its worker; the stop is done with its worker.
Spawns(t) == polling[t] \in {"clearing", "spawning"}
Ends(c) == stop_call[c] \in {"forgetting", "clearing", "returned"}

\* No worker runs before a start has spawned it, nor after a stop has ended it.
NoneRuns ==
    ~astray => /\ \A t \in Tasks : Spawns(t) => ~Running
               /\ \A c \in Stoppers : Ends(c) => ~Running

\* A worker that runs is READY, or a start or a stop is concerned with it.
Tended ==
    ~astray /\ Running =>
        \/ state = "READY"
        \/ \E t \in Tasks : polling[t] # "idle"
        \/ \E c \in Stoppers : StopsNow(c)

\* A task is inside driver.start, or is about to hear of its end.
InStart == \A t \in Tasks : polling[t] # "idle" => task[t] = "starting"

ProcInv == DriverTypeOK /\ SoleCall /\ WaitsForProc /\ NoneRuns /\ WorkersTracked

\* What the theorems about WorkerManager say of the startup.
StartupInv == TypeOK /\ SingleStartup /\ ReadyMeansStarted

LEMMA InStartStep ==
    TypeOK /\ DriverTypeOK /\ InStart /\ [MockNext]_allVars => InStart'
  <1> SUFFICES ASSUME TypeOK, DriverTypeOK, InStart, [MockNext]_allVars PROVE InStart'
    OBVIOUS
  <1>0. task \in [Tasks -> TaskPhases] /\ polling \in [Tasks -> StartPhases]
    BY DEF TypeOK, DriverTypeOK
  <1>1. CASE ControllerStep
    <2>1. ASSUME NEW r \in Requests, ArriveWaiting(r) PROVE InStart'
      BY <1>0, <1>1, <2>1 DEF ControllerStep, ArriveWaiting, InStart
    <2>2. CASE ~\E r \in Requests : ArriveWaiting(r)
      <3>1. task' = task
        BY <1>1, <2>2
        DEF ControllerStep, ArriveReady, ArriveCooling, WakeReady, WakeFailed, ResumeGranted,
            Retire, LoopWakes, LoopExits, Shutdown
      <3> QED
        BY <1>1, <3>1 DEF ControllerStep, InStart
    <2> QED
      BY <2>1, <2>2
  <1>2. CASE MockTick
    BY <1>2 DEF MockTick, Tick, InStart
  <1>3. ASSUME NEW r \in Requests, Inferred(r) PROVE InStart'
    BY <1>3 DEF Inferred, InferReturns, InStart
  <1>4. ASSUME NEW w \in Workers, WorkerStep(w) PROVE InStart'
    BY <1>4 DEF WorkerStep, Bind, Unbind, Load, Beat, WorkerExits, Handle, InStart
  <1>5. ASSUME NEW t \in Tasks, Starts(t) PROVE InStart'
    BY <1>0, <1>5 DEF Starts, StartupBegins, BackoffEnds, InStart
  <1>6. ASSUME NEW t \in Tasks, StartStep(t) PROVE InStart'
    BY <1>0, <1>6 DEF StartStep, ClearRegistry, Spawn, PollReady, PollFails, InStart
  <1>7. ASSUME NEW t \in Tasks, Started(t) \/ StartFailed(t) PROVE InStart'
    BY <1>0, <1>7 DEF Started, StartFailed, StartSucceeds, StartFails, InStart
  <1>8. ASSUME NEW t \in Tasks, CleanedUp(t) PROVE InStart'
    BY <1>0, <1>8 DEF CleanedUp, CleanupReturns, InStart
  <1>9. ASSUME NEW c \in Stoppers, StopStep(c) PROVE InStart'
    BY <1>9, StopFrame DEF InStart
  <1>10. CASE Probed \/ LoopStopped \/ ForcedStop
    BY <1>10
    DEF Probed, HealthReplies, LoopStopped, LoopStopReturns, ForcedStop, ForceStopBegins,
        ForceStopReturns, InStart
  <1>11. CASE ProcessEnds
    BY <1>11 DEF ProcessEnds, InStart
  <1>12. CASE UNCHANGED allVars
    BY <1>12 DEF InStart
  <1> QED
    BY <1>1, <1>2, <1>3, <1>4, <1>5, <1>6, <1>7, <1>8, <1>9, <1>10, <1>11, <1>12
    DEF MockNext, WorkerStep, StartStep

\* A worker step neither starts a process nor moves a call.
LEMMA WorkerFrame ==
    ASSUME DriverTypeOK, NEW w \in Workers, WorkerStep(w)
    PROVE  /\ \A v \in Workers : Alive(v)' => Alive(v)
           /\ UNCHANGED <<vars, proc, own, astray, victim, polling, stop_call>>
  BY DEF WorkerStep, Bind, Unbind, Load, Beat, WorkerExits, Handle, Gone, DriverTypeOK, Alive

\* A stop starts no process, and leaves _proc or sets it to None.
LEMMA StopProc ==
    ASSUME DriverTypeOK, NEW c \in Stoppers, StopStep(c)
    PROVE  /\ \A v \in Workers : Alive(v)' => Alive(v)
           /\ proc' \in {proc, None}
  <1>1. CASE StopKills(c)
    BY <1>1 DEF StopKills, Gone, DriverTypeOK, Alive, Running
  <1>2. CASE ~StopKills(c)
    BY <1>2 DEF StopStep, StopChecks, StopTerminates, StopReaps, StopForgets, StopClears, Alive
  <1> QED
    BY <1>1, <1>2

\* No worker runs that did not run before.
LEMMA RunsNoMore ==
    ASSUME DriverTypeOK, proc' \in {proc, None}, \A v \in Workers : Alive(v)' => Alive(v)
    PROVE  Running' => Running
  BY MockAssumption DEF Running, DriverTypeOK

\* A start that begins beside no other call finds no worker running.
LEMMA StartsAlone ==
    ASSUME StartupInv, DriverTypeOK, InStart, Tended, NEW t \in Tasks, Starts(t), ~astray'
    PROVE  ~Running
  <1>1. /\ ~astray
        /\ \A u \in Tasks : ~StartsNow(u)
        /\ \A c \in Stoppers : ~StopsNow(c)
    BY WatchTells DEF Starts
  <1>2. task[t] \in {"created", "backoff"} /\ t = startup_task
    BY DEF Starts, StartupBegins, BackoffEnds, StartupInv, SingleStartup
  <1>3. state # "READY"
    BY <1>2 DEF StartupInv, ReadyMeansStarted
  <1>4. ASSUME NEW u \in Tasks, polling[u] # "idle" PROVE FALSE
    <2>1. task[u] = "starting"
      BY <1>4 DEF InStart
    <2>2. u = t
      BY <1>2, <2>1 DEF StartupInv, SingleStartup
    <2> QED
      BY <1>2, <2>1, <2>2
  <1> QED
    BY <1>1, <1>3, <1>4 DEF Tended

\* A step after which whoever tended the worker still does.
LEMMA TendedQuiet ==
    ASSUME Tended, Running' => Running, ~astray' => ~astray,
           state = "READY" => state' = "READY",
           \A t \in Tasks : polling[t] # "idle" => polling'[t] # "idle",
           \A c \in Stoppers : StopsNow(c) => StopsNow(c)'
    PROVE  Tended'
  BY DEF Tended

LEMMA TendedStep ==
    /\ StartupInv /\ ProcInv /\ InStart /\ Tended
    /\ DriverTypeOK' /\ [MockNext]_allVars
    => Tended'
  <1> SUFFICES ASSUME StartupInv, ProcInv, InStart, Tended, DriverTypeOK', [MockNext]_allVars
               PROVE  Tended'
    OBVIOUS
  <1>0. /\ DriverTypeOK /\ polling \in [Tasks -> StartPhases]
        /\ stop_call \in [Stoppers -> StopPhases]
    BY DEF ProcInv, DriverTypeOK
  <1>1. CASE ControllerStep
    <2>1. state' = state
      BY <1>1
      DEF ControllerStep, ArriveReady, ArriveCooling, ArriveWaiting, WakeReady, WakeFailed,
          ResumeGranted, Retire, LoopWakes, LoopExits, Shutdown
    <2> QED
      BY <1>1, <2>1, TendedQuiet DEF ControllerStep, Running, Alive, StopsNow
  <1>2. CASE MockTick
    BY <1>2, TendedQuiet DEF MockTick, Tick, Running, Alive, StopsNow
  <1>3. ASSUME NEW r \in Requests, Inferred(r) PROVE Tended'
    BY <1>3, TendedQuiet DEF Inferred, InferReturns, Running, Alive, StopsNow
  <1>4. ASSUME NEW w \in Workers, WorkerStep(w) PROVE Tended'
    <2>1. /\ \A v \in Workers : Alive(v)' => Alive(v)
          /\ UNCHANGED <<vars, proc, own, astray, victim, polling, stop_call>>
      BY <1>0, <1>4, WorkerFrame
    <2>2. Running' => Running
      BY <1>0, <2>1, RunsNoMore
    <2> QED
      BY <2>1, <2>2, TendedQuiet DEF StopsNow
  <1>5. ASSUME NEW t \in Tasks, Starts(t) PROVE Tended'
    BY <1>0, <1>5 DEF Starts, Tended, StartPhases
  <1>6. ASSUME NEW t \in Tasks, StartStep(t) PROVE Tended'
    BY <1>0, <1>6 DEF StartStep, ClearRegistry, Spawn, PollReady, PollFails, Tended, StartPhases
  <1>7. ASSUME NEW t \in Tasks, Started(t) PROVE Tended'
    BY <1>7 DEF Started, StartSucceeds, Tended
  <1>8. ASSUME NEW t \in Tasks, StartFailed(t) PROVE Tended'
    <2>1. t \in Stoppers /\ stop_call'[t] = "running"
      BY <1>0, <1>8 DEF StartFailed, Stoppers
    <2> QED
      BY <2>1 DEF Tended, StopsNow
  <1>9. ASSUME NEW c \in Stoppers, StopStep(c) PROVE Tended'
    <2>1. /\ UNCHANGED <<vars, own, mail, polling, astray>>
          /\ \E p \in StopPhases \ {"idle"} : stop_call' = [stop_call EXCEPT ![c] = p]
      BY <1>9, StopFrame
    <2>2. Running' => Running
      BY <1>0, <1>9, StopProc, RunsNoMore
    <2>3. \A d \in Stoppers : StopsNow(d) => StopsNow(d)'
      BY <1>0, <2>1 DEF StopsNow
    <2> QED
      BY <2>1, <2>2, <2>3, TendedQuiet
  <1>10. ASSUME NEW c \in Stoppers, stop_call[c] = "returned", UNCHANGED <<proc, worker>>,
                ~astray' => ~astray
         PROVE  Tended'
    BY <1>10 DEF ProcInv, NoneRuns, Ends, Tended, Running, Alive
  <1>11. ASSUME NEW t \in Tasks, CleanedUp(t) PROVE Tended'
    BY <1>10, <1>11 DEF CleanedUp, Stoppers
  <1>12. CASE Probed
    <2>1. CASE loop' = "stopping"
      <3>1. "loop" \in Stoppers /\ stop_call'["loop"] = "running"
        BY <1>0, <1>12, <2>1 DEF Probed, Stoppers
      <3> QED
        BY <3>1 DEF Tended, StopsNow
    <2>2. CASE loop' # "stopping"
      <3>1. stop_call' = stop_call /\ GivesUp /\ UNCHANGED <<worker, proc, polling>>
        BY <1>12, <2>2 DEF Probed
      <3>2. /\ astray' \in BOOLEAN
            /\ ~astray' => ~astray /\ ~(state' = "ERROR" /\ Running)
        BY <1>0, <3>1, GivesUpTells DEF DriverTypeOK
      <3>3. state' = "ERROR" \/ state' = state
        BY <1>12, <2>2 DEF Probed, HealthReplies, RestOfIteration
      <3> QED
        BY <3>1, <3>2, <3>3 DEF Tended, Running, Alive, StopsNow
    <2> QED
      BY <2>1, <2>2
  <1>13. CASE LoopStopped
    BY <1>10, <1>13 DEF LoopStopped, Stoppers
  <1>14. CASE ForcedStop
    <2>1. CASE ForceStopBegins /\ stop_call' = [stop_call EXCEPT !["force"] = "running"]
      <3>1. "force" \in Stoppers /\ stop_call'["force"] = "running"
        BY <1>0, <2>1 DEF Stoppers
      <3> QED
        BY <3>1 DEF Tended, StopsNow
    <2>2. CASE stop_call["force"] = "returned" /\ UNCHANGED <<workerVars, proc, astray>>
      BY <1>10, <2>2 DEF Stoppers
    <2> QED
      BY <1>14, <2>1, <2>2 DEF ForcedStop
  <1>15. CASE ProcessEnds
    BY <1>15 DEF ProcessEnds, Tended, Running
  <1>16. CASE UNCHANGED allVars
    BY <1>16, TendedQuiet DEF Running, Alive, StopsNow
  <1> QED
    BY <1>1, <1>2, <1>3, <1>4, <1>5, <1>6, <1>7, <1>8, <1>9, <1>11, <1>12, <1>13, <1>14, <1>15,
       <1>16
    DEF MockNext, WorkerStep, StartStep


\* A step that only ends calls, and touches neither _proc nor `own` nor revives
\* a worker.
LEMMA QuietStep ==
    ASSUME ProcInv,
           proc' = proc, own' = own, ~astray' => ~astray, victim' = victim,
           \A w \in Workers : Alive(w)' => Alive(w),
           \A t \in Tasks : StartsNow(t)' => StartsNow(t),
           \A t \in Tasks : Spawns(t)' => Spawns(t),
           \A c \in Stoppers : StopsNow(c)' => StopsNow(c),
           \A c \in Stoppers : stop_call'[c] = "waiting" => stop_call[c] = "waiting",
           \A c \in Stoppers : Ends(c)' => Ends(c)
    PROVE  SoleCall' /\ WaitsForProc' /\ NoneRuns' /\ WorkersTracked'
  <1>1. SoleCall'
    BY DEF ProcInv, SoleCall
  <1>2. WaitsForProc'
    BY DEF ProcInv, WaitsForProc
  <1>3. WorkersTracked'
    BY DEF ProcInv, WorkersTracked, DriverTypeOK
  <1>4. NoneRuns'
    <2>1. Running' => Running
      BY RunsNoMore DEF ProcInv
    <2> QED
      BY <2>1 DEF ProcInv, NoneRuns
  <1> QED
    BY <1>1, <1>2, <1>3, <1>4

\* A call that begins, of a start or of a stop.
LEMMA CallBegins ==
    ASSUME ProcInv, Watch,
           proc' = proc, own' = own, worker' = worker, victim' = victim,
           \/ /\ stop_call' = stop_call
              /\ ~astray' => ~Running
              /\ \E t \in Tasks : polling' = [polling EXCEPT ![t] = "clearing"]
           \/ /\ \A t \in Tasks : StartsNow(t)' => StartsNow(t)
              /\ \E c \in Stoppers : stop_call' = [stop_call EXCEPT ![c] = "running"]
    PROVE  SoleCall' /\ WaitsForProc' /\ NoneRuns' /\ WorkersTracked'
  <1> USE DEF ProcInv, DriverTypeOK
  <1> SUFFICES ASSUME ~astray' PROVE SoleCall' /\ WaitsForProc' /\ NoneRuns' /\ WorkersTracked'
    BY DEF SoleCall, WaitsForProc, NoneRuns, WorkersTracked
  <1>1. /\ ~astray
        /\ \A t \in Tasks : ~StartsNow(t)
        /\ \A c \in Stoppers : ~StopsNow(c)
    <2>1. ~astray' => /\ ~astray
                      /\ \A t \in Tasks : ~StartsNow(t)
                      /\ \A c \in Stoppers : ~StopsNow(c)
      BY Zenon DEF Watch, StartsNow, StopsNow
    <2> QED
      BY <2>1, Zenon
  <1>2. SoleCall'
    BY <1>1 DEF SoleCall, StartsNow, StopsNow
  <1>3. WaitsForProc'
    BY <1>1 DEF WaitsForProc, StopsNow
  <1>4. WorkersTracked'
    BY <1>1 DEF WorkersTracked, Alive
  <1>5. NoneRuns'
    <2>1. \A c \in Stoppers : ~Ends(c)'
      BY <1>1 DEF Ends, StopsNow
    <2>2. \A t \in Tasks : Spawns(t)' => ~Running'
      <3>1. ASSUME NEW t \in Tasks, Spawns(t)' PROVE StartsNow(t)'
        BY <3>1 DEF Spawns, StartsNow
      <3> QED
        BY <1>1, <3>1 DEF Running, Alive
    <2> QED
      BY <2>1, <2>2 DEF NoneRuns
  <1> QED
    BY <1>2, <1>3, <1>4, <1>5

LEMMA SpawnTracked ==
    ASSUME ProcInv, NEW t \in Tasks, Spawn(t)
    PROVE  SoleCall' /\ WaitsForProc' /\ NoneRuns' /\ WorkersTracked'
  <1>0. /\ StartsNow(t) /\ Spawns(t) /\ astray' = astray /\ stop_call' = stop_call
        /\ polling' = [polling EXCEPT ![t] = "polling"]
    BY DEF Spawn, StartsNow, Spawns
  <1> SUFFICES ASSUME ~astray PROVE SoleCall' /\ WaitsForProc' /\ NoneRuns' /\ WorkersTracked'
    BY <1>0 DEF SoleCall, WaitsForProc, NoneRuns, WorkersTracked
  <1>1. ~Running
    BY <1>0 DEF ProcInv, NoneRuns
  <1>2. SoleCall'
    BY <1>0 DEF ProcInv, SoleCall, DriverTypeOK, StartsNow, StopsNow
  <1>3. \A c \in Stoppers : stop_call[c] = "idle"
    BY <1>0 DEF ProcInv, SoleCall, StopsNow
  <1>4. WaitsForProc'
    BY <1>0, <1>3 DEF WaitsForProc
  <1>5. NoneRuns'
    <2>1. \A u \in Tasks : ~Spawns(u)'
      BY <1>0 DEF ProcInv, SoleCall, DriverTypeOK, StartsNow, Spawns
    <2> QED
      BY <1>0, <1>3, <2>1 DEF NoneRuns, Ends
  <1>6. WorkersTracked'
    <2>1. PICK w \in Workers :
            /\ worker' = [worker EXCEPT ![w] = "LOADING_MODEL"]
            /\ own' = own \cup {w} /\ proc' = w
      BY DEF Spawn
    <2>2. \A v \in own : ~Alive(v)
      BY <1>1, MockAssumption DEF ProcInv, WorkersTracked, DriverTypeOK, Running
    <2> QED
      BY <2>1, <2>2 DEF WorkersTracked, Alive, ProcInv, DriverTypeOK
  <1> QED
    BY <1>2, <1>4, <1>5, <1>6

\* Each step of a stop that is the only call leaves no live worker unreachable.
LEMMA StopTracked ==
    ASSUME ProcInv, DriverTypeOK', NEW c \in Stoppers, StopStep(c)
    PROVE  SoleCall' /\ WaitsForProc' /\ NoneRuns' /\ WorkersTracked'
  <1>0. /\ StopsNow(c) /\ astray' = astray /\ polling' = polling /\ own' = own
        /\ \E p \in StopPhases \ {"idle"} : stop_call' = [stop_call EXCEPT ![c] = p]
    BY StopFrame DEF StopsNow
  <1>1. /\ DriverTypeOK /\ stop_call \in [Stoppers -> StopPhases]
        /\ victim \in [Stoppers -> Workers \cup {None}]
    BY DEF ProcInv, DriverTypeOK
  <1>2. /\ \A v \in Workers : Alive(v)' => Alive(v)
        /\ proc' \in {proc, None}
        /\ Running' => Running
    BY <1>1, StopProc, RunsNoMore
  <1> SUFFICES ASSUME ~astray PROVE SoleCall' /\ WaitsForProc' /\ NoneRuns' /\ WorkersTracked'
    BY <1>0 DEF SoleCall, WaitsForProc, NoneRuns, WorkersTracked
  <1>3. \A d \in Stoppers \ {c} : stop_call'[d] = "idle"
    BY <1>0, <1>1 DEF ProcInv, SoleCall, StopsNow
  <1>4. SoleCall'
    BY <1>0, <1>3 DEF ProcInv, SoleCall, StartsNow, StopsNow
  <1>5. \A t \in Tasks : ~Spawns(t)'
    BY <1>0 DEF ProcInv, SoleCall, StartsNow, Spawns
  <1>6. SUFFICES /\ stop_call'[c] = "waiting" => victim'[c] = proc'
                 /\ Ends(c)' => ~Running'
                 /\ WorkersTracked'
    <2>1. WaitsForProc'
      BY <1>3, <1>6 DEF WaitsForProc
    <2>2. NoneRuns'
      BY <1>3, <1>5, <1>6 DEF NoneRuns, Ends
    <2> QED
      BY <1>4, <1>6, <2>1, <2>2
  <1>7. CASE StopChecks(c)
    <2>1. /\ UNCHANGED <<proc, worker>>
          /\ stop_call'[c] = IF Running THEN "terminating" ELSE "forgetting"
      BY <1>1, <1>7 DEF StopChecks, StopGoesOn
    <2> QED
      BY <1>0, <2>1 DEF ProcInv, WorkersTracked, Ends, Running, Alive
  <1>8. CASE StopTerminates(c)
    <2>1. /\ UNCHANGED <<proc, worker>> /\ victim'[c] = proc
          /\ stop_call'[c] = IF proc = None THEN "returned" ELSE "waiting"
      BY <1>1, <1>8 DEF StopTerminates, StopGoesOn
    <2> QED
      BY <1>0, <2>1 DEF ProcInv, WorkersTracked, Ends, Running, Alive
  <1>9. CASE StopReaps(c)
    <2>1. /\ UNCHANGED <<proc, worker>> /\ stop_call'[c] = "forgetting"
          /\ ~Alive(victim[c]) /\ victim[c] = proc
      BY <1>1, <1>9 DEF StopReaps, StopGoesOn, ProcInv, WaitsForProc
    <2> QED
      BY <1>0, <2>1 DEF ProcInv, WorkersTracked, Ends, Running, Alive
  <1>10. CASE StopKills(c)
    <2>1. /\ UNCHANGED proc
          /\ stop_call'[c] = IF proc = None THEN "returned" ELSE "forgetting"
          /\ IF Running THEN worker' = [worker EXCEPT ![proc] = "none"] ELSE worker' = worker
      BY <1>1, <1>10 DEF StopKills, StopGoesOn, Gone
    <2>2. ~Running'
      BY <1>1, <2>1 DEF Running, Alive, DriverTypeOK
    <2>3. WorkersTracked'
      BY <1>0, <1>1, <1>2, <2>1 DEF ProcInv, WorkersTracked, DriverTypeOK
    <2> QED
      BY <2>1, <2>2, <2>3
  <1>11. CASE StopForgets(c)
    <2>1. proc' = None /\ worker' = worker /\ stop_call'[c] = "clearing" /\ Ends(c)
      BY <1>1, <1>11 DEF StopForgets, StopGoesOn, Ends
    <2>2. ~Running
      BY <2>1 DEF ProcInv, NoneRuns
    <2>3. \A w \in own : ~Alive(w)
      BY <1>1, <2>2, MockAssumption DEF ProcInv, WorkersTracked, Running, DriverTypeOK
    <2> QED
      BY <1>0, <2>1, <2>3 DEF WorkersTracked, Running, Alive
  <1>12. CASE StopClears(c)
    <2>1. UNCHANGED <<proc, worker>> /\ stop_call'[c] = "returned" /\ Ends(c)
      BY <1>1, <1>12 DEF StopClears, StopGoesOn, Ends
    <2> QED
      BY <1>0, <1>2, <2>1 DEF ProcInv, NoneRuns, WorkersTracked, Alive
  <1> QED
    BY <1>7, <1>8, <1>9, <1>10, <1>11, <1>12 DEF StopStep

LEMMA ProcStep ==
    /\ StartupInv /\ ProcInv /\ InStart /\ Tended
    /\ DriverTypeOK' /\ [MockNext]_allVars
    => ProcInv'
  <1> DEFINE Kept == SoleCall' /\ WaitsForProc' /\ NoneRuns' /\ WorkersTracked'
  <1> SUFFICES ASSUME StartupInv, ProcInv, InStart, Tended, DriverTypeOK', [MockNext]_allVars
               PROVE  Kept
    BY DEF ProcInv
  <1>0. /\ DriverTypeOK /\ polling \in [Tasks -> StartPhases]
        /\ stop_call \in [Stoppers -> StopPhases]
    BY DEF ProcInv, DriverTypeOK
  <1> USE DEF Alive, StartsNow, StopsNow, Spawns, Ends
  <1>1. CASE ControllerStep
    BY <1>1, QuietStep DEF ControllerStep
  <1>2. CASE MockTick
    BY <1>2, QuietStep DEF MockTick
  <1>3. ASSUME NEW r \in Requests, Inferred(r) PROVE Kept
    BY <1>3, QuietStep DEF Inferred
  <1>4. ASSUME NEW w \in Workers, WorkerStep(w) PROVE Kept
    <2>1. /\ \A v \in Workers : Alive(v)' => Alive(v)
          /\ UNCHANGED <<vars, proc, own, astray, victim, polling, stop_call>>
      BY <1>0, <1>4, WorkerFrame
    <2> QED
      BY <2>1, QuietStep
  <1>5. ASSUME NEW t \in Tasks, Starts(t) PROVE Kept
    <2>1. ~astray' => ~Running
      BY <1>0, <1>5, StartsAlone
    <2> QED
      BY <1>5, <2>1, CallBegins DEF Starts
  <1>6. ASSUME NEW t \in Tasks, Spawn(t) PROVE Kept
    BY <1>6, SpawnTracked
  <1>7. ASSUME NEW t \in Tasks,
               ClearRegistry(t) \/ PollReady(t) \/ PollFails(t) \/ Started(t)
        PROVE  Kept
    <2>1. \A u \in Tasks :
            /\ polling'[u] \notin {"idle", "failed"} => polling[u] \notin {"idle", "failed"}
            /\ polling'[u] \in {"clearing", "spawning"} => polling[u] \in {"clearing", "spawning"}
      BY <1>0, <1>7 DEF ClearRegistry, PollReady, PollFails, Started
    <2>2. /\ proc' = proc /\ own' = own /\ astray' = astray /\ victim' = victim
          /\ worker' = worker /\ stop_call' = stop_call
      BY <1>7 DEF ClearRegistry, PollReady, PollFails, Started
    <2> QED
      BY <2>1, <2>2, QuietStep
  <1>8. ASSUME NEW t \in Tasks, StartFailed(t) PROVE Kept
    <2>1. \A u \in Tasks :
            polling'[u] \notin {"idle", "failed"} => polling[u] \notin {"idle", "failed"}
      BY <1>0, <1>8 DEF StartFailed
    <2>2. /\ Watch /\ proc' = proc /\ own' = own /\ worker' = worker /\ victim' = victim
          /\ t \in Stoppers /\ stop_call' = [stop_call EXCEPT ![t] = "running"]
      BY <1>8 DEF StartFailed, Stoppers
    <2> QED
      BY <2>1, <2>2, CallBegins
  <1>9. ASSUME NEW c \in Stoppers, StopStep(c) PROVE Kept
    BY <1>9, StopTracked
  <1>10. ASSUME NEW c \in Stoppers, stop_call' = [stop_call EXCEPT ![c] = "idle"],
                proc' = proc, own' = own, astray' = astray, victim' = victim,
                worker' = worker, polling' = polling
         PROVE  Kept
    <2>1. \A d \in Stoppers : stop_call'[d] # "idle" => stop_call'[d] = stop_call[d]
      BY <1>0, <1>10
    <2> QED
      BY <1>10, <2>1, QuietStep
  <1>11. ASSUME NEW c \in Stoppers, stop_call' = [stop_call EXCEPT ![c] = "running"], Watch,
                proc' = proc, own' = own, victim' = victim,
                worker' = worker, polling' = polling
         PROVE  Kept
    BY <1>11, CallBegins
  <1>12. ASSUME NEW t \in Tasks, CleanedUp(t) PROVE Kept
    BY <1>10, <1>12 DEF CleanedUp, Stoppers
  <1>13. CASE Probed
    <2>1. CASE loop' = "stopping"
      BY <1>11, <1>13, <2>1 DEF Probed, Stoppers
    <2>2. CASE loop' # "stopping"
      <3>1. /\ proc' = proc /\ own' = own /\ victim' = victim /\ worker' = worker
            /\ polling' = polling /\ stop_call' = stop_call
            /\ GivesUp
        BY <1>13, <2>2 DEF Probed
      <3>2. ~astray' => ~astray
        BY <1>0, <3>1, GivesUpTells DEF DriverTypeOK
      <3> QED
        BY <3>1, <3>2, QuietStep
    <2> QED
      BY <2>1, <2>2
  <1>14. CASE LoopStopped \/ ForcedStop
    BY <1>10, <1>11, <1>14 DEF LoopStopped, ForcedStop, Stoppers
  <1>15. CASE ProcessEnds
    BY <1>15
    DEF ProcessEnds, SoleCall, WaitsForProc, NoneRuns, WorkersTracked, ProcInv, DriverTypeOK
  <1>16. CASE UNCHANGED allVars
    BY <1>16, QuietStep
  <1> QED
    BY <1>1, <1>2, <1>3, <1>4, <1>5, <1>6, <1>7, <1>8, <1>9, <1>12, <1>13, <1>14, <1>15, <1>16
    DEF MockNext, WorkerStep

LEMMA StartupInvariant == MockSpec => []StartupInv
  <1>1. TypeOK /\ SingleStartup /\ ReadyMeansStarted => StartupInv
    BY DEF StartupInv
  <1> QED
    BY <1>1, MockImplementsManager, TypeCorrect, OneStartup, ReadyIsStarted, PTL

\* stop() can reach every live worker this controller has spawned, through all the
\* startups, failures, retries, stops, deaths and restarts in which no call of the
\* driver begins beside another one and the heartbeat timeout gives up no worker
\* that is alive (mock_driver.py:32-46, 80-88; worker_manager.py:99-103).
THEOREM ProcReachesEveryWorker == MockSpec => []WorkersTracked
  <1>1. MockInit /\ DriverTypeOK => ProcInv /\ InStart /\ Tended
    BY DEF MockInit, NoCalls, ProcInv, SoleCall, WaitsForProc, NoneRuns, WorkersTracked,
           InStart, Tended, Running, StartsNow, StopsNow, Spawns, Ends
  <1>2. /\ StartupInv /\ DriverTypeOK /\ DriverTypeOK'
        /\ ProcInv /\ InStart /\ Tended /\ [MockNext]_allVars
        => ProcInv' /\ InStart' /\ Tended'
    BY ProcStep, InStartStep, TendedStep DEF StartupInv
  <1>3. ProcInv => WorkersTracked
    BY DEF ProcInv
  <1> QED
    BY <1>1, <1>2, <1>3, StartupInvariant, DriverTypes, PTL DEF MockSpec

=============================================================================
