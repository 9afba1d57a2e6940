------------------------------ MODULE MockSystem ------------------------------
(***************************************************************************)
(* WorkerManager driving local worker processes (WORKER_MODE=mock): the    *)
(* driver (services/mock_driver.py), the registry its workers push to      *)
(* (services/registry.py, api/internal.py) and the workers themselves      *)
(* (worker/mock_server.py).                                                *)
(*                                                                         *)
(* start() and stop() run in pool threads and share _proc and the registry *)
(* with each other and with the pushes.  All workers of one controller     *)
(* process carry the same WORKER_ID, and they all want the same port.  A   *)
(* model load takes longer than binding that port.                         *)
(***************************************************************************)
EXTENDS WorkerManager

CONSTANTS
    Workers,                    \* worker processes alive at a time, at most
    MockIncidents               \* what may go wrong around the workers

\* "dies": a worker is killed.  "hangs": a terminated worker is not gone within
\* 10 seconds: it finishes its open requests first.
ASSUME MockAssumption == None \notin Workers /\ MockIncidents \subseteq {"dies", "hangs"}

\* MockWorkerDriver.health returns None or the last push.
ASSUME MockHealthAssumption == {"missing", "pushed"} \subseteq HealthOutcomes

VARIABLES
    worker,             \* [Workers -> "none" or the _status of the process]
    terminated,         \* the workers that were sent a SIGTERM
    own,                \* the workers that carry this controller's WORKER_ID
    port,               \* the worker that listens on the port, or None
    mail,               \* [Workers -> the push under way]
    last,               \* WorkerRegistry._last
    proc,               \* MockWorkerDriver._proc
    polling,            \* [Tasks -> where driver.start is]
    stop_call, victim,  \* where each caller's driver.stop is, and its process
    astray              \* history: may _proc have lost a worker (see Watch, GivesUp)

workerVars == <<worker, terminated, own, port, mail>>
driverVars == <<last, proc, polling, stop_call, victim, astray>>
mockVars == <<workerVars, driverVars>>
allVars == <<vars, mockVars>>

\* BOOTING counts as LOADING_MODEL: nobody tells the two apart.
Statuses == {"LOADING_MODEL", "MODEL_LOAD_FAILED", "READY"}
Stoppers == Tasks \cup {"loop", "force"}

ASSUME StoppersAssumption == "loop" \notin Tasks /\ "force" \notin Tasks

\* A registration carries a status; a heartbeat is only sent when READY.
Mails == Statuses \cup {"heartbeat", "none"}

\* Of a WorkerPush: whether the WORKER_ID is this controller's, the status, how
\* long ago last_seen is, and (history) which process it came from.
Pushes == [own : BOOLEAN, status : Statuses, seen : 0..HeartbeatTimeout + 1, by : Workers]

StartPhases == {"idle", "clearing", "spawning", "polling", "succeeded", "failed"}
StopPhases == {"idle", "running", "terminating", "waiting", "forgetting", "clearing",
               "returned"}

MockTypeOK ==
    /\ TypeOK
    /\ worker \in [Workers -> Statuses \cup {"none"}]
    /\ terminated \subseteq Workers /\ own \subseteq Workers
    /\ port \in Workers \cup {None}
    /\ mail \in [Workers -> Mails]
    /\ last \in Pushes \cup {None}
    /\ proc \in Workers \cup {None}
    /\ polling \in [Tasks -> StartPhases]
    /\ stop_call \in [Stoppers -> StopPhases]
    /\ victim \in [Stoppers -> Workers \cup {None}]
    /\ astray \in BOOLEAN

NoCalls ==
    /\ last = None
    /\ proc = None
    /\ polling = [t \in Tasks |-> "idle"]
    /\ stop_call = [c \in Stoppers |-> "idle"]
    /\ victim = [c \in Stoppers |-> None]
    /\ astray = FALSE

MockInit ==
    /\ Init
    /\ worker = [w \in Workers |-> "none"]
    /\ terminated = {} /\ own = {}
    /\ port = None
    /\ mail = [w \in Workers |-> "none"]
    /\ NoCalls

Alive(w) == worker[w] # "none"

\* _proc is set, and poll() is None.
Running == proc # None /\ Alive(proc)

----------------------------------------------------------------------------
(* A worker process                                                         *)

\* The process is gone; a push it had under way may still be handled.
Gone(w) ==
    /\ worker' = [worker EXCEPT ![w] = "none"]
    /\ terminated' = terminated \ {w}
    /\ port' = IF port = w THEN None ELSE port

\* uvicorn binds the port, once, or exits if another process has it.
Bind(w) ==
    /\ Alive(w) /\ w \notin terminated
    /\ port # w
    /\ IF port = None
       THEN port' = w /\ UNCHANGED <<worker, terminated>>
       ELSE Gone(w)
    /\ UNCHANGED <<vars, own, mail, driverVars>>

\* Shutting down, it closes the port before it ends.
Unbind(w) ==
    /\ w \in terminated /\ port = w
    /\ port' = None
    /\ UNCHANGED <<vars, worker, terminated, own, mail, driverVars>>

\* _boot: engine.load returned or raised, and the new status is pushed.
Load(w) ==
    /\ worker[w] = "LOADING_MODEL"
    /\ port = w \/ w \in terminated
    /\ mail[w] = "none"
    /\ \E status \in {"READY", "MODEL_LOAD_FAILED"} :
         /\ worker' = [worker EXCEPT ![w] = status]
         /\ mail' = [mail EXCEPT ![w] = status]
    /\ UNCHANGED <<vars, terminated, own, port, driverVars>>

\* _heartbeat_loop, which only a READY worker reaches.
Beat(w) ==
    /\ worker[w] = "READY"
    /\ mail[w] = "none"
    /\ mail' = [mail EXCEPT ![w] = "heartbeat"]
    /\ UNCHANGED <<vars, worker, terminated, own, port, driverVars>>

\* A terminated worker, or one that something else kills.
WorkerExits(w) ==
    /\ Alive(w)
    /\ w \in terminated \/ "dies" \in MockIncidents
    /\ Gone(w)
    /\ UNCHANGED <<vars, own, mail, driverVars>>

----------------------------------------------------------------------------
(* The registry                                                             *)

\* Mutation: a heartbeat is taken from any worker.
BeatCounts_Anyone(w) == last # None

\* last.worker_id must be the sender's.
BeatCounts(w) == last # None /\ last.own = (w \in own)

\* The handler of a push, which its sender may not live to see.
Handle(w) ==
    /\ mail[w] # "none"
    /\ mail' = [mail EXCEPT ![w] = "none"]
    /\ last' = IF mail[w] # "heartbeat"
               THEN [own |-> w \in own, status |-> mail[w], seen |-> 0, by |-> w]
               ELSE IF BeatCounts(w)
               THEN [last EXCEPT !.status = "READY", !.seen = 0, !.by = w]
               ELSE last
    /\ UNCHANGED <<vars, worker, terminated, own, port, proc, polling, stop_call, victim,
                   astray>>

\* What driver.health finds.
Seen == last # None /\ last.own

\* Mutation: last_seen is the time of the probe.
LastSeen_Probe == 0

LastSeen == last.seen

----------------------------------------------------------------------------
(* driver.start                                                             *)

\* A call begins: history notes whether another one is still under way.
Watch ==
    astray' = (astray \/ (\E t \in Tasks : polling[t] \notin {"idle", "failed"})
                      \/ (\E c \in Stoppers : stop_call[c] # "idle"))

Starts(t) ==
    /\ StartupBegins(t) \/ BackoffEnds(t)
    /\ polling' = [polling EXCEPT ![t] = "clearing"]
    /\ Watch
    /\ UNCHANGED <<workerVars, last, proc, stop_call, victim>>

Free(w) ==
    /\ ~Alive(w) /\ mail[w] = "none" /\ w # proc
    /\ \A c \in Stoppers : victim[c] # w

ClearRegistry(t) ==
    /\ polling[t] = "clearing"
    /\ last' = None
    /\ polling' = [polling EXCEPT ![t] = "spawning"]
    /\ UNCHANGED <<vars, workerVars, proc, stop_call, victim, astray>>

\* A process is spawned, whose first push follows.  The reference to an earlier
\* one is lost, whether it is alive or not.
Spawn(t) ==
    /\ polling[t] = "spawning"
    /\ \E w \in Workers :
         /\ Free(w)
         /\ worker' = [worker EXCEPT ![w] = "LOADING_MODEL"]
         /\ mail' = [mail EXCEPT ![w] = "LOADING_MODEL"]
         /\ own' = own \cup {w}
         /\ proc' = w
    /\ polling' = [polling EXCEPT ![t] = "polling"]
    /\ UNCHANGED <<vars, last, terminated, port, stop_call, victim, astray>>

PollReady(t) ==
    /\ polling[t] = "polling"
    /\ Seen /\ last.status = "READY"
    /\ polling' = [polling EXCEPT ![t] = "succeeded"]
    /\ UNCHANGED <<vars, workerVars, last, proc, stop_call, victim, astray>>

\* MODEL_LOAD_FAILED, an early exit, a _proc that a stop has set to None, or the
\* deadline, which may come at any time here.
PollFails(t) ==
    /\ polling[t] = "polling"
    /\ polling' = [polling EXCEPT ![t] = "failed"]
    /\ UNCHANGED <<vars, workerVars, last, proc, stop_call, victim, astray>>

Started(t) ==
    /\ polling[t] = "succeeded"
    /\ StartSucceeds(t)
    /\ polling' = [polling EXCEPT ![t] = "idle"]
    /\ UNCHANGED <<workerVars, last, proc, stop_call, victim, astray>>

StartFailed(t) ==
    /\ polling[t] = "failed"
    /\ StartFails(t)
    /\ polling' = [polling EXCEPT ![t] = "idle"]
    /\ stop_call' = [stop_call EXCEPT ![t] = "running"]
    /\ Watch
    /\ UNCHANGED <<workerVars, last, proc, victim>>

----------------------------------------------------------------------------
(* driver.stop                                                              *)

\* A step of one stop: it moves, and the rest of the controller does not.
StopGoesOn(c, from, to) ==
    /\ stop_call[c] = from
    /\ stop_call' = [stop_call EXCEPT ![c] = to]
    /\ UNCHANGED <<vars, own, mail, polling, astray>>

\* `if self._proc and self._proc.poll() is None`.
StopChecks(c) ==
    /\ StopGoesOn(c, "running", IF Running THEN "terminating" ELSE "forgetting")
    /\ UNCHANGED <<worker, terminated, port, last, proc, victim>>

\* SIGTERM, then wait for it.  Here and in StopKills a _proc that another stop has
\* set to None meanwhile raises, and stop returns by the exception.
StopTerminates(c) ==
    /\ StopGoesOn(c, "terminating", IF proc = None THEN "returned" ELSE "waiting")
    /\ terminated' = IF Running THEN terminated \cup {proc} ELSE terminated
    /\ victim' = [victim EXCEPT ![c] = proc]
    /\ UNCHANGED <<worker, port, last, proc>>

StopReaps(c) ==
    /\ StopGoesOn(c, "waiting", "forgetting")
    /\ ~Alive(victim[c])
    /\ victim' = [victim EXCEPT ![c] = None]
    /\ UNCHANGED <<worker, terminated, port, last, proc>>

\* Mutation: the expired wait is ignored.
StopKills_Ignored(c) ==
    /\ "hangs" \in MockIncidents
    /\ StopGoesOn(c, "waiting", "forgetting")
    /\ victim' = [victim EXCEPT ![c] = None]
    /\ UNCHANGED <<worker, terminated, port, last, proc>>

\* The wait expired: kill whatever _proc is by now.
StopKills(c) ==
    /\ "hangs" \in MockIncidents
    /\ StopGoesOn(c, "waiting", IF proc = None THEN "returned" ELSE "forgetting")
    /\ IF Running THEN Gone(proc) ELSE UNCHANGED <<worker, terminated, port>>
    /\ victim' = [victim EXCEPT ![c] = None]
    /\ UNCHANGED <<last, proc>>

StopForgets(c) ==
    /\ StopGoesOn(c, "forgetting", "clearing")
    /\ proc' = None
    /\ UNCHANGED <<worker, terminated, port, last, victim>>

StopClears(c) ==
    /\ StopGoesOn(c, "clearing", "returned")
    /\ last' = None
    /\ UNCHANGED <<worker, terminated, port, proc, victim>>

StopStep(c) ==
    \/ StopChecks(c) \/ StopTerminates(c)
    \/ StopReaps(c) \/ StopKills(c) \/ StopForgets(c) \/ StopClears(c)

----------------------------------------------------------------------------
(* The steps of WorkerManager, with the driver calls they start and await   *)

CleanedUp(t) ==
    /\ stop_call[t] = "returned"
    /\ CleanupReturns(t)
    /\ stop_call' = [stop_call EXCEPT ![t] = "idle"]
    /\ UNCHANGED <<workerVars, last, proc, polling, victim, astray>>

\* history: the heartbeat timeout gives up a worker that is alive.
GivesUp == astray' = (astray \/ (state' = "ERROR" /\ Running))

\* health returns last_seen, which becomes last_heartbeat.
Probed ==
    /\ \/ Seen /\ HealthReplies("pushed") /\ last_heartbeat' = LastSeen
       \/ ~Seen /\ HealthReplies("missing")
    /\ IF loop' = "stopping"
       THEN stop_call' = [stop_call EXCEPT !["loop"] = "running"] /\ Watch
       ELSE UNCHANGED stop_call /\ GivesUp
    /\ UNCHANGED <<workerVars, last, proc, polling, victim>>

LoopStopped ==
    /\ stop_call["loop"] = "returned"
    /\ LoopStopReturns
    /\ stop_call' = [stop_call EXCEPT !["loop"] = "idle"]
    /\ UNCHANGED <<workerVars, last, proc, polling, victim, astray>>

\* Nothing in the repository calls force_stop.  That it does not begin beside another
\* stop is a bound of the model: stops overlap anyway, the loop's with a cleanup.
ForcedStop ==
    \/ /\ ForceStopBegins
       /\ \A c \in Stoppers : stop_call[c] = "idle"
       /\ stop_call' = [stop_call EXCEPT !["force"] = "running"]
       /\ Watch
       /\ UNCHANGED <<workerVars, last, proc, polling, victim>>
    \/ /\ stop_call["force"] = "returned"
       /\ ForceStopReturns
       /\ stop_call' = [stop_call EXCEPT !["force"] = "idle"]
       /\ UNCHANGED <<workerVars, last, proc, polling, victim, astray>>

\* POST /generate goes to whoever listens, if its model is loaded.
Inferred(r) ==
    /\ \/ port # None /\ worker[port] = "READY" /\ InferReturns(r, "ok")
       \/ InferReturns(r, "error")
    /\ UNCHANGED mockVars

ControllerStep ==
    /\ \E r \in Requests :
            \/ ArriveReady(r) \/ ArriveCooling(r) \/ ArriveWaiting(r)
            \/ WakeReady(r) \/ WakeFailed(r) \/ ResumeGranted(r) \/ Retire(r)
       \/ LoopWakes \/ LoopExits \/ Shutdown
    /\ UNCHANGED mockVars

MockTick ==
    /\ Tick
    /\ last' = IF last = None THEN None
               ELSE [last EXCEPT !.seen = Older(@, HeartbeatTimeout + 1)]
    /\ UNCHANGED <<workerVars, proc, polling, stop_call, victim, astray>>

\* The controller ends and its workers do not.  Those whose pushes failed five
\* times until it was back are gone; the next controller has another WORKER_ID.
ProcessEnds ==
    /\ Restart \/ Crash \/ TornSave
    /\ \E quitters \in SUBSET {w \in Workers : Alive(w)} :
         /\ worker' = [w \in Workers |-> IF w \in quitters THEN "none" ELSE worker[w]]
         /\ terminated' = terminated \ quitters
         /\ port' = IF port \in quitters THEN None ELSE port
    /\ own' = {}
    /\ mail' = [w \in Workers |-> "none"]
    /\ last' = None
    /\ proc' = None
    /\ polling' = [t \in Tasks |-> "idle"]
    /\ stop_call' = [c \in Stoppers |-> "idle"]
    /\ victim' = [c \in Stoppers |-> None]
    /\ astray' = FALSE

MockNext ==
    \/ ControllerStep \/ MockTick
    \/ \E r \in Requests : Inferred(r)
    \/ \E w \in Workers :
         Bind(w) \/ Unbind(w) \/ Load(w) \/ Beat(w) \/ WorkerExits(w) \/ Handle(w)
    \/ \E t \in Tasks :
         \/ Starts(t) \/ ClearRegistry(t) \/ Spawn(t) \/ PollReady(t) \/ PollFails(t)
         \/ Started(t) \/ StartFailed(t) \/ CleanedUp(t)
    \/ \E c \in Stoppers : StopStep(c)
    \/ Probed \/ LoopStopped \/ ForcedStop
    \/ ProcessEnds

MockSpec == MockInit /\ [][MockNext]_allVars

\* As in ColabSystem; a worker loads, heartbeats and dies of its SIGTERM, its
\* pushes are handled, and every call of the driver ends.
MockFairness ==
    /\ \A r \in Requests :
         /\ WF_allVars(WakeReady(r) /\ UNCHANGED mockVars)
         /\ WF_allVars(WakeFailed(r) /\ UNCHANGED mockVars)
         /\ WF_allVars(ResumeGranted(r) /\ UNCHANGED mockVars)
         /\ WF_allVars(Inferred(r))
    /\ \A w \in Workers :
         /\ WF_allVars(Bind(w)) /\ WF_allVars(Load(w)) /\ WF_allVars(Beat(w))
         /\ WF_allVars(w \in terminated /\ WorkerExits(w)) /\ WF_allVars(Handle(w))
    /\ \A t \in Tasks :
         /\ WF_allVars(Starts(t)) /\ WF_allVars(ClearRegistry(t)) /\ WF_allVars(Spawn(t))
         /\ WF_allVars(PollReady(t) \/ PollFails(t))
         /\ WF_allVars(Started(t)) /\ WF_allVars(StartFailed(t)) /\ WF_allVars(CleanedUp(t))
    /\ \A c \in Stoppers : WF_allVars(StopStep(c))
    /\ WF_allVars(LoopWakes /\ UNCHANGED mockVars) /\ WF_allVars(Probed)
    /\ WF_allVars(LoopStopped)
    /\ SF_allVars(MockTick)

MockFairSpec == MockSpec /\ MockFairness

----------------------------------------------------------------------------
(* What holds                                                               *)

\* A worker that an earlier controller left behind is never taken for one of
\* this controller, however their pushes mix: what the registry says under this
\* controller's WORKER_ID was said by one of its own workers.
RegistryHonest == last # None /\ last.own => last.by \in own

\* stop() can reach every live worker of this controller through _proc
\* (mock_driver.py:41-47, :80-88), unless two driver calls have overlapped, or the
\* heartbeat timeout wrote ERROR over a worker that was alive, which nobody stops
\* (worker_manager.py:99-103): no other course of startups, failures, retries,
\* stops and restarts spawns a worker beside a live one.
WorkersTracked == ~astray => \A w \in own : Alive(w) => w = proc

\* A READY status does not outlast its worker: once no worker is left to push,
\* the heartbeat times out, or the idle stop comes first.
LostWorkerDetected ==
    (state = "READY" /\ \A w \in Workers : ~Alive(w)) ~>
        (state # "READY" \/ \E w \in Workers : Alive(w))

----------------------------------------------------------------------------
(* What the documents say and the code does not do: each is refuted by a run *)

\* "self-terminate rather than become an orphaned process" (worker/mock_server.py:46).
OrphansExit == \A w \in Workers : (Alive(w) /\ w \notin own) ~> (~Alive(w) \/ w \in own)
=============================================================================
