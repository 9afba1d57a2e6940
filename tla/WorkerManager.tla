---------------------------- MODULE WorkerManager ----------------------------
(***************************************************************************)
(* The controller's core: WorkerManager (services/worker_manager.py), the  *)
(* persisted status it keeps (state.py) and the background loop that       *)
(* probes and idles it (services/lifecycle_manager.py).                    *)
(*                                                                         *)
(* All of it runs on one asyncio event loop, so a step of the model is the *)
(* code between two points where a coroutine is really suspended: a driver *)
(* call in a thread (asyncio.to_thread), a sleep, the shared startup       *)
(* future, a full semaphore.  The driver is nondeterministic here; module  *)
(* ColabSystem puts the Colab session behind it.                           *)
(*                                                                         *)
(* A timestamp is kept as its age in ticks, up to the value beyond which   *)
(* no comparison of the code can tell two ages apart; None stands for the  *)
(* None of the code.  A Tick passes only when the event loop has nothing   *)
(* ready to run: a turn of the loop is short beside every timeout.         *)
(***************************************************************************)
EXTENDS Naturals, Sequences, FiniteSets

CONSTANTS
    Requests,           \* POST /v1/chat/completions calls that may be in flight
    Tasks,              \* asyncio tasks that may run _do_startup
    NoTask,             \* startup_task before the first start
    None,               \* an unset timestamp
    MaxRetries,         \* settings.startup_max_retries
    Backoff,            \* settings.startup_retry_backoff_seconds, in ticks
    HeartbeatTimeout,   \* settings.heartbeat_timeout_seconds, in ticks
    IdleTimeout,        \* settings.worker_idle_timeout_seconds, in ticks
    InferenceTimeout,   \* what bounds a driver.infer, in ticks: behind the Colab
                        \* driver settings.inference_timeout_seconds and 15 s more
    MaxConcurrent,      \* settings.max_concurrent_requests
    HealthOutcomes,     \* what driver.health can do
    Incidents           \* what may happen to the process

ASSUME RequestsAssumption == IsFiniteSet(Requests)
ASSUME TasksAssumption == Tasks # {} /\ NoTask \notin Tasks
ASSUME NoneAssumption == None \notin Nat
ASSUME LimitsAssumption ==
    /\ MaxRetries \in Nat \ {0}
    /\ MaxConcurrent \in Nat \ {0}
    /\ Backoff \in Nat
    /\ HeartbeatTimeout \in Nat
    /\ IdleTimeout \in Nat \ {0}
    /\ InferenceTimeout \in Nat
\* "missing": None; "alive": a reply without last_seen; "pushed": a reply with
\* last_seen (mock mode); "raises": the `colab status` call timed out.
ASSUME HealthAssumption == HealthOutcomes \subseteq {"missing", "alive", "pushed", "raises"}
ASSUME IncidentsAssumption ==
    Incidents \subseteq {"crash", "torn_save", "shutdown", "force_stop"}

VARIABLES
    \* the WorkerStatus, saved at each change
    state, last_heartbeat, last_request, started_at,
    \* the startup: _error_at, _startup_task and the _do_startup tasks
    error_at, startup_task, task, attempt, slept,
    \* the requests: where each one is, the task it awaits, how long it infers
    req, awaited, infer_age,
    \* _infer_semaphore: its value and the waiters it has not woken
    sem_value, sem_queue,
    \* the lifecycle loop and its _stop_event; a force_stop() in progress
    loop, stop_event, forced

statusVars    == <<state, last_heartbeat, last_request, started_at>>
startupVars   == <<error_at, startup_task, task, attempt, slept>>
requestVars   == <<req, awaited, infer_age>>
semaphoreVars == <<sem_value, sem_queue>>
loopVars      == <<loop, stop_event, forced>>
vars == <<statusVars, startupVars, requestVars, semaphoreVars, loopVars>>

WorkerState ==
    {"OFFLINE", "STARTING", "BOOTING", "LOADING_MODEL", "READY", "STOPPING", "ERROR"}

\* Where a _do_startup task is suspended; "done" also before it is created.
TaskPhases == {"done", "created", "starting", "cleaning", "backoff"}

\* joined: awaits the startup.  ready, failed: the startup's result is in the
\* future.  queued: waits for the semaphore.  granted: woken by it.  inferring:
\* in driver.infer.  The last three are the answers 200, 503 and 502.
Answers == {"ok", "unavailable", "error"}
RequestPhases ==
    {"idle", "joined", "ready", "failed", "queued", "granted", "inferring"} \cup Answers

LoopPhases == {"waiting", "health", "stopping", "exited"}

Ages(cap) == 0..cap \cup {None}

TypeOK ==
    /\ state \in WorkerState
    /\ last_heartbeat \in Ages(HeartbeatTimeout + 1)
    /\ last_request \in Ages(IdleTimeout)
    /\ started_at \in Ages(IdleTimeout)
    /\ error_at \in Ages(Backoff)
    /\ startup_task \in Tasks \cup {NoTask}
    /\ task \in [Tasks -> TaskPhases]
    /\ attempt \in [Tasks -> 1..MaxRetries]
    /\ slept \in [Tasks -> 0..Backoff]
    /\ req \in [Requests -> RequestPhases]
    /\ awaited \in [Requests -> Tasks \cup {NoTask}]
    /\ infer_age \in [Requests -> 0..InferenceTimeout]
    /\ sem_value \in 0..MaxConcurrent
    /\ sem_queue \in Seq(Requests)
    /\ loop \in LoopPhases
    /\ stop_event \in BOOLEAN
    /\ forced \in BOOLEAN

----------------------------------------------------------------------------
(* A fresh process: WorkerManager() and LifecycleManager() with nothing in  *)
(* flight, over whatever status the state file holds.                       *)

FreshProcess ==
    /\ error_at = None
    /\ startup_task = NoTask
    /\ task = [t \in Tasks |-> "done"]
    /\ attempt = [t \in Tasks |-> 1]
    /\ slept = [t \in Tasks |-> 0]
    /\ req = [r \in Requests |-> "idle"]
    /\ awaited = [r \in Requests |-> NoTask]
    /\ infer_age = [r \in Requests |-> 0]
    /\ sem_value = MaxConcurrent
    /\ sem_queue = <<>>
    /\ loop = "waiting"
    /\ stop_event = FALSE
    /\ forced = FALSE

\* No state file, or one that _load cannot read: the defaults.
DefaultStatus ==
    /\ state = "OFFLINE"
    /\ last_heartbeat = None
    /\ last_request = None
    /\ started_at = None

Init == DefaultStatus /\ FreshProcess

----------------------------------------------------------------------------
(* ensure_ready and run_inference                                           *)

\* Mutation: in flight is judged by the saved state instead of the task.
StartupInFlight_ByState == state \in {"STARTING", "BOOTING", "LOADING_MODEL"}

\* Mutation: done() is not tested.
StartupInFlight_NotNone == startup_task \in Tasks

\* _startup_task is not None and not done().
StartupInFlight == startup_task \in Tasks /\ task[startup_task] # "done"

\* ERROR, and the last failure is less than the backoff ago.
CoolingDown == state = "ERROR" /\ error_at # None /\ error_at < Backoff

\* The requests that hold a slot of the semaphore.
Holders == {r \in Requests : req[r] \in {"granted", "inferring"}}

\* asyncio.Semaphore.locked(): no slot, or somebody is already waiting.
Locked == sem_value = 0 \/ sem_queue # <<>> \/ \E r \in Requests : req[r] = "granted"

\* Request r is past ensure_ready: it takes a slot and starts to infer,
\* touching last_request, or waits for a slot.
EnterInference(r) ==
    IF Locked
    THEN /\ req' = [req EXCEPT ![r] = "queued"]
         /\ sem_queue' = Append(sem_queue, r)
         /\ UNCHANGED <<sem_value, last_request>>
    ELSE /\ req' = [req EXCEPT ![r] = "inferring"]
         /\ sem_value' = sem_value - 1
         /\ last_request' = 0
         /\ UNCHANGED sem_queue

\* _wake_up_next with `value` slots free wakes one waiter; a waiter that runs
\* again wakes all that fit.
FirstWaiter(value) == IF value > 0 /\ sem_queue # <<>> THEN 1 ELSE 0
AllThatFit(value) == IF value < Len(sem_queue) THEN value ELSE Len(sem_queue)

\* The semaphore gives its first n waiters a slot each.
HandOver(phase, value, n) ==
    /\ req' = [r \in Requests |->
                 IF \E i \in 1..n : sem_queue[i] = r THEN "granted" ELSE phase[r]]
    /\ sem_queue' = SubSeq(sem_queue, n + 1, Len(sem_queue))
    /\ sem_value' = value - n

ArriveReady(r) ==
    /\ ~stop_event
    /\ req[r] = "idle"
    /\ state = "READY"
    /\ EnterInference(r)
    /\ UNCHANGED <<state, last_heartbeat, started_at, startupVars, awaited, infer_age, loopVars>>

ArriveCooling(r) ==
    /\ ~stop_event
    /\ req[r] = "idle"
    /\ CoolingDown
    /\ req' = [req EXCEPT ![r] = "unavailable"]
    /\ UNCHANGED <<statusVars, startupVars, awaited, infer_age, semaphoreVars, loopVars>>

\* The startup lock is never contended (its body does not suspend), so this is
\* one step: create the task unless one is in flight, and await it.
ArriveWaiting(r) ==
    /\ ~stop_event
    /\ req[r] = "idle"
    /\ state # "READY"
    /\ ~CoolingDown
    /\ IF StartupInFlight
       THEN UNCHANGED <<startup_task, task>>
       ELSE \E t \in Tasks :
              /\ task[t] = "done"
              /\ startup_task' = t
              /\ task' = [task EXCEPT ![t] = "created"]
    /\ req' = [req EXCEPT ![r] = "joined"]
    /\ awaited' = [awaited EXCEPT ![r] = startup_task']
    /\ UNCHANGED <<statusVars, error_at, attempt, slept, infer_age, semaphoreVars,
                   loopVars>>

\* `await task` returned a READY status; the state is not looked at again.
WakeReady(r) ==
    /\ req[r] = "ready"
    /\ EnterInference(r)
    /\ UNCHANGED <<state, last_heartbeat, started_at, startupVars, awaited, infer_age, loopVars>>

WakeFailed(r) ==
    /\ req[r] = "failed"
    /\ req' = [req EXCEPT ![r] = "unavailable"]
    /\ UNCHANGED <<statusVars, startupVars, awaited, infer_age, semaphoreVars, loopVars>>

\* A waiter of the semaphore runs again: it wakes the next ones if slots are
\* left, and goes straight to driver.infer, whatever the state is by now.
ResumeGranted(r) ==
    /\ req[r] = "granted"
    /\ HandOver([req EXCEPT ![r] = "inferring"], sem_value, AllThatFit(sem_value))
    /\ last_request' = 0
    /\ UNCHANGED <<state, last_heartbeat, started_at, startupVars, awaited, infer_age, loopVars>>

\* Mutation: the slot is not released when driver.infer raises.
InferReturns_LeaksOnError(r, answer) ==
    /\ req[r] = "inferring"
    /\ IF answer = "ok"
       THEN HandOver([req EXCEPT ![r] = answer], sem_value + 1, FirstWaiter(sem_value + 1))
       ELSE req' = [req EXCEPT ![r] = answer] /\ UNCHANGED semaphoreVars
    /\ infer_age' = [infer_age EXCEPT ![r] = 0]
    /\ UNCHANGED <<statusVars, startupVars, awaited, loopVars>>

\* driver.infer returned or raised; the slot is released either way.
InferReturns(r, answer) ==
    /\ req[r] = "inferring"
    /\ HandOver([req EXCEPT ![r] = answer], sem_value + 1, FirstWaiter(sem_value + 1))
    /\ infer_age' = [infer_age EXCEPT ![r] = 0]
    /\ UNCHANGED <<statusVars, startupVars, awaited, loopVars>>

\* The answered client is gone; its identity stands for a new request.
Retire(r) ==
    /\ req[r] \in Answers
    /\ req' = [req EXCEPT ![r] = "idle"]
    /\ UNCHANGED <<statusVars, startupVars, awaited, infer_age, semaphoreVars, loopVars>>

----------------------------------------------------------------------------
(* _do_startup, in task t                                                   *)

\* Mutation: a failed startup leaves the future unresolved.
Deliver_SuccessOnly(t, s) ==
    IF s = "READY"
    THEN /\ req' = [r \in Requests |->
                      IF req[r] = "joined" /\ awaited[r] = t THEN "ready" ELSE req[r]]
         /\ awaited' = [r \in Requests |-> IF awaited[r] = t THEN NoTask ELSE awaited[r]]
    ELSE UNCHANGED <<req, awaited>>

\* The task returns status s: each request awaiting it gets READY or a failure.
Deliver(t, s) ==
    /\ req' = [r \in Requests |->
                 IF req[r] = "joined" /\ awaited[r] = t
                 THEN IF s = "READY" THEN "ready" ELSE "failed"
                 ELSE req[r]]
    /\ awaited' = [r \in Requests |-> IF awaited[r] = t THEN NoTask ELSE awaited[r]]

\* Mutation: the startup does not save its states.
StartupBegins_Unsaved(t) ==
    /\ task[t] = "created"
    /\ task' = [task EXCEPT ![t] = "starting"]
    /\ UNCHANGED <<statusVars, error_at, startup_task, attempt, slept, requestVars,
                   semaphoreVars, loopVars>>

\* STARTING, BOOTING and LOADING_MODEL are all saved before driver.start runs.
StartupBegins(t) ==
    /\ task[t] = "created"
    /\ task' = [task EXCEPT ![t] = "starting"]
    /\ state' = "LOADING_MODEL"
    /\ UNCHANGED <<last_heartbeat, last_request, started_at, error_at, startup_task,
                   attempt, slept, requestVars, semaphoreVars, loopVars>>

\* Mutation: last_heartbeat is left as the last worker's.
StartSucceeds_KeepsHeartbeat(t) ==
    /\ task[t] = "starting"
    /\ task' = [task EXCEPT ![t] = "done"]
    /\ state' = "READY"
    /\ started_at' = 0
    /\ error_at' = None
    /\ attempt' = [attempt EXCEPT ![t] = 1]
    /\ Deliver(t, "READY")
    /\ UNCHANGED <<last_heartbeat, last_request, startup_task, slept, infer_age,
                   semaphoreVars, loopVars>>

StartSucceeds(t) ==
    /\ task[t] = "starting"
    /\ task' = [task EXCEPT ![t] = "done"]
    /\ state' = "READY"
    /\ started_at' = 0
    /\ last_heartbeat' = 0
    /\ error_at' = None
    /\ attempt' = [attempt EXCEPT ![t] = 1]
    /\ Deliver(t, "READY")
    /\ UNCHANGED <<last_request, startup_task, slept, infer_age, semaphoreVars, loopVars>>

\* GpuUnavailableError or any other exception: they differ in the message only.
\* driver.stop is then called, after the last attempt too.
StartFails(t) ==
    /\ task[t] = "starting"
    /\ task' = [task EXCEPT ![t] = "cleaning"]
    /\ state' = "ERROR"
    /\ error_at' = 0
    /\ UNCHANGED <<last_heartbeat, last_request, started_at, startup_task,
                   attempt, slept, requestVars, semaphoreVars, loopVars>>

\* Mutation: off by one in range(1, startup_max_retries + 1).
AttemptsLeft_OneMore(t) == attempt[t] <= MaxRetries

AttemptsLeft(t) == attempt[t] < MaxRetries

\* The cleanup's driver.stop returned or raised: sleep before the next attempt,
\* or return the status as it is by now.
CleanupReturns(t) ==
    /\ task[t] = "cleaning"
    /\ IF AttemptsLeft(t)
       THEN /\ task' = [task EXCEPT ![t] = "backoff"]
            /\ UNCHANGED <<attempt, req, awaited>>
       ELSE /\ task' = [task EXCEPT ![t] = "done"]
            /\ attempt' = [attempt EXCEPT ![t] = 1]
            /\ Deliver(t, state)
    /\ UNCHANGED <<statusVars, error_at, startup_task, slept, infer_age,
                   semaphoreVars, loopVars>>

BackoffEnds(t) ==
    /\ task[t] = "backoff"
    /\ slept[t] = Backoff
    /\ task' = [task EXCEPT ![t] = "starting"]
    /\ attempt' = [attempt EXCEPT ![t] = @ + 1]
    /\ slept' = [slept EXCEPT ![t] = 0]
    /\ state' = "LOADING_MODEL"
    /\ UNCHANGED <<last_heartbeat, last_request, started_at, error_at, startup_task,
                   requestVars, semaphoreVars, loopVars>>

----------------------------------------------------------------------------
(* The lifecycle loop: check_health, then stop_if_idle, then wait           *)

Unhealthy(heartbeat) == heartbeat # None /\ heartbeat > HeartbeatTimeout

\* Mutation: only last_request counts, not the start itself.
Idle_ByRequestOnly == last_request # None /\ last_request >= IdleTimeout

\* now - max(last_request or 0, started_at or 0) >= the idle timeout.
Idle ==
    LET seen == {last_request, started_at} \ {None}
    IN  seen # {} /\ \A age \in seen : age >= IdleTimeout

\* The wait timed out: outside READY the iteration has nothing to do.
LoopWakes ==
    /\ loop = "waiting"
    /\ ~stop_event
    /\ state = "READY"
    /\ loop' = "health"
    /\ UNCHANGED <<statusVars, startupVars, requestVars, semaphoreVars, stop_event, forced>>

\* The last_heartbeat values a reply of the driver leads to.
Heartbeat(reply) ==
    CASE reply = "missing" -> {last_heartbeat}
      [] reply = "alive"   -> {0}
      [] reply = "pushed"  -> 0..HeartbeatTimeout + 1

\* Mutation: the iteration is over unless the probe has brought a newer heartbeat.
RestOfIteration_AfterBeatOnly(heartbeat) ==
    IF heartbeat = last_heartbeat
    THEN loop' = "waiting" /\ UNCHANGED <<state, error_at>>
    ELSE IF Unhealthy(heartbeat)
    THEN state' = "ERROR" /\ error_at' = 0 /\ loop' = "waiting"
    ELSE IF state = "READY" /\ Idle
    THEN state' = "STOPPING" /\ loop' = "stopping" /\ UNCHANGED error_at
    ELSE loop' = "waiting" /\ UNCHANGED <<state, error_at>>

\* The end of check_health, which does not look at the state again, and
\* stop_if_idle up to its driver.stop.
RestOfIteration(heartbeat) ==
    IF Unhealthy(heartbeat)
    THEN state' = "ERROR" /\ error_at' = 0 /\ loop' = "waiting"
    ELSE IF state = "READY" /\ Idle
    THEN state' = "STOPPING" /\ loop' = "stopping" /\ UNCHANGED error_at
    ELSE loop' = "waiting" /\ UNCHANGED <<state, error_at>>

\* driver.health returned.
HealthReplies(reply) ==
    /\ loop = "health"
    /\ \E heartbeat \in Heartbeat(reply) :
         last_heartbeat' = heartbeat /\ RestOfIteration(heartbeat)
    /\ UNCHANGED <<last_request, started_at, startup_task, task, attempt, slept,
                   requestVars, semaphoreVars, stop_event, forced>>

\* Mutation: the exception ends the loop's task.
HealthRaises_EndsLoop ==
    /\ loop = "health"
    /\ loop' = "exited"
    /\ UNCHANGED <<statusVars, startupVars, requestVars, semaphoreVars, stop_event, forced>>

\* driver.health raised: the loop swallows it and skips the rest.
HealthRaises ==
    /\ loop = "health"
    /\ loop' = "waiting"
    /\ UNCHANGED <<statusVars, startupVars, requestVars, semaphoreVars, stop_event, forced>>

HealthReturns ==
    \/ \E reply \in HealthOutcomes \ {"raises"} : HealthReplies(reply)
    \/ "raises" \in HealthOutcomes /\ HealthRaises

\* The finally of _stop, whether driver.stop returned or raised.
MarkOffline ==
    /\ state' = "OFFLINE"
    /\ last_heartbeat' = None
    /\ started_at' = None
    /\ UNCHANGED last_request

LoopStopReturns ==
    /\ loop = "stopping"
    /\ loop' = "waiting"
    /\ MarkOffline
    /\ UNCHANGED <<startupVars, requestVars, semaphoreVars, stop_event, forced>>

----------------------------------------------------------------------------
(* force_stop, shutdown, restart, crash                                     *)

ForceStopBegins ==
    /\ "force_stop" \in Incidents
    /\ ~forced
    /\ forced' = TRUE
    /\ state' = "STOPPING"
    /\ UNCHANGED <<last_heartbeat, last_request, started_at, startupVars, requestVars,
                   semaphoreVars, loop, stop_event>>

ForceStopReturns ==
    /\ forced
    /\ forced' = FALSE
    /\ MarkOffline
    /\ UNCHANGED <<startupVars, requestVars, semaphoreVars, loop, stop_event>>

\* uvicorn has drained the requests and runs the end of the lifespan:
\* lifecycle_manager.stop() sets the event and awaits the loop.
Shutdown ==
    /\ "shutdown" \in Incidents
    /\ ~stop_event
    /\ \A r \in Requests : req[r] \in {"idle"} \cup Answers
    /\ stop_event' = TRUE
    /\ UNCHANGED <<statusVars, startupVars, requestVars, semaphoreVars, loop, forced>>

\* Mutation: stop() does not await the loop's task.
LoopExits_NotAwaited ==
    /\ stop_event
    /\ loop \in {"waiting", "health", "stopping"}
    /\ loop' = "exited"
    /\ UNCHANGED <<statusVars, startupVars, requestVars, semaphoreVars, stop_event, forced>>

\* A loop that waits sees the event at once, any other at its next test.
LoopExits ==
    /\ stop_event
    /\ loop = "waiting"
    /\ loop' = "exited"
    /\ UNCHANGED <<statusVars, startupVars, requestVars, semaphoreVars, stop_event, forced>>

\* A new process: the same as FreshProcess, reached from any state.
Boot ==
    /\ error_at' = None
    /\ startup_task' = NoTask
    /\ task' = [t \in Tasks |-> "done"]
    /\ attempt' = [t \in Tasks |-> 1]
    /\ slept' = [t \in Tasks |-> 0]
    /\ req' = [r \in Requests |-> "idle"]
    /\ awaited' = [r \in Requests |-> NoTask]
    /\ infer_age' = [r \in Requests |-> 0]
    /\ sem_value' = MaxConcurrent
    /\ sem_queue' = <<>>
    /\ loop' = "waiting"
    /\ stop_event' = FALSE
    /\ forced' = FALSE

\* The next process starts over the saved status.
Restart ==
    /\ loop = "exited"
    /\ Boot
    /\ UNCHANGED statusVars

\* A startup is about to save STARTING, BOOTING and LOADING_MODEL in a row.
StatesASaveMayReach ==
    {state} \cup (IF \E t \in Tasks : task[t] \in {"created", "backoff"}
                  THEN {"STARTING", "BOOTING"} ELSE {})

Crash ==
    /\ "crash" \in Incidents
    /\ Boot
    /\ state' \in StatesASaveMayReach
    /\ UNCHANGED <<last_heartbeat, last_request, started_at>>

\* Some coroutine may save the status in its next step.
SaveDue ==
    \/ state = "READY" \/ loop \in {"health", "stopping"} \/ forced
    \/ \E r \in Requests : req[r] \in {"ready", "granted"}
    \/ \E t \in Tasks : task[t] # "done"

\* A crash inside write_text, which truncates first: _load falls back.
TornSave ==
    /\ "torn_save" \in Incidents
    /\ SaveDue
    /\ Boot
    /\ state' = "OFFLINE"
    /\ last_heartbeat' = None
    /\ last_request' = None
    /\ started_at' = None

----------------------------------------------------------------------------
(* Time                                                                     *)

Older(age, cap) == IF age = None \/ age = cap THEN age ELSE age + 1

\* The event loop has a callback ready to run.
LoopBusy ==
    \/ \E r \in Requests : req[r] \in {"ready", "failed", "granted"}
    \/ \E t \in Tasks : task[t] = "created"

\* driver.infer is bounded by the timeout of its subprocess: it returns by then.
InferenceDue == \E r \in Requests : req[r] = "inferring" /\ infer_age[r] = InferenceTimeout

Tick ==
    /\ ~LoopBusy
    /\ ~InferenceDue
    /\ last_heartbeat' = Older(last_heartbeat, HeartbeatTimeout + 1)
    /\ last_request' = Older(last_request, IdleTimeout)
    /\ started_at' = Older(started_at, IdleTimeout)
    /\ error_at' = Older(error_at, Backoff)
    /\ slept' = [t \in Tasks |-> IF task[t] = "backoff" /\ slept[t] < Backoff
                                 THEN slept[t] + 1 ELSE slept[t]]
    /\ infer_age' = [r \in Requests |-> IF req[r] = "inferring"
                                        THEN infer_age[r] + 1 ELSE infer_age[r]]
    /\ UNCHANGED <<state, startup_task, task, attempt, req, awaited, semaphoreVars, loopVars>>

----------------------------------------------------------------------------
(* The system                                                               *)

InferenceAnswers == {"ok", "error"}

RequestStep(r) ==
    \/ ArriveReady(r) \/ ArriveCooling(r) \/ ArriveWaiting(r)
    \/ WakeReady(r) \/ WakeFailed(r) \/ ResumeGranted(r)
    \/ \E answer \in InferenceAnswers : InferReturns(r, answer)
    \/ Retire(r)

StartupStep(t) ==
    \/ StartupBegins(t) \/ StartSucceeds(t) \/ StartFails(t)
    \/ CleanupReturns(t) \/ BackoffEnds(t)

LoopStep == LoopWakes \/ HealthReturns \/ LoopStopReturns \/ LoopExits

IncidentStep ==
    ForceStopBegins \/ ForceStopReturns \/ Shutdown \/ Restart \/ Crash \/ TornSave

Next ==
    \/ \E r \in Requests : RequestStep(r)
    \/ \E t \in Tasks : StartupStep(t)
    \/ LoopStep
    \/ IncidentStep
    \/ Tick

Spec == Init /\ [][Next]_vars

----------------------------------------------------------------------------
(* Safety                                                                   *)

\* At most one startup runs at any time, and it is the one that new requests
\* are sent to: "20 requests -> one STARTING op" (worker_manager.py:4).
SingleStartup ==
    \A t \in Tasks : task[t] # "done" => t = startup_task

\* A startup runs exactly while requests wait for it: none waits on a task
\* that is over, and no startup is left running for nobody, so that uvicorn
\* cannot reach the lifespan's end while one provisions.
StartupAwaited ==
    \A t \in Tasks :
        task[t] # "done" <=> \E r \in Requests : req[r] = "joined" /\ awaited[r] = t

\* No startup provisions behind a READY status.
ReadyMeansStarted ==
    state = "READY" => started_at # None /\ \A t \in Tasks : task[t] = "done"

\* Every slot of _infer_semaphore is free or held by one live request, and
\* its queue lists each queued request once.
SlotsConserved ==
    /\ sem_value + Cardinality(Holders) = MaxConcurrent
    /\ \A i \in 1..Len(sem_queue) : req[sem_queue[i]] = "queued"
    /\ \A i, j \in 1..Len(sem_queue) : sem_queue[i] = sem_queue[j] => i = j
    /\ \A r \in Requests : req[r] = "queued" => \E i \in 1..Len(sem_queue) : sem_queue[i] = r

\* A queued request always has a slot's release to come.
QueueServed == sem_queue # <<>> => Holders # {}

\* The idle stop never pulls the worker from under a request: none is waiting
\* for the startup, promised a ready worker, queued for a slot or inferring.
\* last_request is only touched when an inference starts, so this depends on
\* the inference timeout being shorter than the idle timeout.
IdleStopHarmless ==
    [][loop = "health" /\ loop' = "stopping" =>
         \A r \in Requests :
            req[r] \notin {"joined", "ready", "queued", "granted", "inferring"}]_vars

\* A worker is given up for its own silence only: it has been READY for longer
\* than the heartbeat timeout (or than the ages tell), so neither what its
\* predecessor left in the status, nor a probe that was sent before a stop and a new
\* start, nor a crash between can end it.  Claimed for drivers whose probe is the
\* heartbeat: a pushed last_seen is whatever the worker's clock says.
SilenceIsItsOwn ==
    [][state = "READY" /\ state' = "ERROR" =>
         started_at = IdleTimeout \/ started_at > HeartbeatTimeout]_vars

----------------------------------------------------------------------------
(* What the documents say and the code does not do: refuted by a run          *)

\* "every concurrent request checks-then-waits on the same in-flight future"
\* (docs/architecture.md:59): none is refused while a startup is in flight.
JoinsStartupInFlight ==
    [][\A r \in Requests : req[r] = "idle" /\ req'[r] = "unavailable" =>
         \A t \in Tasks : task[t] = "done"]_vars

----------------------------------------------------------------------------
(* Liveness, under the fairness of the module that adds the driver          *)

\* Every request is answered: startups end after their bounded retries, and
\* slots are passed on.
RequestsAnswered ==
    \A r \in Requests : req[r] # "idle" ~> req[r] \in Answers \cup {"idle"}

\* The loop goes on probing, but from some time on every probe raises.  Such an
\* iteration skips the rest, so nothing can be asked of the worker then.
ProbesOnlyRaise ==
    /\ []<><<HealthRaises>>_vars
    /\ <>[][~\E reply \in HealthOutcomes \ {"raises"} : HealthReplies(reply)]_vars

\* When requests stop coming, the worker does not stay up, however many probes
\* raise, as long as one returns again and again.
IdleWorkerStops ==
    (<>[] \A r \in Requests : req[r] \in {"idle"} \cup Answers) =>
        \/ <>[](state # "READY")
        \/ ProbesOnlyRaise

\* A worker whose last heartbeat is too old does not stay READY
\* (docs/architecture.md:55), on the same condition.
HeartbeatTimeoutFires ==
    \/ (state = "READY" /\ Unhealthy(last_heartbeat)) ~>
          (state # "READY" \/ ~Unhealthy(last_heartbeat))
    \/ ProbesOnlyRaise

----------------------------------------------------------------------------
(* The startup lock and future, seen as the abstract single flight          *)

Flights == INSTANCE SingleFlight WITH
    Callers <- Requests,
    flying  <- \E t \in Tasks : task[t] # "done",
    waiters <- {r \in Requests : req[r] = "joined"},
    outcome <- [r \in Requests |-> IF req[r] \in {"ready", "failed"} THEN req[r] ELSE "none"]

ImplementsSingleFlight == Flights!Spec
=============================================================================
