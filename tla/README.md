# A TLA+ model of the Colab GPU inference controller

The repository is an HTTP controller that keeps one GPU worker alive on demand:
it starts the worker when a request comes, serves requests through it, watches
it, and stops it when nobody uses it. The worker is a Colab session driven by
the `colab` command line, or (`WORKER_MODE=mock`) a local process. This
directory models the worker's life cycle, the two drivers behind it, the rate
limiter in front of it, the path of a request through all of them to the model
and back, and the deployment around the controller.

## 1. Inventory

| Part | State it keeps | Operations | Talks to |
|---|---|---|---|
| `WorkerManager` (`services/worker_manager.py`) | `_startup_task`, `_startup_lock`, `_infer_semaphore`, `_error_at` | `ensure_ready`, `run_inference`, `check_health`, `stop_if_idle`, `force_stop`, `_do_startup`, `_stop` | the driver, in threads; `StateStore` |
| `StateStore` (`state.py`) | the `WorkerStatus`, in memory and in a file rewritten at every change | `get`, `update`, `transition`, `touch_*`, `_load`, `_save` | the disk |
| `LifecycleManager` (`services/lifecycle_manager.py`), lifespan (`main.py`) | the loop's task, `_stop_event` | one iteration per heartbeat interval: health, then idle stop; stop at shutdown | `WorkerManager` |
| Colab driver and CLI (`colab_driver.py`, `colab_manager.py`) | none: the session lives at Colab under a fixed name | `new`, `upload`, `install`, `exec`, `status`, `stop`, each bounded by a timeout | the `colab` subprocess |
| Mock driver, registry, internal API (`mock_driver.py`, `registry.py`, `api/internal.py`) | `_proc`, `_worker_id`, the last push | spawn and poll, terminate and kill; `register`, `heartbeat`, `clear` | worker processes over HTTP |
| Mock worker (`worker/mock_server.py`) | `_status`, its push failure count, the port | boot, load, push, heartbeat, exit | the internal API |
| `RateLimiter` (`security.py`) | one deque of hit times per client | `check` | called in pool threads |
| Chat API (`api/chat.py`, the middleware of `main.py`) | none | the checks of a request, its 200, 400, 401, 413, 422, 429, 500, 502 or 503 | `WorkerManager` |
| Inference engine, bootstrap (`worker/inference.py`, `bootstrap.py`) | the loaded model | `load`, `generate`, `_build_hf_messages`, `_handle_request` | the GPU |
| Boot script (`docker-entrypoint.sh`) | the credential files on the container's disk | two guarded copies, then the server | the CLI, which reads them |
| Proof of concept (`phase1_poc/run_poc.py`) | `created` | `sessions`, `new`, `exec`, `stop` in a `finally` | the same Colab account |
| Status, health, config, logging, redaction | settings | reads | - |

**How they interact.** The controller is one process with one event loop. A
request awaits a startup task that all waiting requests share, then an inference
slot, then the driver's call in a thread. The life-cycle loop is another
coroutine of that event loop, so it interleaves with requests and startups at
every `await`. The drivers' calls run in threads beside each other. In mock
mode the workers' pushes arrive through the same HTTP server, in pool threads.

**What is hard.** State read before an `await` and acted on after it (the idle
stop, the health probe, a queued request); a startup and a stop of the same
worker at the same time; failures half-way through a provisioning; an exception
that skips the rest of an iteration; a crash between or inside two saves of the
status; workers and sessions that outlive the controller; a deque shared by
threads without a lock; a call that has timed out while its computation goes on in the
kernel; temporary files of calls that run beside each other; lists collected
across messages and parts; a boot that is cut short inside a copy. `PROJECT.json` lists each of them at its line.

**What makes each part correct.** One startup at a time, whose waiters all get
its outcome; no slot lost; an idle stop that hurts no request; a worker that is
gone or silent is given up; a failed attempt leaves no session; the registry
credits nobody but this controller's workers; the limiter admits what it says;
each client gets the answer to its own messages, in its own order, and nothing
is computed for a request that was refused; the server has its credential, and
whatever container, start or worker a session was left by, the next start that
gives up or stop that ends frees it.

## 2. Modules

```
SingleFlight            abstract: at most one flight, joiners share its outcome
   ^ implemented by
WorkerManager           the controller's core, with a nondeterministic driver
   ^ extended by            ^ extended by
ColabSystem             MockSystem          the same, with a real driver behind it
RateLimiter             on its own: one client's deque under several threads
ChatCompletion          abstract: one answer to each request, its own, and final
   ^ implemented by
RequestPath             on its own: requests between the client and the model
Deployment              on its own: container boots, the sessions of one container
                        after another, the proof of concept
FoldSteps               what a fold computes, for any operator and any sequence
RequestContent_proofs   what the engine collects from messages and parts
*_proofs                theorems about each of the six, one module for each
MC*                     sets and symmetry for TLC
```

**`WorkerManager`.** A step is the code between two points where a coroutine is
really suspended: a `to_thread` call, a sleep, the shared task, a full
semaphore. So `_do_startup` up to `driver.start` is one action
(`StartupBegins`), and `STARTING` and `BOOTING` are never seen by another
coroutine; they exist only for a crash between two saves (`StatesASaveMayReach`).
The body of `_startup_lock` does not suspend, so `ArriveWaiting` is one action.

| Variable | Code |
|---|---|
| `state`, `last_heartbeat`, `last_request`, `started_at` | `WorkerStatus`, always equal to the file's content |
| `error_at`, `startup_task` | `_error_at`, `_startup_task` |
| `task`, `attempt`, `slept` | where each `_do_startup` is suspended, its loop counter, its sleep |
| `req`, `awaited`, `infer_age` | where each request is suspended, the task it awaits, the age of its `driver.infer` |
| `sem_value`, `sem_queue` | `_infer_semaphore._value` and its waiters |
| `loop`, `stop_event`, `forced` | `_loop`, `_stop_event`, a `force_stop` under way |

The actions carry the code's names: `ArriveReady`, `ArriveCooling`,
`ArriveWaiting` are the three ways through `ensure_ready`; `WakeReady` and
`WakeFailed` the two ways out of `await task`; `StartSucceeds`, `StartFails`,
`CleanupReturns`, `BackoffEnds` the rest of `_do_startup`; `LoopWakes`,
`HealthReplies`, `HealthRaises`, `LoopStopReturns`, `LoopExits` the life-cycle
loop. The asyncio semaphore is modelled as the library implements it: a release
gives the slot to the first waiter before that waiter runs (`FirstWaiter`), a
waiter that runs again wakes all that fit (`AllThatFit`), and `Locked` is true
while somebody has been woken or waits.

*Time.* A timestamp is stored as its age in ticks, cut off at the age beyond
which no comparison of the code tells two apart. `Tick` passes when the event
loop has nothing ready to run and no inference is past its timeout. This states
two assumptions: a turn of the event loop is short beside every timeout (each is
20 seconds or more), and the clock does not jump. `InferenceTimeout` is what bounds
a `driver.infer`: behind the Colab driver `inference_timeout_seconds` and 15 s more
(`colab_manager.py:146`), 315 s with the defaults. In mock mode httpx applies
`inference_timeout_seconds` to each phase of the call (connect, write, read, pool)
on its own, so a call may take a multiple of it.

*Incidents.* `Crash` (between two saves), `TornSave` (inside `write_text`, which
truncates first; `_load` then falls back to the defaults), `Shutdown` and
`Restart` (uvicorn drains the requests, then the lifespan stops the loop), and
`force_stop`, which nothing in the repository calls today but is public.

**`ColabSystem`.** Adds the session at Colab, the place of each `driver.start`
among its four CLI calls, and each `driver.stop` under way. A CLI call takes
effect in one step before the coroutine that awaits it resumes. `colab new` of a
name that exists fails (`docs/research.md:241`). On Colab's side, sessions may be
reclaimed (`lost`), `colab new` may be killed by its timeout after it has
allocated (`new_leaks`), `colab stop` may fail (`stop_fails`). The end of the
process takes its CLI calls with it, as the end of a container does; the children
of a controller that is killed alone on a machine that goes on would finish their
call, which is not modelled.

**`MockSystem`.** Adds the worker processes, the port they compete for, their
pushes (one under way per worker, handled late or after the sender's death), the
registry's one slot, and the driver's `_proc` under `start` and `stop`, which share
it from two threads. A step of `start` is `clear()`, then the spawning with its
assignment to `_proc`, then the polling; a step of `stop` is the condition of line
81, `terminate()` with the call of `wait()`, the end of the wait or the `kill()`
after it, `_proc = None`, and `clear()`. Merged into one step are the two reads
of `_proc` in the condition (line 81), and those of `terminate()` and of `wait()`
(lines 82 and 84). Workers of a former controller process are those not in `own`.
`astray` is a history variable for one property only, and no action reads it: it
becomes true when a driver call begins beside another one (`Watch`), or when the
heartbeat timeout gives up a worker that is alive (`GivesUp`), the two ways in which
`_proc` may lose a worker. Simplifications: `BOOTING` counts as
`LOADING_MODEL`; a worker binds its port before its model is loaded; a worker
that gave up during a controller's absence is gone when the next one starts; the
polling fails at any time rather than for one of its reasons.

**`RateLimiter`.** One client's deque, several threads, one access per step, in every
interleaving. A `check()` that finds the deque emptied by another one between its
test and its use ends in `crashed`. Three history variables, which no action reads:
`admitted` (each hit ever appended, with its own time and the time of the append),
`met` (the threads whose check has met another one) and `mixed` (how many hits
there were when such a check last changed the deque). What holds of all hits is
`RefusedOnlyAtLimit` and `OvershootBounded`; what a window admits is claimed for
the hits after `mixed`, since before it the claim is false. The clock
is absolute and stops at `Horizon`, the model's only bound that is not the code's.

**`RequestPath`.** What `WorkerManager` takes for one step, `InferReturns`, in
detail, and everything before and after it. `Verdict` gives the first check that
fails, in the order the framework makes them (body size, JSON, API key, limiter,
which refuses with a 429 or crashes into a 500, schema, `stream`). An admitted request then writes its script (`Call`), has it
read and handed to the kernel (`Submit`), is computed (`Compute`) and answered
(`Finish`, `Fail`). A call and its computation end separately: `Fail` may leave
the computation in `work`, where a Colab kernel takes one at a time and the mock
worker all at once. `ProcessEnds` ends the controller's process at any point: its
requests get no answer, no `finally` runs, and the files it leaves (`Litter`, like
a half-written script) go only if the container does. Which of the limiter's and of `WorkerManager`'s verdicts
comes is a free choice here, so the module does not depend on theirs, and
composes with them by over-approximation: it has every behaviour they allow.

| Variable | Code |
|---|---|
| `where`, `body`, `reply` | where each handler is suspended, its request, its result |
| `path`, `scripts` | the name and the content of each temporary file of `exec_script` |
| `work`, `stdout` | what the kernel or the mock worker has to compute, what it has printed |
| `mode`, `engine` | `settings.worker_mode`; no worker, a bare one (a kernel without the bootstrap's globals, a mock worker that is not READY), or a loaded one |
| `outcome` | history: what the awaited computation of a request came to |

A body is a set of flaws, a list of messages and `max_tokens`; a text or an image is
a model value. The schema lets an empty list and a `max_tokens` of 0 or less pass,
and so does the model. Encodings are modelled by what they do: `Json` and `Literal`
tag a value, `PyEval` takes one `Literal` off, `json.loads` takes a `Json` only. So
the double `json.dumps` of `ColabWorkerDriver.infer` matters, as it does in the
code. `Generates` is the set of outcomes of `generate()`: it may raise whatever it
is given (the processor, the GPU's memory), it always does without a message, without
a token to generate or with a part that `_build_hf_messages` refuses, and else its
text may be a function of what the model is shown, the parts and images that
`Built`, a fold over messages and parts, has collected. `Outcomes` adds the worker:
a bare kernel answers a good request with a `NameError`, a mock worker with a 503.

**`Deployment`.** The boot script, one command per step, over a disk that outlives
containers or not; `cp` creates its target before it has written it. Beside it the
service's starts and stops, attempt by attempt, in one container after another:
`colab new` assigns the account's GPU (`ServiceNew`) and then lists the session's
name in the cache under `HOME` (`NewLists`), by which alone `colab stop` finds it.
Either call may be cut in between, by its timeout or with its container. How a start
and a stop race within one process is `ColabSystem`'s; here they follow one another.

| Variable | Code |
|---|---|
| `secret`, `mounted`, `disk`, `persistent` | the host's secret files, `/etc/secrets`, `$COLAB_HOME_DIR/.config/colab-cli`, what kind of disk that is on |
| `at`, `copying` | the boot script's position; `Serving` is its `exec uvicorn` |
| `slot`, `cached` | whose session the account's GPU runs; whether `sessions.json` lists the service's name |
| `svc`, `attempt` | where `_do_startup` or `_stop` is with its CLI calls, the attempt |
| `unstopped`, `strayed` | whether the last `colab stop` failed on a listed name; history: how a session came to be on no list (`Causes`) |
| `poc`, `created`, `code` | where `run_poc.py` is, its variable, its result |
| `warned`, `cut` | it told the operator to stop the session; a `new` or a `stop` raised, or a signal killed it |

The proof of concept is `main()` call by call; it competes with the service for the
account's GPU, and `PocKilled` ends it without its `finally`. It is external
knowledge that a `new` which returns nonzero has assigned nothing, and that `new`
assigns before it lists.

**`SingleFlight`.** `Launch`, `Join`, `Complete`, `Consume`, `Abort`.
`WorkerManager` maps a flight to a task that is not done, its waiters to the
requests in `joined`, the outcomes to `ready` and `failed`.

**`ChatCompletion`.** `Send`, `TurnAway`, `Answer`, `Fail`, `Retire`, `Abort`: all that a
client can tell apart. A request is answered at most once. A 200 is only given to
a request the engine may take, and carries the model's result for the messages of
that request; a call and a computation may fail whatever was sent (`Fail`); the end
of the process leaves open requests without an answer (`Abort`); nothing but the
client's leaving changes an answer. `RequestPath` maps `where` to what the client
knows (`Stage`), and the model's result to `Expected`, the reference of
`ContentInOrder`. Scripts, the kernel's queue, the worker's coming and going and
abandoned computations are steps that no client sees.

## 3. Runs

All instances use two startup tasks (the one in flight and the next one; a
third could only matter if two were in flight, which `SingleStartup` excludes);
`MockSystem_liveness` has one, which each startup uses again.
Timeouts are 0 to 2 ticks: each comparison needs the values below, at and above
its limit, and the relations the defaults satisfy (inference timeout below idle
timeout). Requests, tasks, threads and file names are symmetric; the liveness runs and the
cheap runs use no symmetry. Deadlock is checked everywhere.

Runs that pass:

| Run | Shows | Bounds |
|---|---|---|
| `WorkerManager_safety` | `SingleStartup`, `StartupAwaited`, `ReadyMeansStarted`, `SlotsConserved`, `QueueServed`, `IdleStopHarmless`, and that `WorkerManager` implements `SingleFlight`; all incidents and health outcomes | 4 requests for 3 slots: three run and one waits, or waiters are woken two at a time; 2 attempts: one that is retried and the last one |
| `ColabSystem_safety` | `OneProvisioning`, `FailedAttemptLeavesNothing`, `UndisturbedStopReleases`, `GracefulExitQuiet`, `SilenceIsItsOwn`, with every incident and a working `colab stop` | 3 requests for 1 slot, 2 attempts |
| `ColabSystem_liveness` | `RequestsAnswered`, `IdleWorkerStops`, `HeartbeatTimeoutFires`, `LostSessionDetected`, with every Colab incident and with probes that raise, unless from some time on they only raise | 2 requests for 1 slot |
| `MockSystem_safety` | `RegistryHonest`, `WorkersTracked`, with crashes and workers that outlast their SIGTERM | 2 workers: this controller's and an earlier one's, or two of this one; a heartbeat timeout of 0 ticks, which a push of the last tick exceeds and one of this tick does not |
| `MockSystem_liveness` | `LostWorkerDetected`, with forced stops (which begin when no other stop is under way, a bound of `MockSystem`) | 1 worker, one startup task, one attempt |
| `RateLimiter_checks` | `RefusedOnlyAtLimit` and `OvershootBounded` under every interleaving, `WithinLimit` after the last one | limit 2, window 1, 5 instants (two windows in a row and what is beyond), 2 threads |
| `RequestPath_safety` | `AnswersAreOwn`, `ContentInOrder`, `OutcomeKept`, `ScriptsTidied`, `WorkIsOwned`, and that `RequestPath` implements `ChatCompletion`, in both modes, with calls that fail at any place, a worker that comes and goes, engines that raise and a process that ends | 2 requests for 2 slots (who waits for a slot is `WorkerManager`'s matter); 3 file names: two calls and one file that stays; 11 bodies: each check failing, alone and with a later one, messages with several images in several messages, an image that does not decode, an unknown part, no message, no token; 1 abandoned computation in front of a live one, 1 script that nobody removes |
| `Deployment_safety` | `CredentialServed`, `EndLeavesNothing`, `PocLeavesNothing`, with containers that die at any step, CLI calls cut short and secrets renewed at any time | 2 versions of each of 2 secrets: an old and a new one; 2 attempts: one that is retried and the last one |

Runs that TLC refutes, each against a sentence of the repository (quoted in
`PROJECT.json` under `findings`):

| Run | What the code does |
|---|---|
| `WorkerManager_refused_startup` | refuses requests with 503 while a startup cleans up or sleeps between attempts |
| `ColabSystem_stop_race` | reports `OFFLINE` over a session that a racing startup has provisioned |
| `ColabSystem_unhealthy` | gives a session up after the heartbeat timeout without ever stopping it |
| `MockSystem_orphan` | keeps an orphan worker alive by answering its heartbeats |

Further divergences from the documents, seen while modelling and not given a run
of their own; the models contain all of these behaviours:

- A request in `STOPPING` takes the state straight to `LOADING_MODEL`, an arrow
  the diagram of `docs/architecture.md:53-56` does not have.
- A probe that raises (`colab status` timed out) skips the heartbeat comparison
  and the idle stop of its iteration, so a worker whose probes only raise stays
  `READY` past both timeouts (`lifecycle_manager.py:31-35`). The liveness
  properties say so: they promise nothing if from some time on every probe
  raises (`ProbesOnlyRaise`), and hold if only some do.
- The late `OFFLINE` of the stop race, over the `ERROR` of a startup that has just
  failed, removes its cooldown (`worker_manager.py:41-46,183`): the next request
  provisions at once, against `tests/test_worker_manager.py:165-166`.
- A successful `colab exec` of a request is no heartbeat
  (`worker_manager.py:61-82`; `docs/architecture.md:55` counts it as one).
- A `colab stop` that fails is reported as `OFFLINE` all the same
  (`colab_driver.py:92`).
- `LOADING_MODEL` is saved before `colab new` has run (`worker_manager.py:126`).
- Mock mode: a start beside a stop loses its worker process, and after a heartbeat
  timeout a second worker is spawned beside the live one (`astray`).
- Checks of one client that overlap may admit hits over the limit, or raise
  `IndexError` (`security.py:44-48`), which the client sees as a 500. One hit over
  is not the end of it: a `popleft` decided on one hit may drop a later one that
  still counts, and the room it leaves is filled again, so the number of hits in
  a window that such checks reach into is not bounded like the deque
  (`OvershootBounded`). The damage ends with them (`WithinLimit`).
- The credential is copied only where there is none (`docker-entrypoint.sh:15`),
  while `docs/colab-auth.md:61-63` and `docs/deployment.md:41-46` say on every
  boot: with a disk, a renewed secret is never used, and a copy that was cut short
  is never repaired. `CredentialServed` states what does hold.
- `run_poc.py:21-22` says the session is always torn down; a `new` that times out
  after Colab has assigned the GPU leaves it (`created` is still false), and so
  does a `stop` that raises, or a signal. `PocLeavesNothing` exempts exactly these.
- Nothing rediscovers a running session after a restart, as
  `docs/architecture.md:66` has it: `list_sessions` has no caller. If the saved
  status is `READY` the session is used; after any other, the next `colab new`
  fails on the name and its cleanup stops the session.
- No call of the Colab or the mock driver raises `TimeoutError` (they raise
  `ColabError` and `httpx` errors), so a timed-out inference is a 502 and the 504
  of `chat.py:65-66` is never sent.
- A body that fails the schema, or asks for `stream`, has already cost its client
  a hit of the limiter; a body without a content-length has no size limit.
- A `colab new` that is cut between the assignment and the entry in the cache
  leaves a session that no `colab stop` finds: the cleanup after every failed
  attempt, which `worker_manager.py:159-167` promises, does nothing for it, and
  each later `colab new` fails until Colab reclaims it or the operator ends it.
  `EndLeavesNothing` names this case, and a disk that goes with its container.
- A script whose writing fails stays on the disk, since the `with` of
  `colab_manager.py:138` is outside the `try` that removes it.

**Fairness.** Stated in the system modules, since what a driver call does is
theirs. Weak fairness on each coroutine that is ready, on each driver call
(every one is bounded by a subprocess or HTTP timeout), on sleeps and on the
loop's timed wait. `Tick` is strongly fair: pushes and requests may make the event
loop busy again and again, but time goes on between. Clients, incidents, lost
sessions and deaths of workers are not fair. A driver call is fair as a whole: it
ends, and nothing is assumed about how.

**Mutants.** The definitions marked `Mutation:` are plausible bugs of the mapped
code (a test by state instead of by task, a slot that an exception keeps, a
cleanup skipped after the last attempt as in `docs/research.md:167`). They are
used by no specification; each checked property fails under one of them.

## 4. Proofs

Checked by TLAPS for every value of the constants that satisfies the `ASSUME`s
(any sets of requests, tasks, threads, workers, bodies and file names, any limits
and timeouts). Every invariant of a passing run is a theorem, and so are both
refinements of an abstract specification.

*`WorkerManager_proofs`*, in three layers, each inductive on top of the former:

1. `SlotInv`: `TypeOK`, the slots' sum, a duplicate-free queue that is exactly
   the queued requests (`QueueOK`), a holder behind every non-empty queue, and an
   attempt left in every task that sleeps (`RetryLeft`). It gives `TypeCorrect`,
   `SlotsAreConserved` and `QueueIsServed`. `SlotsConserved` alone is not
   inductive: that a hand-over to the first n waiters keeps the sum needs the queue
   to list n different queued requests (`WaitersCounted`, `WokenBounds`).
2. `FlightInv`: `SingleStartup`, `StartupAwaited`, `ReadyMeansStarted`, and
   `JoinedAwaitsTask`: the request in `joined` has a task to await. It gives
   `OneStartup`, `StartupIsAwaited` and `ReadyIsStarted`.
3. `AgeInv`: while a request infers, `last_request` is set and no older than that
   inference; a request that has just been woken finds it no older than the
   inference timeout; one whose startup has just ended finds `started_at` at zero
   or unset. It gives `IdleStopIsHarmless`, under the assumption
   `InferenceTimeout < IdleTimeout`, which the default settings satisfy behind the
   Colab driver (300 s and 15 s more against 600 s) and nothing enforces. In mock
   mode, where httpx bounds each phase of a call on its own, the sum may exceed it.

`SilentWorkersOnly` has an invariant of its own, `SilenceInv`: a `READY` worker's
heartbeat is set and not older than its start. It assumes that the probe is the
heartbeat (`"pushed" \notin HealthOutcomes`), as behind the Colab driver: the mock
worker's `last_seen` is set before `READY` is.

`StartupIsSingleFlight` proves the refinement: one lemma per abstract action
(`MappedLaunch`, `MappedJoin`, ...), then every step of `Next` is one of them or a
stutter, on `SlotInv` and `FlightInv`.

*`ColabSystem_proofs`*, *`MockSystem_proofs`*. `ColabImplementsManager` and
`MockImplementsManager` show that every step of a system is a step of
`WorkerManager` or leaves its variables alone; so all of the above holds behind
both drivers, and the invariants of `WorkerManager` may be used for what follows.

- `CallInv` ties the driver's calls to the coroutines that await them: a
  provisioning belongs to a starting task, a cleanup to a task that cleans up,
  the loop's stop to a loop that stops, an undisturbed `STOPPING` excludes
  both, and nothing is awaited once the requests are drained. It gives
  `OneProvisioningAtATime` and `GracefulExitIsQuiet`; the properties alone are not
  inductive, since a second `start` is excluded by what the task is doing.
- `ReleaseInv` is `FailedAttemptLeavesNothing` and `UndisturbedStopReleases`
  themselves, inductive on top of `CallInv`. The two theorems assume
  `"stop_fails" \notin ColabIncidents`: with a `colab stop` that fails neither holds.
- `RegistryCreditsNoStranger`: `RegistryHonest` is inductive on top of the types, for
  any number of workers and restarts.
- `ProcInv` gives `ProcReachesEveryWorker`. Until `astray` there is at most one call
  (`SoleCall`), the process that a stop waits for is still `_proc` (`WaitsForProc`),
  and `_proc` does not run before a start has spawned its worker, nor once a stop has
  ended it (`NoneRuns`). That a start finds no live worker in `_proc` is not a
  matter of the driver alone: a live worker is `READY`, or a call is concerned with it
  (`Tended`), and a startup only begins when the state is not `READY` and no other one
  runs (`InStart`, and `StartupInv` from the theorems about `WorkerManager`).

*`RateLimiter_proofs`*, for any number of threads. `OvershootIsBounded` from `RoomInv`:
the deque's length plus the threads about to append never exceeds what the limit
leaves room for. `RefusalsAreDeserved` from `RefusalInv`: whatever the interleaving,
the deque is the tail of the admitted hits (`TailInv`), appended in the order of the
clock (`OrderInv`), and a thread about to count has seen everything older than its
window popped (`CountedInv`): by itself or by others, since pops only take from the
front. `LimitHoldsAgain` from `LimitInv`: a thread that has met nobody is alone in
`check()` (`SoloInv`), so what it has seen of the deque is still so (`SeenInv`), and
what was popped of the hits after `mixed` had left the window (`GoneInv`). The
property alone is not inductive: that a hit is rightly admitted needs to know why
those before it are gone.

*`RequestPath_proofs`*: `PathInv` has five parts on top of the types. `BodyInv`: a
request past the checks has a body without flaws. `ScriptInv`: in colab mode each
call's own file holds its own argument, and a whole file has one call. `WorkInv`:
each computation carries the argument of its request and there is one at most
for each. `AnswerInv`: what was printed, and what was answered, is what the
engine may make of that body, and what the client was told is its `outcome`.
`AnswersAreOwn` is not inductive by itself: an answer is right because the output
was, which is right because the computation was, which is right because the script
was. Up to here `Generates` is any set of outcomes. `OutcomeIsKept` is a part of
`AnswerInv`; with `GenerateTells` it gives `ContentIsInOrder`. `PathIsCompletion`
proves the refinement: one lemma per abstract action (`MappedSend`,
`MappedTurnAway`, `MappedFail`, `MappedFinish`, `MappedRetire`, `MappedEnd`), and every
other step is a stutter. It needs `PathInv` where a call returns: that what is found
behind the marker is the result for this request's messages. The
assumption `ArgumentAssumption` (an encoded request is no missing file) states
for TLC what the data model leaves open, and so does `FailureAssumption` (no answer
yet is not an answer without a result). `BodiesAssumption` says of a body that fails
no check what the schema guarantees: its messages are a sequence, maybe an empty
one, each content a text or a sequence of parts, and `max_tokens` is an integer.

*`RequestContent_proofs`*, *`FoldSteps`*: what `_build_hf_messages` collects, for any
number of messages and parts. The library's induction theorems take an operator
as a parameter, which the provers cannot instantiate. `FoldSteps` takes it as a
CONSTANT instead, and `RequestContent_proofs` instantiates the module once for each
loop (`OverParts`, `OverMessages`):

1. `LeastNumber`: a nonempty set of naturals has a least element (from the
   well-foundedness of strict inclusion on finite sets).
2. `UpTo`: a set that holds 0, and with each `k - 1` also `k`, holds all of `0..n`.
   Induction over a set, not a predicate, so a leaf can use it.
3. `FoldLeftSteps`: `FoldLeft` is the last of a sequence of states, each of which
   comes from the one before by the operator and one element.
   `FlattenSteps` says the same of the library's `FlattenSeq`.
4. `PartsTell`, `MessagesTell`: the inner and the outer loop. What has been collected
   after `k` elements is what the reference says of the first `k`, unless one of
   them cannot be taken, and then the loop has raised.
5. `GenerateTells`: `Generates(request)` is `Raised`, and, only if there is a message,
   a token to generate and no part that is refused (`Takes`),
   `Expected(request.messages)`.

*`Deployment_proofs`*: `BootInv` adds to `CredentialServed` that the files behind
the script's position are in place and, on an ephemeral disk, that those from
it on are still absent. `SvcInv` adds to `EndLeavesNothing` where a session's name is
(`Traced`): a session of the service is listed, is being made, or has strayed, across
every boot, attempt and stop (`NewTraced` and `StopTraced`, for calls that are cut).
`PocInv` says where the script can be while the GPU is its own.

**Only model-checked.** The five liveness properties (the provers do not reason
about ENABLED). `IdleStopHarmless` without the assumption on the timeouts is not
claimed.

## 5. What is not modelled

- An `OSError` of `_save` in a transition outside the `try` of `_do_startup`, or in
  `_stop` (`worker_manager.py:121,149,157,175,179`, `state.py:68`): a full disk would
  end the task with the exception and without its cleanup.
- The CLI calls of a controller that is killed alone (see `ColabSystem`).
- The argv of the CLI, and the regular expression that reads a session's line: a
  status that cannot be read counts as a missing one (`StatusAllows`).
- `gpu`, `model`, `metrics`, `error_message`, `consecutive_failures`: displayed,
  never tested (`consecutive_failures` is never raised).
- A client that disconnects: the server does not cancel the handler for it.
- Which thread pool a call runs in: a free thread is assumed to exist.
- `/status`, `/health`, `/v1/models`: stateless reads. `config.py` is the `CONSTANTS`;
  its numeric settings are not validated by the code, and the `ASSUME`s of the
  modules say what they must satisfy.
- Logging and its redaction: text. (`_run` passes the bytes of a timed-out process
  to `ColabError`, whose redaction expects a string; the model has one failed call
  either way.)
- The temperature of a request: the schema bounds it to what raises nothing.
- The model itself, the processor, the arithmetic of `smart_resize` (a library's):
  `usable` folds into one bit whether an image decodes and fits in memory.
- `/shutdown` of the mock worker, `health()` and `shutdown()` of the engine,
  `list_sessions`: the controller never calls them.
- The keys of the limiter's table, which are never dropped; one key's deque is
  modelled.

## 6. State of the plan

The plan is carried out: the core, both drivers, the limiter, the request path
and the deployment are modelled and checked, and both refinements and every
checked invariant are proved; liveness stays with TLC. What is left out is listed
in section 5 with its reason. A change to the code that would call for more:
concurrent controllers (the startup lock is one process's), the streaming of
answers (refused today), and design B of `docs/architecture.md`, where Colab
workers push as the mock ones do.
