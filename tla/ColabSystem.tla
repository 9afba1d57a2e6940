----------------------------- MODULE ColabSystem -----------------------------
(***************************************************************************)
(* WorkerManager driving one named Colab session through the `colab`       *)
(* command line: services/colab_driver.py over services/colab_manager.py.  *)
(*                                                                         *)
(* Each driver call runs in a thread while the event loop goes on, so a    *)
(* startup's `new`, `upload`, `install` and `exec` interleave with every   *)
(* `stop`, of its own cleanup, of the idle stop and of force_stop.  A CLI  *)
(* call takes effect in one step, at any time before the coroutine that    *)
(* awaits it resumes: between the two the process may still be finishing.  *)
(***************************************************************************)
EXTENDS WorkerManager

CONSTANT ColabIncidents         \* what may go wrong on Colab's side

\* "lost": Colab reclaims the session.  "new_leaks": `colab new` is killed by
\* its timeout after the session was allocated.  "stop_fails": `colab stop`
\* times out or returns nonzero, which stop_runtime's caller does not look at.
ASSUME ColabAssumption == ColabIncidents \subseteq {"lost", "new_leaks", "stop_fails"}

VARIABLES
    session,            \* the session of that name, on Colab's side
    provision,          \* [Tasks -> where driver.start is]
    stop_call           \* [Stoppers -> where that caller's driver.stop is]

colabVars == <<session, provision, stop_call>>
allVars == <<vars, colabVars>>

\* bare: allocated, nothing loaded.  loaded: bootstrap.py left its engine there.
Sessions == {"none", "bare", "loaded"}

\* driver.start is at one of its four calls, or has returned to its task.
Calls == {"new", "upload", "install", "exec"}
Provisions == Calls \cup {"idle", "succeeded", "failed"}

Stoppers == Tasks \cup {"loop", "force"}

ASSUME StoppersAssumption == "loop" \notin Tasks /\ "force" \notin Tasks

ColabTypeOK ==
    /\ TypeOK
    /\ session \in Sessions
    /\ provision \in [Tasks -> Provisions]
    /\ stop_call \in [Stoppers -> {"idle", "running", "returned"}]

NoCalls ==
    /\ provision = [t \in Tasks |-> "idle"]
    /\ stop_call = [c \in Stoppers |-> "idle"]

ColabInit == Init /\ session = "none" /\ NoCalls

----------------------------------------------------------------------------
(* The CLI calls of driver.start                                            *)

\* `colab new` of a name that exists fails at once (docs/research.md:241).
NewSucceeds(t) ==
    /\ provision[t] = "new"
    /\ session = "none"
    /\ session' = "bare"
    /\ provision' = [provision EXCEPT ![t] = "upload"]
    /\ UNCHANGED <<vars, stop_call>>

NewLeaks(t) ==
    /\ "new_leaks" \in ColabIncidents
    /\ provision[t] = "new"
    /\ session = "none"
    /\ session' = "bare"
    /\ provision' = [provision EXCEPT ![t] = "failed"]
    /\ UNCHANGED <<vars, stop_call>>

NextCall == [upload |-> "install", install |-> "exec"]

UploadOrInstall(t) ==
    /\ provision[t] \in DOMAIN NextCall
    /\ session # "none"
    /\ provision' = [provision EXCEPT ![t] = NextCall[@]]
    /\ UNCHANGED <<vars, session, stop_call>>

\* bootstrap.py printed its WORKER_READY_JSON marker.
BootstrapReady(t) ==
    /\ provision[t] = "exec"
    /\ session # "none"
    /\ session' = "loaded"
    /\ provision' = [provision EXCEPT ![t] = "succeeded"]
    /\ UNCHANGED <<vars, stop_call>>

\* A nonzero return code, a timeout, or output without the marker.
CallFails(t) ==
    /\ provision[t] \in Calls
    /\ provision' = [provision EXCEPT ![t] = "failed"]
    /\ UNCHANGED <<vars, session, stop_call>>

----------------------------------------------------------------------------
(* `colab stop`, by name, and the session's own end                         *)

StopReleases(c) ==
    /\ stop_call[c] = "running"
    /\ stop_call' = [stop_call EXCEPT ![c] = "returned"]
    /\ session' = "none"
    /\ UNCHANGED <<vars, provision>>

StopFails(c) ==
    /\ "stop_fails" \in ColabIncidents
    /\ stop_call[c] = "running"
    /\ stop_call' = [stop_call EXCEPT ![c] = "returned"]
    /\ UNCHANGED <<vars, session, provision>>

SessionLost ==
    /\ "lost" \in ColabIncidents
    /\ session # "none"
    /\ session' = "none"
    /\ UNCHANGED <<vars, provision, stop_call>>

----------------------------------------------------------------------------
(* The steps of WorkerManager, with the driver calls they start and await   *)

Starts(t) ==
    /\ StartupBegins(t) \/ BackoffEnds(t)
    /\ provision' = [provision EXCEPT ![t] = "new"]
    /\ UNCHANGED <<session, stop_call>>

Started(t) ==
    /\ provision[t] = "succeeded"
    /\ StartSucceeds(t)
    /\ provision' = [provision EXCEPT ![t] = "idle"]
    /\ UNCHANGED <<session, stop_call>>

\* Mutation: no cleanup after the last attempt (docs/research.md:167).
CleanupCall_BetweenRetriesOnly(t) == IF AttemptsLeft(t) THEN "running" ELSE "returned"

\* What the task does about driver.stop after a failed attempt: it calls it.
CleanupCall(t) == "running"

StartFailed(t) ==
    /\ provision[t] = "failed"
    /\ StartFails(t)
    /\ provision' = [provision EXCEPT ![t] = "idle"]
    /\ stop_call' = [stop_call EXCEPT ![t] = CleanupCall(t)]
    /\ UNCHANGED session

CleanedUp(t) ==
    /\ stop_call[t] = "returned"
    /\ CleanupReturns(t)
    /\ stop_call' = [stop_call EXCEPT ![t] = "idle"]
    /\ UNCHANGED <<session, provision>>

\* Mutation: the status line of a session that is gone is taken for a sign of life.
StatusAllows_Anything(reply) == TRUE

\* `colab status` knows the session, or returns nonzero.
StatusAllows(reply) == reply = "alive" => session # "none"

Probed ==
    /\ \/ \E reply \in HealthOutcomes \ {"raises"} : StatusAllows(reply) /\ HealthReplies(reply)
       \/ "raises" \in HealthOutcomes /\ HealthRaises
    /\ stop_call' = IF loop' = "stopping"
                    THEN [stop_call EXCEPT !["loop"] = "running"] ELSE stop_call
    /\ UNCHANGED <<session, provision>>

LoopStopped ==
    /\ stop_call["loop"] = "returned"
    /\ LoopStopReturns
    /\ stop_call' = [stop_call EXCEPT !["loop"] = "idle"]
    /\ UNCHANGED <<session, provision>>

ForcedStop ==
    \/ /\ ForceStopBegins
       /\ stop_call' = [stop_call EXCEPT !["force"] = "running"]
       /\ UNCHANGED <<session, provision>>
    \/ /\ stop_call["force"] = "returned"
       /\ ForceStopReturns
       /\ stop_call' = [stop_call EXCEPT !["force"] = "idle"]
       /\ UNCHANGED <<session, provision>>

\* `colab exec` of _handle_request needs the kernel that bootstrap.py left.
Inferred(r) ==
    /\ \/ session = "loaded" /\ InferReturns(r, "ok")
       \/ InferReturns(r, "error")
    /\ UNCHANGED colabVars

\* The steps that call no driver.
ControllerStep ==
    /\ \/ \E r \in Requests :
            \/ ArriveReady(r) \/ ArriveCooling(r) \/ ArriveWaiting(r)
            \/ WakeReady(r) \/ WakeFailed(r) \/ ResumeGranted(r) \/ Retire(r)
       \/ LoopWakes \/ LoopExits \/ Shutdown \/ Tick
    /\ UNCHANGED colabVars

\* The process ends: its CLI calls are killed, whatever they had achieved.  So a
\* container ends; the children of a parent killed alone would go on.
ProcessEnds ==
    /\ Restart \/ Crash \/ TornSave
    /\ provision' = [t \in Tasks |-> "idle"]
    /\ stop_call' = [c \in Stoppers |-> "idle"]
    /\ UNCHANGED session

ColabNext ==
    \/ ControllerStep
    \/ \E r \in Requests : Inferred(r)
    \/ \E t \in Tasks :
         \/ Starts(t) \/ Started(t) \/ StartFailed(t) \/ CleanedUp(t)
         \/ NewSucceeds(t) \/ NewLeaks(t) \/ UploadOrInstall(t)
         \/ BootstrapReady(t) \/ CallFails(t)
    \/ Probed \/ LoopStopped \/ ForcedStop
    \/ \E c \in Stoppers : StopReleases(c) \/ StopFails(c)
    \/ SessionLost
    \/ ProcessEnds

ColabSpec == ColabInit /\ [][ColabNext]_allVars

\* The event loop runs what is ready, sleeps end, and every CLI call is bounded
\* by a subprocess timeout; clients and incidents are free.  Time does not stand
\* still, however many requests keep the event loop busy.
ColabFairness ==
    /\ \A r \in Requests :
         /\ WF_allVars(WakeReady(r) /\ UNCHANGED colabVars)
         /\ WF_allVars(WakeFailed(r) /\ UNCHANGED colabVars)
         /\ WF_allVars(ResumeGranted(r) /\ UNCHANGED colabVars)
         /\ WF_allVars(Inferred(r))
    /\ \A t \in Tasks :
         /\ WF_allVars(Starts(t)) /\ WF_allVars(Started(t))
         /\ WF_allVars(StartFailed(t)) /\ WF_allVars(CleanedUp(t))
         /\ WF_allVars(NewSucceeds(t) \/ NewLeaks(t) \/ UploadOrInstall(t)
                         \/ BootstrapReady(t) \/ CallFails(t))
    /\ \A c \in Stoppers : WF_allVars(StopReleases(c) \/ StopFails(c))
    /\ WF_allVars(LoopWakes /\ UNCHANGED colabVars) /\ WF_allVars(Probed)
    /\ WF_allVars(LoopStopped)
    /\ SF_allVars(Tick /\ UNCHANGED colabVars)

ColabFairSpec == ColabSpec /\ ColabFairness

----------------------------------------------------------------------------
(* What holds                                                               *)

\* A failed attempt leaves no session behind it, neither when the startup
\* gives up nor while it waits to try again, whatever the attempt had met: a
\* `new` killed too late, an orphan of an earlier process, an idle stop still
\* running.  So an orphan costs a startup at most one attempt.  Needs `colab
\* stop` to work.
FailedAttemptLeavesNothing ==
    \A t \in Tasks : task[t] = "backoff" \/ stop_call[t] = "returned" => session = "none"

\* One driver.start at a time: no second `colab new` while one provisions, not
\* even one whose caller has not yet seen it return (docs/architecture.md:86).
OneProvisioning ==
    \A t, u \in Tasks : provision[t] # "idle" /\ provision[u] # "idle" => t = u

\* The idle stop has released the session by the time its `colab stop` is back,
\* unless a startup or a force_stop has come between.
UndisturbedStopReleases ==
    stop_call["loop"] = "returned" /\ state = "STOPPING" /\ ~forced => session = "none"

\* A process that shuts down gracefully cuts no CLI call short: nothing provisions
\* any more, and the idle stop's `colab stop` is back.  Only a force_stop, which
\* nobody awaits, may still be under way.
GracefulExitQuiet ==
    loop = "exited" =>
        /\ \A t \in Tasks : provision[t] = "idle"
        /\ \A c \in Stoppers \ {"force"} : stop_call[c] = "idle"

\* A READY status over a session that is gone does not last: either the probes
\* miss it until the heartbeat times out, or the worker is stopped, however many
\* probes raise, as long as one returns again and again.
LostSessionDetected ==
    \/ (state = "READY" /\ session = "none") ~> (state # "READY" \/ session # "none")
    \/ ProbesOnlyRaise

----------------------------------------------------------------------------
(* What the documents say and the code does not do: each is refuted by a run *)

NoCallInProgress ==
    /\ \A t \in Tasks : task[t] = "done"
    /\ \A c \in Stoppers : stop_call[c] = "idle"

\* "the lifecycle manager stops the Colab runtime automatically --
\* `worker.state` returns to `OFFLINE`" (docs/deployment.md:98): OFFLINE with
\* nothing under way means that there is no session.
OfflineMeansReleased == state = "OFFLINE" /\ NoCallInProgress => session = "none"

\* The same of a worker given up as unhealthy, once nobody asks for it.
UnusedSessionReleased ==
    (<>[] \A r \in Requests : req[r] \in {"idle"} \cup Answers) => <>[](session = "none")

=============================================================================
