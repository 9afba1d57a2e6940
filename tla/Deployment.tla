----------------------------- MODULE Deployment -----------------------------
(***************************************************************************)
(* Around the controller: the container's boot script, which copies the    *)
(* credential to where the CLI looks for it (docker-entrypoint.sh); the    *)
(* CLI's session cache, kept in the same place, by which the starts and    *)
(* stops of one container after another find the service's session; and    *)
(* the proof of concept, a script on the operator's machine                *)
(* (phase1_poc/run_poc.py).  The two meet in the account's one GPU         *)
(* assignment (docs/research.md section 11).  How a start and a stop of    *)
(* the service race within one container is ColabSystem's.                 *)
(***************************************************************************)
EXTENDS Naturals

CONSTANTS
    MaxVersion,         \* uploads of a secret file, at most: a bound of the model
    MaxAttempts         \* startup_max_retries

ASSUME MaxVersionAssumption == MaxVersion \in Nat
ASSUME MaxAttemptsAssumption == MaxAttempts \in Nat \ {0}

VARIABLES
    secret,             \* [1..2 -> the version uploaded to the host, 0: none]
    mounted,            \* what /etc/secrets of the running container holds
    persistent,         \* $COLAB_HOME_DIR is on a disk that outlives containers
    disk,               \* [1..2 -> the version in $COLAB_HOME_DIR/.config/colab-cli]
    at,                 \* the boot script's file, 0: no container, 3: uvicorn runs
    copying,            \* inside `cp`
    slot,               \* whose session the account's GPU is assigned to
    cached,             \* sessions.json of $COLAB_HOME_DIR lists the service's name
    svc,                \* where the service is with its session
    attempt,            \* of _do_startup
    unstopped,          \* its last `colab stop` has found the name, and failed
    strayed,            \* history: how its session has come to be on no list
    poc,                \* where the proof of concept is
    created,            \* its local variable
    code,               \* its return value, or "raised"
    warned,             \* it has told the operator to stop the session by hand
    cut                 \* a `new` or a `stop` of it has raised, or it was killed

bootVars == <<secret, mounted, persistent, disk, at, copying>>
svcVars == <<cached, svc, attempt, unstopped, strayed>>
pocVars == <<poc, created, code, warned, cut>>
vars == <<bootVars, slot, svcVars, pocVars>>

\* token.json, then settings.json.
Files == 1..2
Serving == 3

Absent == 0
Partial == MaxVersion + 1
Versions == 1..MaxVersion

Nobody == "nobody"
Codes == {"none", "0", "2", "3", "4", "5", "raised", "killed"}

\* `colab new` assigns a GPU, lists its name and returns; READY; `colab stop`
\* after an attempt that failed, or of a worker; "idle": no start has begun yet,
\* or check_health has given the worker up, which stops nothing.
Places == {"idle", "new", "assigned", "listed", "setup", "ready",
           "cleanup", "failed", "stop", "stopped"}
Causes == {"new was cut", "stop was cut", "no disk"}

Init ==
    /\ secret \in [Files -> {Absent} \cup Versions]
    /\ mounted = [f \in Files |-> Absent]
    /\ persistent \in BOOLEAN
    /\ disk = [f \in Files |-> Absent]
    /\ at = 0 /\ copying = FALSE
    /\ slot = Nobody
    /\ cached = FALSE /\ svc = "idle" /\ attempt = 1 /\ unstopped = FALSE /\ strayed = {}
    /\ poc = "idle" /\ created = FALSE /\ code = "none" /\ warned = FALSE /\ cut = FALSE

----------------------------------------------------------------------------
(* The container                                                            *)

\* Mutation: the CLI runs under the HOME of the container, as it once did.
CliHomeSurvives_Inherited == FALSE

\* _run sets HOME to colab_home_dir: the cache is beside the credential.
CliHomeSurvives == persistent

Boot ==
    /\ at = 0
    /\ at' = 1
    /\ mounted' = secret
    /\ disk' = IF persistent THEN disk ELSE [f \in Files |-> Absent]
    /\ cached' = (cached /\ CliHomeSurvives)
    /\ strayed' = IF slot = "service" /\ ~persistent THEN strayed \cup {"no disk"} ELSE strayed
    /\ UNCHANGED <<secret, persistent, copying, slot, svc, attempt, unstopped, pocVars>>

\* The two tests of an `if` of the script.
CopyDue(f) == mounted[f] # Absent /\ disk[f] = Absent

SkipCopy ==
    /\ at \in Files /\ ~copying
    /\ ~CopyDue(at)
    /\ at' = at + 1
    /\ UNCHANGED <<secret, mounted, persistent, disk, copying, slot, svcVars, pocVars>>

\* cp creates the file before it has written it.
CopyBegins ==
    /\ at \in Files /\ ~copying
    /\ CopyDue(at)
    /\ copying' = TRUE
    /\ disk' = [disk EXCEPT ![at] = Partial]
    /\ UNCHANGED <<secret, mounted, persistent, at, slot, svcVars, pocVars>>

CopyEnds ==
    /\ copying
    /\ copying' = FALSE
    /\ disk' = [disk EXCEPT ![at] = mounted[at]]
    /\ at' = at + 1
    /\ UNCHANGED <<secret, mounted, persistent, slot, svcVars, pocVars>>

\* Mutation: the script goes on after a command that fails.
AfterFailedCopy_GoesOn == at + 1

\* set -e.
AfterFailedCopy == 0

\* A full disk, say.
CopyFails ==
    /\ copying
    /\ copying' = FALSE
    /\ at' = AfterFailedCopy
    /\ UNCHANGED <<secret, mounted, persistent, disk, slot, svcVars, pocVars>>

\* The operator uploads a new credential; a running container keeps its own.
Upload(f) ==
    /\ secret[f] < MaxVersion
    /\ secret' = [secret EXCEPT ![f] = @ + 1]
    /\ UNCHANGED <<mounted, persistent, disk, at, copying, slot, svcVars, pocVars>>

----------------------------------------------------------------------------
(* The service, in whatever container runs                                  *)

Authenticated == disk[1] \in Versions

\* The GPU is assigned and its name not yet listed.
NewBreaksOff ==
    /\ strayed' = IF svc = "assigned" /\ slot = "service"
                  THEN strayed \cup {"new was cut"} ELSE strayed
    /\ UNCHANGED <<slot, cached>>

\* It may have done all, a part or nothing of what it does.
StopBreaksOff ==
    /\ slot' \in {slot} \cup (IF slot = "service" THEN {Nobody} ELSE {})
    /\ cached' \in {cached, FALSE}
    /\ strayed' = IF slot' # "service" THEN {}
                  ELSE IF cached = cached' THEN strayed ELSE strayed \cup {"stop was cut"}

\* A crash, a deploy, the host putting a free instance to sleep: its children end.
ContainerDies ==
    /\ at # 0
    /\ at' = 0
    /\ copying' = FALSE
    /\ IF svc \in {"cleanup", "stop"} /\ cached THEN StopBreaksOff ELSE NewBreaksOff
    /\ svc' = "idle" /\ attempt' = 1 /\ unstopped' = FALSE
    /\ UNCHANGED <<secret, mounted, persistent, disk, pocVars>>

Goes(place) ==
    /\ svc' = place
    /\ UNCHANGED <<bootVars, pocVars>>

StartBegins ==
    /\ at = Serving
    /\ svc \in {"idle", "failed", "stopped"}
    /\ Goes("new")
    /\ attempt' = 1 /\ unstopped' = FALSE
    /\ UNCHANGED <<slot, cached, strayed>>

\* One GPU for the account, and one session for a name.
ServiceNew ==
    /\ svc = "new"
    /\ slot = Nobody /\ ~cached /\ Authenticated
    /\ slot' = "service"
    /\ Goes("assigned")
    /\ UNCHANGED <<cached, attempt, unstopped, strayed>>

NewLists ==
    /\ svc = "assigned"
    /\ cached' = TRUE
    /\ Goes("listed")
    /\ UNCHANGED <<slot, attempt, unstopped, strayed>>

NewReturns ==
    /\ svc = "listed"
    /\ Goes("setup")
    /\ UNCHANGED <<slot, cached, attempt, unstopped, strayed>>

\* upload, install and exec.
SetupReturns ==
    /\ svc = "setup"
    /\ Goes("ready")
    /\ UNCHANGED <<slot, cached, attempt, unstopped, strayed>>

\* Mutation: as it once was, only an attempt that another follows is cleaned up.
AfterFailure_Retried == IF attempt < MaxAttempts THEN "cleanup" ELSE "failed"

AfterFailure == "cleanup"

\* A nonzero exit, at any time; a timeout, which kills the child.
AttemptFails ==
    /\ svc \in {"new", "assigned", "listed", "setup"}
    /\ Goes(AfterFailure)
    /\ NewBreaksOff
    /\ UNCHANGED <<attempt, unstopped>>

\* The heartbeat timeout: ERROR, and no stop.
GivenUp ==
    /\ svc = "ready"
    /\ Goes("idle")
    /\ UNCHANGED <<slot, cached, attempt, unstopped, strayed>>

\* stop_if_idle; a container may also load READY from its state file.
StopBegins ==
    /\ at = Serving
    /\ svc \in {"idle", "ready"}
    /\ Goes("stop")
    /\ UNCHANGED <<slot, cached, attempt, unstopped, strayed>>

\* What follows a `colab stop`, whatever its result.
Afterwards ==
    IF svc = "stop" THEN "stopped" ELSE IF attempt < MaxAttempts THEN "new" ELSE "failed"

AfterStop ==
    /\ svc \in {"cleanup", "stop"}
    /\ Goes(Afterwards)
    /\ attempt' = IF svc = "cleanup" /\ attempt < MaxAttempts THEN attempt + 1 ELSE attempt

\* A session is stopped by the name that the cache lists.
ServiceStop ==
    /\ AfterStop
    /\ cached /\ Authenticated
    /\ slot' = IF slot = "service" THEN Nobody ELSE slot
    /\ cached' = FALSE /\ unstopped' = FALSE /\ strayed' = {}

StopFindsNothing ==
    /\ AfterStop
    /\ ~cached
    /\ unstopped' = FALSE
    /\ UNCHANGED <<slot, cached, strayed>>

\* A nonzero exit, which driver.stop does not look at; an exception or a timeout.
StopFails ==
    /\ AfterStop
    /\ cached
    /\ unstopped' = TRUE
    /\ StopBreaksOff

\* Colab reclaims a session, or the operator ends it in the browser.
Reclaim ==
    /\ slot # Nobody
    /\ slot' = Nobody
    /\ strayed' = {}
    /\ UNCHANGED <<bootVars, cached, svc, attempt, unstopped, pocVars>>

----------------------------------------------------------------------------
(* The proof of concept                                                     *)

\* A later run waits until the operator has ended what the last one left.
PocStarts ==
    /\ poc \in {"idle", "ended"}
    /\ slot # "poc"
    /\ poc' = "sessions"
    /\ created' = FALSE /\ code' = "none" /\ warned' = FALSE /\ cut' = FALSE
    /\ UNCHANGED <<bootVars, svcVars, slot>>

\* A return or an exception (a timeout, an interrupt): the finally.
Leave(result) ==
    /\ code' = result
    /\ poc' = IF created THEN "stop" ELSE "ended"

PocSessions ==
    /\ poc = "sessions"
    /\ \/ poc' = "new" /\ UNCHANGED code
       \/ \E result \in {"2", "raised"} : Leave(result)
    /\ UNCHANGED <<bootVars, svcVars, slot, created, warned, cut>>

\* Mutation: created is only set once the script has run.
CreatedAfterNew_Late == FALSE

CreatedAfterNew == TRUE

\* A nonzero `new` has assigned nothing.
PocNewReturns ==
    /\ poc = "new"
    /\ \/ /\ slot = Nobody
          /\ slot' = "poc"
          /\ created' = CreatedAfterNew
          /\ poc' = "exec"
          /\ UNCHANGED code
       \/ /\ Leave("3")
          /\ UNCHANGED <<slot, created>>
    /\ UNCHANGED <<bootVars, svcVars, warned, cut>>

\* A timeout may come after Colab has assigned the GPU.
PocNewRaises ==
    /\ poc = "new"
    /\ slot' \in {slot} \cup (IF slot = Nobody THEN {"poc"} ELSE {})
    /\ cut' = TRUE
    /\ Leave("raised")
    /\ UNCHANGED <<bootVars, svcVars, created, warned>>

PocExec ==
    /\ poc = "exec"
    /\ \E result \in {"0", "4", "5", "raised"} : Leave(result)
    /\ UNCHANGED <<bootVars, svcVars, slot, created, warned, cut>>

\* `colab stop` in the finally; an exception of it replaces the return value.
PocStop ==
    /\ poc = "stop"
    /\ poc' = "ended"
    /\ \/ /\ slot' = IF slot = "poc" THEN Nobody ELSE slot
          /\ UNCHANGED <<code, warned, cut>>
       \/ /\ warned' = TRUE
          /\ UNCHANGED <<slot, code, cut>>
       \/ /\ slot' \in {slot} \cup (IF slot = "poc" THEN {Nobody} ELSE {})
          /\ code' = "raised" /\ cut' = TRUE
          /\ UNCHANGED warned
    /\ UNCHANGED <<bootVars, svcVars, created>>

\* A signal ends it without its finally, maybe after Colab has assigned the GPU.
PocKilled ==
    /\ poc \in {"sessions", "new", "exec", "stop"}
    /\ slot' \in {slot} \cup (IF poc = "new" /\ slot = Nobody THEN {"poc"} ELSE {})
    /\ poc' = "ended" /\ code' = "killed" /\ cut' = TRUE
    /\ UNCHANGED <<bootVars, svcVars, created, warned>>

Next ==
    \/ Boot \/ SkipCopy \/ CopyBegins \/ CopyEnds \/ CopyFails \/ ContainerDies
    \/ \E f \in Files : Upload(f)
    \/ StartBegins \/ ServiceNew \/ NewLists \/ NewReturns \/ SetupReturns \/ AttemptFails
    \/ GivenUp \/ StopBegins \/ ServiceStop \/ StopFindsNothing \/ StopFails \/ Reclaim
    \/ PocStarts \/ PocSessions \/ PocNewReturns \/ PocNewRaises \/ PocExec \/ PocStop
    \/ PocKilled

Spec == Init /\ [][Next]_vars

----------------------------------------------------------------------------
(* Properties                                                               *)

\* Types; and the script runs, and is stopped, only for a `new` that returned 0.
DeployTypeOK ==
    /\ secret \in [Files -> 0..MaxVersion] /\ mounted \in [Files -> 0..MaxVersion]
    /\ disk \in [Files -> 0..Partial]
    /\ persistent \in BOOLEAN /\ copying \in BOOLEAN /\ cached \in BOOLEAN
    /\ at \in 0..Serving
    /\ slot \in {Nobody, "service", "poc"}
    /\ svc \in Places /\ attempt \in 1..MaxAttempts
    /\ unstopped \in BOOLEAN /\ strayed \in SUBSET Causes
    /\ poc \in {"idle", "sessions", "new", "exec", "stop", "ended"}
    /\ created \in BOOLEAN /\ warned \in BOOLEAN /\ cut \in BOOLEAN /\ code \in Codes
    /\ poc \in {"exec", "stop"} => created

\* The server only starts once every mounted secret has its file.  Without a disk
\* that file is whole and is this container's secret, whatever boots were cut
\* short before; with one it may be an older version, or cut short for good.
CredentialServed ==
    at = Serving => \A f \in Files : mounted[f] # Absent =>
        /\ disk[f] # Absent
        /\ disk[f] # mounted[f] => persistent

\* A start that has used up its attempts, or a stop, leaves no session of the
\* service on the account: neither its own nor one of an earlier start, worker
\* or container, whose name the cache still lists.  Except when the last `colab
\* stop` failed on it, or its name is on no list: a `new` was cut between the
\* two, a `stop` was, or a container without a disk has taken the list with it.
EndLeavesNothing ==
    svc \in {"failed", "stopped"} /\ slot = "service" => unstopped \/ strayed # {}

\* A proof of concept that has ended leaves its GPU only if it says so, or if
\* `new` or `stop` has raised, or it was killed: never for a failure in between.
PocLeavesNothing == poc = "ended" /\ slot = "poc" => warned \/ cut

=============================================================================
