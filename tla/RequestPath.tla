---------------------------- MODULE RequestPath ----------------------------
(***************************************************************************)
(* A chat completion from the client to the model and back: the checks in  *)
(* front of api/chat.py, the drivers' infer(), ColabManager.exec_script,   *)
(* _handle_request in the Colab kernel (bootstrap.py) or /generate of the  *)
(* mock worker, and the engine's message building (worker/inference.py).   *)
(*                                                                         *)
(* A call of the driver and the computation behind it end separately: a    *)
(* call that times out, or whose process ends, leaves its computation to   *)
(* go on for nobody.  When a request may call the driver is WorkerManager's *)
(* business, and what the limiter says is RateLimiter's; both are free     *)
(* choices here.                                                           *)
(***************************************************************************)
EXTENDS Integers, FiniteSets, SequencesExt

CONSTANTS
    Requests,           \* chat completions under way
    Bodies,             \* what clients may send, see BodiesAssumption
    Texts,              \* the strings of the messages
    Parts,              \* the parts of the messages that are lists
    Paths,              \* temporary file names
    None,               \* no file, no body, no answer, nobody
    MaxConcurrent,      \* settings.max_concurrent_requests
    MaxLitter,          \* scripts that nobody removes, at most: a bound of the model
    MaxAbandoned,       \* abandoned computations, at most: a bound of the model
    Modes               \* settings.worker_mode: "colab" or "mock"

\* A message's content is a text or a list of parts.  A part is a text, an image
\* (`usable`: a data: URI that decodes and that the GPU's memory has room for), or
\* of a type the engine does not know.  The schema makes sure of the lists, which
\* may be empty, and bounds max_tokens from above only; what a body that fails a
\* check holds does not matter.
ASSUME BodiesAssumption ==
    \A b \in Bodies :
        /\ DOMAIN b = {"flaws", "messages", "max_tokens"}
        /\ b.flaws = {} => /\ b.messages \in Seq(Texts \cup Seq(Parts))
                            /\ b.max_tokens \in Int
ASSUME NoneAssumption == None \notin Bodies \cup Paths \cup Requests
ASSUME BoundAssumption == MaxConcurrent \in Nat \ {0} /\ Modes \subseteq {"colab", "mock"}

VARIABLES
    mode,               \* the process's worker_mode
    engine,             \* the worker: "none", "bare" (up, not loaded) or "loaded"
    where,              \* [Requests -> how far it is, or its status code]
    body,               \* [Requests -> what its client sent]
    path,               \* [Requests -> its temporary script]
    scripts,            \* [Paths -> what the file holds]
    work,               \* the computations handed to the worker, oldest first
    stdout,             \* [Requests -> what its own computation printed]
    reply,              \* [Requests -> the response, or the 502's detail]
    outcome             \* history: [Requests -> what its awaited computation came to]

vars == <<mode, engine, where, body, path, scripts, work, stdout, reply, outcome>>

----------------------------------------------------------------------------
(* Before the handler                                                       *)

\* In the order they are made: content-length, JSON, API key, limiter, schema,
\* stream.  A malformed body is noticed before the dependencies run, a body that
\* only fails the schema after them (and after it has cost the client a hit).  The
\* limiter refuses, or crashes on a deque that another check has just emptied.
Checks == <<"too_large", "malformed", "no_key", "limited", "crashed", "invalid", "stream">>

StatusOf == [too_large |-> "413", malformed |-> "422", no_key |-> "401",
             limited |-> "429", crashed |-> "500", invalid |-> "422", stream |-> "400"]

Limiter == {{}, {"limited"}, {"crashed"}}

\* A body fails none of the checks but these; the limiter's verdict is not its own.
ASSUME FlawsAssumption ==
    \A b \in Bodies : b.flaws \subseteq DOMAIN StatusOf \ {"limited", "crashed"}

Refusals == {StatusOf[flaw] : flaw \in DOMAIN StatusOf}
Statuses == Refusals \cup {"200", "502", "503"}

\* Mutation: the stream refusal is left to the engine.
Verdict_StreamAdmitted(flaws) ==
    LET failed == {i \in DOMAIN Checks : Checks[i] \in flaws \ {"stream"}}
    IN  IF failed = {} THEN "admitted"
        ELSE StatusOf[Checks[Min(failed)]]

Verdict(flaws) ==
    LET failed == {i \in DOMAIN Checks : Checks[i] \in flaws}
    IN  IF failed = {} THEN "admitted"
        ELSE StatusOf[Checks[Min(failed)]]

\* A request is in driver.infer: not yet handed to the worker, handed to it, or
\* its output is there.
Calls == {r \in Requests : where[r] \in {"calling", "submitted", "printed"}}

Places == {"idle", "admitted", "calling", "submitted", "printed"} \cup Statuses

----------------------------------------------------------------------------
(* The snippet, the engine, the output                                      *)

\* What run_inference is given.  The temperature is left out: the schema keeps it
\* where it raises nothing.
Request(b) == [messages |-> b.messages, max_tokens |-> b.max_tokens]

\* A Python value as JSON text, and a text as a Python string literal.
Json(x) == [kind |-> "json", of |-> x]
Literal(text) == [kind |-> "literal", of |-> text]

\* Mutation: the request is put into the snippet as JSON, which Python reads as a dict.
Argument_EncodedOnce(request) == Json(request)

\* What stands between the parentheses of _handle_request(...): encoded twice.
Argument(request) == Literal(Json(request))

ASSUME ArgumentAssumption == \A b \in Bodies : Argument(Request(b)) # None

\* The Python value of that source text.
PyEval(source) ==
    IF source.kind = "literal" THEN source.of ELSE [kind |-> "dict", of |-> source.of]

\* A script that nobody removes: half-written, or left by a process that has ended.
Litter == [kind |-> "litter", of |-> None]

Acceptable(part) == part.type = "text" \/ (part.type = "image_url" /\ part.usable)

\* Mutation: the newest image is described first.
DescribeImage_NewestFirst(built, image) ==
    [built EXCEPT !.images = Append(@, image), !.info = <<image>> \o @]

\* An image stands for itself, resized and not: the sizes are smart_resize's.
DescribeImage(built, image) ==
    [built EXCEPT !.images = Append(@, image), !.info = Append(@, image)]

AddPart(built, part) ==
    LET shown == [built EXCEPT !.content = Append(@, [type |-> part.type, of |-> part.of])]
    IN  IF built.raised \/ ~Acceptable(part) THEN [built EXCEPT !.raised = TRUE]
        ELSE IF part.type = "text" THEN shown
        ELSE DescribeImage(shown, part.of)

AddMessage(built, content) ==
    IF content \in Texts
    THEN [built EXCEPT !.hf = Append(@, <<[type |-> "text", of |-> content]>>)]
    ELSE LET filled == FoldLeft(AddPart, [built EXCEPT !.content = <<>>], content)
         IN  [filled EXCEPT !.hf = Append(@, filled.content)]

\* _build_hf_messages: its three lists, and whether a part has raised.
Built(messages) ==
    FoldLeft(AddMessage,
             [hf |-> <<>>, content |-> <<>>, images |-> <<>>, info |-> <<>>, raised |-> FALSE],
             messages)

\* An exception of the engine, of json.loads before it, an output without a marker,
\* a call that failed.
Raised == [failure |-> "raised"]
NotRead == [failure |-> "not_read"]
NoResult == [failure |-> "no_result"]
CallFailed == [failure |-> "call_failed"]

ASSUME FailureAssumption == None \notin {NoResult, CallFailed}

\* generate(): the model's text is a function of what it is shown; `images` is
\* absent from the result where it is empty here.  An empty list of messages (the
\* chat template), no token to generate and a part that _build_hf_messages refuses
\* always raise; the processor and the model (the GPU's memory) may do so at any time.
Generates(request) ==
    LET built == Built(request.messages)
        runs == request.messages # <<>> /\ request.max_tokens > 0 /\ ~built.raised
    IN  {Raised} \cup
        IF runs THEN {[text |-> <<built.hf, built.images>>, images |-> built.info]} ELSE {}

\* _handle_request: json.loads takes a text.
HandleRequest(argument) ==
    LET request_json == PyEval(argument)
    IN  IF request_json.kind = "json" THEN Generates(request_json.of) ELSE {NotRead}

\* A kernel without the bootstrap's _handle_request raises a NameError, a mock
\* worker that is not READY answers with a 503.
Outcomes(argument) ==
    IF engine # "loaded" THEN {Raised}
    ELSE IF mode = "colab" THEN HandleRequest(argument)
    ELSE Generates(argument.of)

\* What comes back.  Libraries may print lines of their own before and after the
\* marker's line; an exception leaves a traceback instead of it.  The mock worker
\* returns the result alone, or a status that raise_for_status turns into an error.
Line == [marker |-> FALSE, of |-> None]
Outputs(result) ==
    LET marked == [marker |-> TRUE, of |-> result]
    IN  CASE result \in {Raised, NotRead} -> {<<Line>>}
          [] result \notin {Raised, NotRead} /\ mode = "mock" -> {<<marked>>}
          [] OTHER -> {<<marked>>, <<Line, marked>>, <<marked, Line>>}

Marked(lines) == {i \in DOMAIN lines : lines[i].marker}

\* Mutation: only the first line is looked at.
ExtractMarker_FirstLine(lines) ==
    IF 1 \in Marked(lines) THEN lines[1].of ELSE NoResult

\* _extract_marker: the first line that starts with the marker.
ExtractMarker(lines) ==
    IF Marked(lines) = {} THEN NoResult ELSE lines[Min(Marked(lines))].of

----------------------------------------------------------------------------
(* The steps of a request                                                   *)

Init ==
    /\ mode \in Modes
    /\ engine = "none"
    /\ where = [r \in Requests |-> "idle"]
    /\ body = [r \in Requests |-> None]
    /\ path = [r \in Requests |-> None]
    /\ scripts = [p \in Paths |-> None]
    /\ work = <<>>
    /\ stdout = [r \in Requests |-> <<>>]
    /\ reply = [r \in Requests |-> None]
    /\ outcome = [r \in Requests |-> None]

Goes(r, place) == where' = [where EXCEPT ![r] = place]

\* Up to the call of run_inference; the limiter may refuse any request.
Arrive(r) ==
    /\ where[r] = "idle"
    /\ \E b \in Bodies, limiter \in Limiter :
         /\ body' = [body EXCEPT ![r] = b]
         /\ Goes(r, Verdict(b.flaws \cup limiter))
    /\ UNCHANGED <<mode, engine, path, scripts, work, stdout, reply, outcome>>

\* WorkerUnavailable.
NoWorker(r) ==
    /\ where[r] = "admitted"
    /\ Goes(r, "503")
    /\ UNCHANGED <<mode, engine, body, path, scripts, work, stdout, reply, outcome>>

\* Mutation: one file name for every call.
FreshPath_Fixed(p) == p = CHOOSE q \in Paths : TRUE

\* NamedTemporaryFile picks a name that is not in use.
FreshPath(p) == scripts[p] = None

\* A slot is free: colab mode writes the script, which may fail half-way (and
\* then nobody removes it), mock mode has none.
Call(r) ==
    /\ where[r] = "admitted"
    /\ Cardinality(Calls) < MaxConcurrent
    /\ IF mode = "mock"
       THEN Goes(r, "calling") /\ UNCHANGED <<path, scripts, reply>>
       ELSE \E p \in Paths :
              /\ FreshPath(p)
              /\ \/ /\ scripts' = [scripts EXCEPT ![p] = Argument(Request(body[r]))]
                    /\ path' = [path EXCEPT ![r] = p]
                    /\ Goes(r, "calling")
                    /\ UNCHANGED reply
                 \/ /\ Cardinality({q \in Paths : scripts[q] = Litter}) < MaxLitter
                    /\ scripts' = [scripts EXCEPT ![p] = Litter]
                    /\ Goes(r, "502")
                    /\ reply' = [reply EXCEPT ![r] = CallFailed]
                    /\ UNCHANGED path
    /\ UNCHANGED <<mode, engine, body, work, stdout, outcome>>

\* `colab exec` reads the file and hands its text to the session's kernel, whatever
\* has run there; or httpx.post reaches the worker.
Submit(r) ==
    /\ where[r] = "calling"
    /\ engine # "none"
    /\ LET argument == IF mode = "colab" THEN scripts[path[r]] ELSE Json(Request(body[r]))
       IN  /\ argument # None
           /\ work' = Append(work, [by |-> r, argument |-> argument])
    /\ Goes(r, "submitted")
    /\ UNCHANGED <<mode, engine, body, path, scripts, stdout, reply, outcome>>

\* Mutation: the output of a computation whose call has failed is taken as well.
Awaited_Ever(r) == TRUE

\* exec_script is still in the call that reads the output.
Awaited(r) == where[r] = "submitted"

\* A kernel computes one request at a time, the mock worker each in a thread.
\* The output reaches the call that waits for it, if it still does.
Compute(i) ==
    /\ i \in DOMAIN work
    /\ mode = "colab" => i = 1
    /\ LET r == work[i].by
       IN  IF r # None /\ Awaited(r)
           THEN \E result \in Outcomes(work[i].argument) :
                  /\ outcome' = [outcome EXCEPT ![r] = result]
                  /\ \E lines \in Outputs(result) : stdout' = [stdout EXCEPT ![r] = lines]
                  /\ Goes(r, "printed")
           ELSE UNCHANGED <<stdout, where, outcome>>
    /\ work' = RemoveAt(work, i)
    /\ UNCHANGED <<mode, engine, body, path, scripts, reply>>

\* Mutation: the script is only removed after a call that returns.
Unlinked_OnReturn(r, returned) ==
    IF mode = "colab" /\ returned THEN [scripts EXCEPT ![path[r]] = None] ELSE scripts

\* The finally of exec_script.
Unlinked(r, returned) ==
    IF mode = "colab" THEN [scripts EXCEPT ![path[r]] = None] ELSE scripts

\* The call returns the output, and the handler builds the response from it.
Finish(r) ==
    /\ where[r] = "printed"
    /\ LET result == ExtractMarker(stdout[r])
       IN  /\ reply' = [reply EXCEPT ![r] = result]
           /\ Goes(r, IF result = NoResult THEN "502" ELSE "200")
    /\ scripts' = Unlinked(r, TRUE)
    /\ stdout' = [stdout EXCEPT ![r] = <<>>]
    /\ UNCHANGED <<mode, engine, body, path, work, outcome>>

OwnWork(r) == {i \in DOMAIN work : work[i].by = r}
Abandoned == {i \in DOMAIN work : work[i].by = None \/ where[work[i].by] # "submitted"}

\* A nonzero return code, a timeout (of the CLI, of subprocess.run or of httpx),
\* an HTTP error.  Its computation goes on, or the CLI has interrupted it.
Fail(r) ==
    /\ r \in Calls
    /\ Goes(r, "502")
    /\ reply' = [reply EXCEPT ![r] = CallFailed]
    /\ scripts' = Unlinked(r, FALSE)
    /\ stdout' = [stdout EXCEPT ![r] = <<>>]
    /\ \/ /\ OwnWork(r) = {} \/ Cardinality(Abandoned) < MaxAbandoned
          /\ UNCHANGED work
       \/ mode = "colab" /\ \E i \in OwnWork(r) : work' = RemoveAt(work, i)
    /\ UNCHANGED <<mode, engine, body, path, outcome>>

\* The worker goes on computing for nobody.
Orphaned(indices) ==
    [i \in DOMAIN work |-> IF i \in indices THEN [work[i] EXCEPT !.by = None] ELSE work[i]]

\* The client has its answer; its identity stands for a later request.
Retire(r) ==
    /\ where[r] \in Statuses
    /\ Goes(r, "idle")
    /\ body' = [body EXCEPT ![r] = None]
    /\ path' = [path EXCEPT ![r] = None]
    /\ reply' = [reply EXCEPT ![r] = None]
    /\ outcome' = [outcome EXCEPT ![r] = None]
    /\ work' = Orphaned(OwnWork(r))
    /\ UNCHANGED <<mode, engine, scripts, stdout>>

\* The worker comes up, loads its model, or goes with everything it was computing.
WorkerComes ==
    /\ engine = "none"
    /\ engine' = "bare"
    /\ UNCHANGED <<mode, where, body, path, scripts, work, stdout, reply, outcome>>

EngineLoads ==
    /\ engine = "bare"
    /\ engine' = "loaded"
    /\ UNCHANGED <<mode, where, body, path, scripts, work, stdout, reply, outcome>>

WorkerGoes ==
    /\ engine # "none"
    /\ engine' = "none"
    /\ work' = <<>>
    /\ UNCHANGED <<mode, where, body, path, scripts, stdout, reply, outcome>>

UnderWay == {"admitted"} \cup {"calling", "submitted", "printed"}

\* f, with nothing for the requests under way.
Dropped(f, nothing) == [r \in Requests |-> IF where[r] \in UnderWay THEN nothing ELSE f[r]]

\* The controller's process ends, and with it what it had not yet answered: no
\* finally removes a script.  Its files go if its container does; a kernel goes on
\* computing for nobody, a mock worker may go with the container.
ProcessEnds ==
    /\ where' = Dropped(where, "idle")
    /\ body' = Dropped(body, None)
    /\ path' = Dropped(path, None)
    /\ stdout' = Dropped(stdout, <<>>)
    /\ outcome' = Dropped(outcome, None)
    /\ \/ scripts' = [p \in Paths |-> None]
       \/ /\ Cardinality({p \in Paths : scripts[p] # None}) <= MaxLitter
          /\ scripts' = [p \in Paths |-> IF scripts[p] = None THEN None ELSE Litter]
    /\ \/ /\ Len(work) <= MaxAbandoned
          /\ work' = Orphaned(DOMAIN work)
          /\ UNCHANGED engine
       \/ mode = "mock" /\ engine' = "none" /\ work' = <<>>
    /\ UNCHANGED <<mode, reply>>

RequestStep(r) ==
    \/ Arrive(r) \/ NoWorker(r) \/ Call(r) \/ Submit(r) \/ Finish(r) \/ Fail(r) \/ Retire(r)

Next ==
    \/ \E r \in Requests : RequestStep(r)
    \/ \E i \in DOMAIN work : Compute(i)
    \/ WorkerComes \/ EngineLoads \/ WorkerGoes
    \/ ProcessEnds

Spec == Init /\ [][Next]_vars

----------------------------------------------------------------------------
(* Properties                                                               *)

\* What a script, a computation and an answer may be.  Every text that reaches
\* the kernel is a string literal, whatever the client has sent.
PathTypeOK ==
    /\ mode \in Modes /\ engine \in {"none", "bare", "loaded"}
    /\ where \in [Requests -> Places]
    /\ body \in [Requests -> Bodies \cup {None}]
    /\ path \in [Requests -> Paths \cup {None}]
    /\ \A p \in Paths :
         scripts[p] = None \/ (mode = "colab" /\ scripts[p].kind \in {"literal", "litter"})
    /\ \A i \in DOMAIN work :
         work[i].by \in Requests \cup {None}
         /\ work[i].argument.kind = IF mode = "colab" THEN "literal" ELSE "json"
    /\ \A r \in Requests :
         where[r] = "200" => reply[r] \notin {Raised, NotRead, CallFailed, NoResult}

\* A client gets the answer to its own messages: calls that run beside each
\* other, and what earlier ones have left on the disk or in the kernel, do not mix.
AnswersAreOwn ==
    \A r \in Requests :
        where[r] = "200" => reply[r] \in Generates(Request(body[r])) \ {Raised}

\* The reference for _build_hf_messages: each message on its own, then the images
\* of all of them, in the client's order.
Shown(content) ==
    IF content \in Texts THEN <<[type |-> "text", of |-> content]>>
    ELSE [i \in DOMAIN content |-> [type |-> content[i].type, of |-> content[i].of]]

ImagesOf(content) ==
    IF content \in Texts THEN <<>>
    ELSE FlattenSeq([i \in DOMAIN content |->
             IF content[i].type = "image_url" THEN <<content[i].of>> ELSE <<>>])

Expected(messages) ==
    LET all == FlattenSeq([m \in DOMAIN messages |-> ImagesOf(messages[m])])
    IN  [text |-> <<[m \in DOMAIN messages |-> Shown(messages[m])], all>>, images |-> all]

\* The model is shown the client's parts in the client's order, and the k-th entry
\* of the response's `images` (which an agent scales coordinates by) describes the
\* k-th image of the request, over all of its messages.
ContentInOrder ==
    \A r \in Requests : where[r] = "200" => reply[r] = Expected(body[r].messages)

\* A message that the engine does not take, and requests that it may answer.
Unusable(content) == content \notin Texts /\ \E i \in DOMAIN content : ~Acceptable(content[i])
BadContent(messages) == \E m \in DOMAIN messages : Unusable(messages[m])
Takes(request) ==
    request.messages # <<>> /\ request.max_tokens > 0 /\ ~BadContent(request.messages)

\* What the engine came to is what the client is told: a result, once it is there,
\* is lost neither by the double encoding on its way in nor by the search for the
\* marker on its way out, and an exception never becomes an answer.
OutcomeKept ==
    \A r \in Requests :
        reply[r] \notin {None, CallFailed} =>
            reply[r] = IF outcome[r] = Raised THEN NoResult ELSE outcome[r]

\* No two calls use one script, none finds its own changed, and a whole script
\* (it holds the client's messages) only outlives its call with the process.
ScriptsTidied ==
    /\ \A p \in Paths : scripts[p] \notin {None, Litter} =>
         \E r \in Calls : path[r] = p
    /\ mode = "colab" => \A r \in Calls :
         /\ scripts[path[r]] = Argument(Request(body[r]))
         /\ \A q \in Calls : path[q] = path[r] => q = r

\* The worker only computes for a request that has passed every check, once for
\* each, and for those that were answered meanwhile only if their call failed.  What
\* an ended process or an earlier request has left to it is nobody's.
WorkIsOwned ==
    LET owned == {i \in DOMAIN work : work[i].by # None}
    IN  /\ \A i \in owned :
             /\ where[work[i].by] \in {"submitted", "502"}
             /\ body[work[i].by].flaws = {}
        /\ \A i, j \in owned : work[i].by = work[j].by => i = j

----------------------------------------------------------------------------
(* The path of a request, seen as the abstract chat completion              *)

Stage == [place \in Places |->
    CASE place = "idle" -> "idle"
      [] place \in {"admitted", "calling", "submitted", "printed"} -> "open"
      [] place = "200" -> "answered"
      [] place = "502" -> "failed"
      [] OTHER -> "refused"]

\* The model's answer to a body.
Result(b) == Expected(b.messages)

Completion == INSTANCE ChatCompletion WITH
    status <- [r \in Requests |-> Stage[where[r]]],
    sent <- body,
    answer <- reply

\* Each request gets one answer, its own, and keeps it: whatever a call that has
\* failed leaves behind, its late output and its file change no answer.
ImplementsCompletion == Completion!Spec

=============================================================================
