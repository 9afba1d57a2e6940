--------------------------- MODULE ChatCompletion ---------------------------
(***************************************************************************)
(* What controller/api/chat.py promises a client, whatever lies behind it:  *)
(* one answer to each request, which is final, and if it is a 200, what the *)
(* model makes of the client's own messages.  An abstract specification:    *)
(* RequestPath is checked and proved to implement it.                       *)
(***************************************************************************)
CONSTANTS
    Requests,           \* chat completions under way
    Bodies,             \* what clients may send
    None,               \* no body, no answer
    NoResult,           \* the answer to a computation that has raised
    CallFailed,         \* the answer to a call that has failed
    Takes(_),           \* may the model answer this body at all
    Result(_)           \* what the model makes of this body

VARIABLES
    status,             \* [Requests -> how far the client knows it to be]
    sent,               \* [Requests -> what its client has sent]
    answer              \* [Requests -> what was answered]

vars == <<status, sent, answer>>

Open == "open"
Final == {"refused", "failed", "answered"}

Init ==
    /\ status = [r \in Requests |-> "idle"]
    /\ sent = [r \in Requests |-> None]
    /\ answer = [r \in Requests |-> None]

\* What fails a check is refused; the limiter may refuse the rest.
Send(r) ==
    /\ status[r] = "idle"
    /\ \E next \in {"refused", Open} :
         /\ status' = [status EXCEPT ![r] = next]
         /\ \E b \in Bodies :
              /\ next = Open => b.flaws = {}
              /\ sent' = [sent EXCEPT ![r] = b]
    /\ UNCHANGED answer

\* There is no worker.
TurnAway(r) ==
    /\ status[r] = Open
    /\ status' = [status EXCEPT ![r] = "refused"]
    /\ UNCHANGED <<sent, answer>>

Answer(r) ==
    /\ status[r] = Open
    /\ status' = [status EXCEPT ![r] = "answered"]
    /\ Takes(sent[r])
    /\ answer' = [answer EXCEPT ![r] = Result(sent[r])]
    /\ UNCHANGED sent

\* A call may always fail, and so may the computation; bad content leaves it nothing else.
Fail(r) ==
    /\ status[r] = Open
    /\ status' = [status EXCEPT ![r] = "failed"]
    /\ \E failure \in {CallFailed, NoResult} : answer' = [answer EXCEPT ![r] = failure]
    /\ UNCHANGED sent

\* The client goes; a final answer changes in no other way.
Retire(r) ==
    /\ status[r] \in Final
    /\ status' = [status EXCEPT ![r] = "idle"]
    /\ sent' = [sent EXCEPT ![r] = None]
    /\ answer' = [answer EXCEPT ![r] = None]

\* The service ends: whoever has no answer yet gets none, the others keep theirs.
Abort ==
    LET left(f, nothing) == [r \in Requests |-> IF status[r] = Open THEN nothing ELSE f[r]]
    IN  /\ status' = left(status, "idle")
        /\ sent' = left(sent, None)
    /\ UNCHANGED answer

Next ==
    \/ \E r \in Requests : Send(r) \/ TurnAway(r) \/ Answer(r) \/ Fail(r) \/ Retire(r)
    \/ Abort

Spec == Init /\ [][Next]_vars
=============================================================================
