---------------------------- MODULE SingleFlight ----------------------------
(***************************************************************************)
(* What the startup lock and the shared startup future of                  *)
(* controller/services/worker_manager.py promise together: any number of   *)
(* callers, at most one flight, and every caller that joined a flight      *)
(* receives the outcome of that very flight.  An abstract specification:   *)
(* WorkerManager is checked to implement it.                               *)
(***************************************************************************)
CONSTANT Callers        \* whoever may ask for a flight

VARIABLES
    flying,             \* is a flight in progress
    waiters,            \* the callers that joined it
    outcome             \* [Callers -> outcome delivered, not yet consumed]

vars == <<flying, waiters, outcome>>

Outcomes == {"ready", "failed"}

TypeOK ==
    /\ flying \in BOOLEAN
    /\ waiters \subseteq Callers
    /\ outcome \in [Callers -> Outcomes \cup {"none"}]

Init ==
    /\ flying = FALSE
    /\ waiters = {}
    /\ outcome = [c \in Callers |-> "none"]

\* The first caller launches the flight, and waits for it.
Launch(c) ==
    /\ ~flying
    /\ outcome[c] = "none"
    /\ flying' = TRUE
    /\ waiters' = {c}
    /\ UNCHANGED outcome

\* A later caller joins the flight in progress.
Join(c) ==
    /\ flying
    /\ c \notin waiters
    /\ outcome[c] = "none"
    /\ waiters' = waiters \cup {c}
    /\ UNCHANGED <<flying, outcome>>

\* The flight ends; all its waiters get the same outcome.
Complete(o) ==
    /\ flying
    /\ flying' = FALSE
    /\ waiters' = {}
    /\ outcome' = [c \in Callers |-> IF c \in waiters THEN o ELSE outcome[c]]

\* A caller takes its outcome and goes on.
Consume(c) ==
    /\ outcome[c] # "none"
    /\ outcome' = [outcome EXCEPT ![c] = "none"]
    /\ UNCHANGED <<flying, waiters>>

\* The process dies with everything in it.
Abort ==
    /\ flying' = FALSE
    /\ waiters' = {}
    /\ outcome' = [c \in Callers |-> "none"]

Next ==
    \/ \E c \in Callers : Launch(c) \/ Join(c) \/ Consume(c)
    \/ \E o \in Outcomes : Complete(o)
    \/ Abort

Spec == Init /\ [][Next]_vars
=============================================================================
