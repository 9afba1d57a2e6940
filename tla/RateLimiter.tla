----------------------------- MODULE RateLimiter -----------------------------
(***************************************************************************)
(* controller/security.py's RateLimiter.check for one client key.          *)
(*                                                                         *)
(* rate_limit_inference is a plain function, so FastAPI calls it in its    *)
(* thread pool: the checks of one client may run in several threads, and   *)
(* nothing locks the deque.  A step of the model is one access to it.      *)
(***************************************************************************)
EXTENDS Naturals, Sequences, FiniteSets

CONSTANTS
    Threads,            \* pool threads that may be in check() at a time
    MaxRequests,        \* max_requests
    Window,             \* window_seconds, in ticks of the clock
    Horizon             \* bound of the model: the clock stops there

ASSUME LimiterAssumption ==
    /\ IsFiniteSet(Threads)
    /\ MaxRequests \in Nat \ {0}
    /\ Window \in Nat
    /\ Horizon \in Nat

VARIABLES
    clock,              \* time.time()
    hits,               \* self._hits[key]
    pc, now,            \* each thread's place in check() and its `now`
    admitted,           \* history: of each hit ever appended, its time and when
    met,                \* history: the threads whose last check() met another one
    mixed               \* history: the hits up to the last change such a check made

history == <<admitted, met, mixed>>
vars == <<clock, hits, pc, now, history>>

\* Where a thread is, and how its last check() ended.
Places == {"idle", "looking", "comparing", "popping", "counting", "appending"}
Results == {"passed", "limited", "crashed"}

TypeOK ==
    /\ clock \in 0..Horizon
    /\ hits \in Seq(0..Horizon)
    /\ pc \in [Threads -> Places \cup Results]
    /\ now \in [Threads -> 0..Horizon]
    /\ admitted \in Seq([time : 0..Horizon, kept : 0..Horizon])
    /\ met \subseteq Threads
    /\ mixed \in 0..Len(admitted)

Init ==
    /\ clock = 0
    /\ hits = <<>>
    /\ pc = [t \in Threads |-> "idle"]
    /\ now = [t \in Threads |-> 0]
    /\ admitted = <<>>
    /\ met = {}
    /\ mixed = 0

\* Thread t is inside check().
Busy(t) == pc[t] \notin {"idle"} \cup Results

Goto(t, place) == pc' = [pc EXCEPT ![t] = place]

\* Mutation: a hit expires when it is exactly as old as the window.
Expired_Inclusive(t) == now[t] - Head(hits) >= Window

\* now - q[0] > window_seconds; a clock read by a slower thread may be behind.
Expired(t) == now[t] > Head(hits) + Window

\* Mutation: off by one in the length test.
Full_OneMore(q) == Len(q) > MaxRequests

\* Mutation: and the other way round.
Full_OneLess(q) == Len(q) + 1 >= MaxRequests

Full(q) == Len(q) >= MaxRequests

----------------------------------------------------------------------------
\* The checks under way when t's begins have met it, and it has met them.
Meets(t) ==
    LET others == {u \in Threads : Busy(u)}
    IN  IF others = {} THEN met \ {t} ELSE met \cup others \cup {t}

\* Thread t leaves the history with n hits and has changed the deque.
Touches(t, n) == mixed' = IF t \in met THEN n ELSE mixed

ReadClock(t) ==
    /\ ~Busy(t)
    /\ met' = Meets(t)
    /\ now' = [now EXCEPT ![t] = clock]
    /\ Goto(t, "looking")
    /\ UNCHANGED <<clock, hits, admitted, mixed>>

\* `while q and ...`
LookAtQueue(t) ==
    /\ pc[t] = "looking"
    /\ Goto(t, IF hits = <<>> THEN "counting" ELSE "comparing")
    /\ UNCHANGED <<clock, hits, now, history>>

\* `... now - q[0] > self.window_seconds`; q[0] raises if the deque is empty.
CompareOldest(t) ==
    /\ pc[t] = "comparing"
    /\ Goto(t, IF hits = <<>> THEN "crashed"
               ELSE IF Expired(t) THEN "popping" ELSE "counting")
    /\ UNCHANGED <<clock, hits, now, history>>

\* q.popleft() takes whatever is first by now, or raises.
PopOldest(t) ==
    /\ pc[t] = "popping"
    /\ IF hits = <<>>
       THEN Goto(t, "crashed") /\ UNCHANGED <<hits, mixed>>
       ELSE Goto(t, "looking") /\ hits' = Tail(hits) /\ Touches(t, Len(admitted))
    /\ UNCHANGED <<clock, now, admitted, met>>

\* len(q) >= max_requests is a 429.
CountHits(t) ==
    /\ pc[t] = "counting"
    /\ Goto(t, IF Full(hits) THEN "limited" ELSE "appending")
    /\ UNCHANGED <<clock, hits, now, history>>

\* The history of it: the hit's time, `now`, and the time of the append.
Admits(t) ==
    /\ admitted' = Append(admitted, [time |-> now[t], kept |-> clock])
    /\ Touches(t, Len(admitted) + 1)

\* Mutation: the deque keeps the time of expiry.
AppendHit_Expiry(t) ==
    /\ pc[t] = "appending"
    /\ Goto(t, "passed")
    /\ hits' = Append(hits, now[t] + Window)
    /\ Admits(t)
    /\ UNCHANGED <<clock, now, met>>

AppendHit(t) ==
    /\ pc[t] = "appending"
    /\ Goto(t, "passed")
    /\ hits' = Append(hits, now[t])
    /\ Admits(t)
    /\ UNCHANGED <<clock, now, met>>

Tick ==
    /\ clock < Horizon
    /\ clock' = clock + 1
    /\ UNCHANGED <<hits, pc, now, history>>

Check(t) ==
    \/ ReadClock(t) \/ LookAtQueue(t) \/ CompareOldest(t)
    \/ PopOldest(t) \/ CountHits(t) \/ AppendHit(t)

Next == Tick \/ \E t \in Threads : Check(t)

Spec == Init /\ [][Next]_vars

----------------------------------------------------------------------------
(* What holds of checks under every interleaving                            *)

\* A 429 is deserved (security.py:44-47) even if other checks pop and append
\* meanwhile: max_requests hits were admitted no earlier than the window before
\* the `now` of the check that is turned away.
RefusedOnlyAtLimit ==
    \A t \in Threads : pc[t] = "limited" =>
        /\ Len(admitted) >= MaxRequests
        /\ admitted[Len(admitted) + 1 - MaxRequests].kept + Window >= now[t]

\* Each further thread costs at most one hit over the limit at a time, so the
\* deque of security.py:43-48 stays bounded.
OvershootBounded == Len(hits) < MaxRequests + Cardinality(Threads)

----------------------------------------------------------------------------
(* What checks that overlap break, until they are over                      *)

\* Two checks that overlap may both find room, or pop a hit that is still in
\* the window; the harm does not outlast them.  Of the hits admitted since such
\* a check last changed the deque (security.py:44-48), no window of that
\* length, both ends included, holds more than max_requests: they are in order,
\* and the hit max_requests later is younger by more than the window.
WithinLimit ==
    \A i \in (mixed + 1)..Len(admitted) :
        /\ \A j \in i..Len(admitted) : admitted[i].time <= admitted[j].time
        /\ i + MaxRequests <= Len(admitted) =>
                admitted[i + MaxRequests].time > admitted[i].time + Window
=============================================================================
