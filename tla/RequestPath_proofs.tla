-------------------------- MODULE RequestPath_proofs --------------------------
(***************************************************************************)
(* Proofs about RequestPath, for every number of requests, bodies and       *)
(* files.  Up to PathHolds nothing depends on what Generates allows, as long *)
(* as it may raise; what the folds of _build_hf_messages compute is in       *)
(* RequestContent_proofs.                                                   *)
(***************************************************************************)
EXTENDS RequestContent_proofs

USE DEF vars

----------------------------------------------------------------------------
(* Sequences, the least index, the checks, the marker                       *)

LEMMA RemoveAtKeeps ==
    ASSUME NEW S, NEW s \in Seq(S), NEW i \in DOMAIN s
    PROVE  /\ RemoveAt(s, i) \in Seq(S)
           /\ DOMAIN RemoveAt(s, i) = 1..Len(s) - 1
           /\ \A j \in 1..Len(s) - 1 : RemoveAt(s, i)[j] = IF j < i THEN s[j] ELSE s[j + 1]
  <1>1. i \in 1..Len(s) /\ Len(s) \in Nat
    OBVIOUS
  <1>2. SubSeq(s, 1, i - 1) \in Seq(S) /\ Len(SubSeq(s, 1, i - 1)) = i - 1
        /\ \A j \in 1..i - 1 : SubSeq(s, 1, i - 1)[j] = s[j]
    BY <1>1
  <1>3. SubSeq(s, i + 1, Len(s)) \in Seq(S)
        /\ Len(SubSeq(s, i + 1, Len(s))) = Len(s) - i
        /\ \A j \in 1..Len(s) - i : SubSeq(s, i + 1, Len(s))[j] = s[i + j]
    BY <1>1
  <1> DEFINE front == SubSeq(s, 1, i - 1)
             back == SubSeq(s, i + 1, Len(s))
  <1> HIDE DEF front, back
  <1>4. front \in Seq(S) /\ Len(front) = i - 1 /\ \A j \in 1..i - 1 : front[j] = s[j]
    BY <1>2 DEF front
  <1>5. back \in Seq(S) /\ Len(back) = Len(s) - i /\ \A j \in 1..Len(s) - i : back[j] = s[i + j]
    BY <1>3 DEF back
  <1>6. RemoveAt(s, i) = front \o back
    BY DEF RemoveAt, front, back
  <1>7. /\ front \o back \in Seq(S)
        /\ Len(front \o back) = Len(front) + Len(back)
        /\ \A j \in 1..Len(front) + Len(back) :
             (front \o back)[j] = IF j <= Len(front) THEN front[j] ELSE back[j - Len(front)]
    BY <1>4, <1>5, ConcatProperties, Zenon
  <1>8. Len(front) + Len(back) = Len(s) - 1
    BY <1>1, <1>4, <1>5
  <1>9. ASSUME NEW j \in 1..Len(s) - 1
        PROVE  (front \o back)[j] = IF j < i THEN s[j] ELSE s[j + 1]
    <2>1. (front \o back)[j] = IF j <= i - 1 THEN front[j] ELSE back[j - (i - 1)]
      BY <1>4, <1>7, <1>8
    <2>2. CASE j < i
      <3>1. j <= i - 1 /\ j \in 1..i - 1
        BY <1>1, <2>2
      <3> QED
        BY <1>4, <2>1, <2>2, <3>1
    <2>3. CASE ~(j < i)
      <3>1. ~(j <= i - 1) /\ j - (i - 1) \in 1..Len(s) - i /\ i + (j - (i - 1)) = j + 1
        BY <1>1, <2>3
      <3>2. back[j - (i - 1)] = s[i + (j - (i - 1))]
        BY <1>5, <3>1
      <3> QED
        BY <2>1, <2>3, <3>1, <3>2
    <2> QED
      BY <2>2, <2>3
  <1>10. DOMAIN (front \o back) = 1..Len(s) - 1
    BY <1>7, <1>8
  <1> QED
    BY <1>6, <1>7, <1>9, <1>10

LEMMA RemoveAtOrigin ==
    ASSUME NEW S, NEW s \in Seq(S), NEW i \in DOMAIN s, NEW j \in DOMAIN RemoveAt(s, i)
    PROVE  \E k \in DOMAIN s : k # i /\ RemoveAt(s, i)[j] = s[k] /\ k = IF j < i THEN j ELSE j + 1
  <1>1. /\ j \in 1..Len(s) - 1 /\ i \in 1..Len(s) /\ Len(s) \in Nat
        /\ RemoveAt(s, i)[j] = IF j < i THEN s[j] ELSE s[j + 1]
    <2>1. /\ DOMAIN RemoveAt(s, i) = 1..Len(s) - 1
          /\ \A l \in 1..Len(s) - 1 :
               RemoveAt(s, i)[l] = IF l < i THEN s[l] ELSE s[l + 1]
      BY RemoveAtKeeps, Zenon
    <2> QED
      BY <2>1
  <1>2. CASE j < i
    BY <1>1, <1>2
  <1>3. CASE ~(j < i)
    BY <1>1, <1>3
  <1> QED
    BY <1>2, <1>3

LEMMA MinOfChecks ==
    ASSUME NEW S \in SUBSET (1..7), S # {}
    PROVE  Min(S) \in S
  <1>1. \E x \in S : \A y \in S : x <= y
    <2>1. S \in SUBSET Nat
      OBVIOUS
    <2> QED
      BY <2>1, OverParts!LeastNumber
  <1> QED
    BY <1>1 DEF Min

\* The checks let a body pass only if it fails none of them.
LEMMA VerdictTells ==
    ASSUME NEW flaws \in SUBSET DOMAIN StatusOf
    PROVE  /\ Verdict(flaws) \in {"admitted"} \cup Refusals
           /\ Verdict(flaws) = "admitted" => flaws = {}
  <1> DEFINE failed == {i \in DOMAIN Checks : Checks[i] \in flaws}
  <1>1. DOMAIN Checks = 1..7 /\ \A i \in 1..7 : Checks[i] \in DOMAIN StatusOf
    BY DEF Checks, StatusOf
  <1>2. CASE failed = {}
    <2>1. \A flaw \in DOMAIN StatusOf : \E i \in DOMAIN Checks : Checks[i] = flaw
      <3>1. /\ Checks[1] = "too_large" /\ Checks[2] = "malformed" /\ Checks[3] = "no_key"
            /\ Checks[4] = "limited" /\ Checks[5] = "crashed" /\ Checks[6] = "invalid"
            /\ Checks[7] = "stream"
        BY DEF Checks
      <3>2. DOMAIN StatusOf = {"too_large", "malformed", "no_key", "limited", "crashed",
                               "invalid", "stream"}
        BY DEF StatusOf
      <3> QED
        BY <1>1, <3>1, <3>2
    <2> QED
      BY <1>2, <2>1 DEF Verdict
  <1>3. CASE failed # {}
    <2>1. Min(failed) \in failed
      BY <1>1, <1>3, MinOfChecks
    <2>2. Verdict(flaws) = StatusOf[Checks[Min(failed)]]
      BY <1>3 DEF Verdict
    <2>3. Verdict(flaws) \in Refusals
      BY <1>1, <2>1, <2>2 DEF Refusals
    <2> QED
      BY <2>3 DEF Refusals, StatusOf
  <1> QED
    BY <1>2, <1>3

MarkedLine(result) == [marker |-> TRUE, of |-> result]

LEMMA OneMarker ==
    ASSUME NEW lines, NEW i \in Nat, Marked(lines) = {i}
    PROVE  ExtractMarker(lines) = lines[i].of
  <1>1. Min({i}) = i
    BY DEF Min
  <1> QED
    BY <1>1 DEF ExtractMarker

\* The search for the marker finds what the computation has printed.
LEMMA MarkerFound ==
    ASSUME NEW result, NEW lines \in Outputs(result)
    PROVE  ExtractMarker(lines) = IF result \in {Raised, NotRead} THEN NoResult ELSE result
  <1> DEFINE marked == MarkedLine(result)
  <1>1. CASE result \in {Raised, NotRead}
    <2>1. lines = <<Line>>
      BY <1>1 DEF Outputs
    <2>2. DOMAIN lines = {1} /\ lines[1] = Line
      BY <2>1
    <2>3. ~Line.marker
      BY DEF Line
    <2>4. Marked(lines) = {}
      BY <2>2, <2>3, Zenon DEF Marked
    <2> QED
      BY <1>1, <2>4 DEF ExtractMarker
  <1>2. CASE result \notin {Raised, NotRead}
    <2>1. lines \in {<<marked>>, <<Line, marked>>, <<marked, Line>>}
      BY <1>2 DEF Outputs, MarkedLine
    <2>2. ~Line.marker /\ marked.marker /\ marked.of = result
      BY DEF Line, MarkedLine
    <2> HIDE DEF marked
    <2>3. CASE lines = <<marked>>
      <3>1. DOMAIN lines = {1} /\ lines[1] = marked
        BY <2>3
      <3>2. Marked(lines) = {1}
        BY <2>2, <3>1, Zenon DEF Marked
      <3> QED
        BY <1>2, <2>2, <3>1, <3>2, OneMarker
    <2>4. CASE lines = <<Line, marked>>
      <3>1. DOMAIN lines = {1, 2} /\ lines[1] = Line /\ lines[2] = marked
        BY <2>4
      <3>2. Marked(lines) = {2}
        BY <2>2, <3>1, Zenon DEF Marked
      <3> QED
        BY <1>2, <2>2, <3>1, <3>2, OneMarker
    <2>5. CASE lines = <<marked, Line>>
      <3>1. DOMAIN lines = {1, 2} /\ lines[1] = marked /\ lines[2] = Line
        BY <2>5
      <3>2. Marked(lines) = {1}
        BY <2>2, <3>1, Zenon DEF Marked
      <3> QED
        BY <1>2, <2>2, <3>1, <3>2, OneMarker
    <2> QED
      BY <2>1, <2>3, <2>4, <2>5
  <1> QED
    BY <1>1, <1>2

\* What a computation is handed for a body.
Handed(b) == IF mode = "colab" THEN Argument(Request(b)) ELSE Json(Request(b))

\* The engine gets back, from the snippet, the request that was put into it: what a
\* computation comes to is what the engine may answer to it.
LEMMA EncodedAndBack ==
    ASSUME NEW b, NEW result \in Outcomes(Handed(b))
    PROVE  result \in Generates(Request(b))
  <1>1. HandleRequest(Argument(Request(b))) = Generates(Request(b))
    BY DEF HandleRequest, PyEval, Argument, Literal, Json
  <1>2. Json(Request(b)).of = Request(b)
    BY DEF Json
  <1>3. Raised \in Generates(Request(b))
    BY DEF Generates
  <1> QED
    BY <1>1, <1>2, <1>3 DEF Outcomes, Handed

\* A result is none of the failures.
LEMMA ResultsDiffer ==
    ASSUME NEW request, NEW result \in Generates(request)
    PROVE  /\ result \notin {NoResult, CallFailed, NotRead}
           /\ Raised \notin {NoResult, CallFailed, NotRead}
  <1>1. Raised \notin {NoResult, CallFailed, NotRead}
    BY DEF Raised, NoResult, CallFailed, NotRead
  <1>2. CASE result # Raised
    <2>1. "text" \in DOMAIN result
      BY <1>2 DEF Generates
    <2>2. "text" \notin DOMAIN NoResult /\ "text" \notin DOMAIN CallFailed
          /\ "text" \notin DOMAIN NotRead
      BY DEF NoResult, CallFailed, NotRead
    <2> QED
      BY <1>1, <2>1, <2>2
  <1> QED
    BY <1>1, <1>2

----------------------------------------------------------------------------
(* Types                                                                    *)

Jobs == [by : Requests \cup {None}, argument : {Handed(b) : b \in Bodies}]

PathTypes ==
    /\ mode \in Modes /\ engine \in {"none", "bare", "loaded"}
    /\ where \in [Requests -> Places]
    /\ body \in [Requests -> Bodies \cup {None}]
    /\ path \in [Requests -> Paths \cup {None}]
    /\ scripts = [p \in Paths |-> scripts[p]]
    /\ work \in Seq(Jobs)
    /\ stdout = [r \in Requests |-> stdout[r]]
    /\ reply = [r \in Requests |-> reply[r]]
    /\ outcome = [r \in Requests |-> outcome[r]]

\* A request that is under way has a body, which passed every check if it got far.
BodyInv ==
    \A r \in Requests : where[r] # "idle" =>
        /\ body[r] \in Bodies
        /\ where[r] \notin Refusals => body[r].flaws = {}

\* Files exist in colab mode only.  A whole one belongs to one call, and each call
\* has one, which holds its own request.
ScriptInv ==
    /\ mode # "colab" => \A p \in Paths : scripts[p] = None
    /\ \A p \in Paths : scripts[p] \notin {None, Litter} => \E r \in Calls : path[r] = p
    /\ mode = "colab" => \A r \in Calls :
         /\ path[r] \in Paths
         /\ scripts[path[r]] = Argument(Request(body[r]))
         /\ \A q \in Calls : path[q] = path[r] => q = r

\* A computation that is somebody's is for that request, and its only one.
WorkInv ==
    /\ \A i \in DOMAIN work : work[i].by # None =>
         /\ where[work[i].by] \in {"submitted", "502"}
         /\ work[i].argument = Handed(body[work[i].by])
    /\ \A i, j \in DOMAIN work : work[i].by # None /\ work[i].by = work[j].by => i = j

\* What was printed is what the engine came to for that request, and so is the answer.
AnswerOf(r) ==
    /\ where[r] = "printed" =>
         /\ outcome[r] \in Generates(Request(body[r]))
         /\ stdout[r] \in Outputs(outcome[r])
    /\ where[r] = "200" =>
         /\ reply[r] \in Generates(Request(body[r])) \ {Raised}
         /\ reply[r] = outcome[r]
    /\ where[r] # "200" /\ reply[r] \notin {None, CallFailed} =>
         where[r] = "502" /\ reply[r] = NoResult /\ outcome[r] = Raised

AnswerInv == \A r \in Requests : AnswerOf(r)

PathInv == PathTypes /\ BodyInv /\ ScriptInv /\ WorkInv /\ AnswerInv

LEMMA PlacesAre ==
    /\ Refusals = {"413", "422", "401", "429", "500", "400"}
    /\ Places = {"idle", "admitted", "calling", "submitted", "printed",
                 "413", "422", "401", "429", "500", "400", "200", "502", "503"}
  BY DEF Refusals, Places, Statuses, StatusOf

LEMMA InitPath == Init => PathInv
  <1> SUFFICES ASSUME Init PROVE PathInv
    OBVIOUS
  <1>1. PathTypes
    <2>1. /\ where \in [Requests -> Places]
          /\ body \in [Requests -> Bodies \cup {None}]
          /\ path \in [Requests -> Paths \cup {None}]
      BY PlacesAre DEF Init
    <2>2. /\ scripts = [p \in Paths |-> scripts[p]]
          /\ stdout = [r \in Requests |-> stdout[r]]
          /\ reply = [r \in Requests |-> reply[r]]
          /\ outcome = [r \in Requests |-> outcome[r]]
      BY DEF Init
    <2>3. work \in Seq(Jobs)
      BY DEF Init
    <2>4. mode \in Modes /\ engine \in {"none", "bare", "loaded"}
      BY DEF Init
    <2> QED
      BY <2>1, <2>2, <2>3, <2>4 DEF PathTypes
  <1>2. BodyInv /\ WorkInv /\ AnswerInv
    BY DEF Init, BodyInv, WorkInv, AnswerInv, AnswerOf
  <1>3. ScriptInv
    BY DEF Init, ScriptInv, Calls
  <1> QED
    BY <1>1, <1>2, <1>3 DEF PathInv

----------------------------------------------------------------------------
(* What a step of request r leaves alone                                    *)

CallPlaces == {"calling", "submitted", "printed"}

Same(q) == where'[q] = where[q] /\ body'[q] = body[q]

LEMMA WorkTyped ==
    ASSUME PathTypes, NEW i \in DOMAIN work
    PROVE  /\ work[i] \in Jobs
           /\ work[i].by \in Requests \cup {None}
  <1>1. work[i] \in Jobs
    <2>1. work \in Seq(Jobs)
      BY DEF PathTypes
    <2> QED
      BY <2>1
  <1> QED
    BY <1>1 DEF Jobs

LEMMA TypesFrame ==
    ASSUME PathTypes, mode' = mode, engine' \in {"none", "bare", "loaded"},
           where' \in [Requests -> Places],
           body' \in [Requests -> Bodies \cup {None}],
           path' \in [Requests -> Paths \cup {None}],
           scripts' = [p \in Paths |-> scripts'[p]],
           work' \in Seq(Jobs),
           stdout' = [r \in Requests |-> stdout'[r]],
           reply' = [r \in Requests |-> reply'[r]],
           outcome' = [r \in Requests |-> outcome'[r]]
    PROVE  PathTypes'
  <1>1. work' \in (Seq(Jobs))'
    BY DEF Handed, Jobs
  <1>2. mode' \in Modes
    BY DEF PathTypes
  <1> QED
    BY <1>1, <1>2 DEF PathTypes

LEMMA BodyFrame ==
    ASSUME BodyInv, NEW r \in Requests,
           \A q \in Requests \ {r} : Same(q),
           where'[r] # "idle" =>
             body'[r] \in Bodies /\ (where'[r] \notin Refusals => body'[r].flaws = {})
    PROVE  BodyInv'
  BY DEF BodyInv, Same, Refusals, StatusOf

LEMMA ScriptFrame ==
    ASSUME ScriptInv, NEW r \in Requests,
           \A q \in Requests \ {r} : Same(q) /\ path'[q] = path[q],
           where[r] \notin CallPlaces, where'[r] \notin CallPlaces,
           scripts' = scripts, mode' = mode
    PROVE  ScriptInv'
  <1>1. Calls' = Calls
    BY DEF Calls, CallPlaces, Same
  <1>2. r \notin Calls /\ \A q \in Calls : q \in Requests
    BY DEF Calls, CallPlaces
  <1> QED
    BY <1>1, <1>2 DEF ScriptInv, Same

LEMMA WorkFrame ==
    ASSUME PathTypes, WorkInv, NEW r \in Requests,
           \A q \in Requests \ {r} : Same(q),
           where[r] \notin {"submitted", "502"},
           work' = work, mode' = mode
    PROVE  WorkInv'
  <1>1. \A i \in DOMAIN work : work[i].by # None => work[i].by \in Requests
    BY WorkTyped
  <1>2. \A i \in DOMAIN work : work[i].by # None => work[i].by \in Requests \ {r}
    BY <1>1 DEF WorkInv
  <1> QED
    BY <1>2 DEF WorkInv, Handed, Same

LEMMA AnswerKept ==
    ASSUME NEW q \in Requests, AnswerOf(q), Same(q), mode' = mode,
           stdout'[q] = stdout[q], reply'[q] = reply[q], outcome'[q] = outcome[q]
    PROVE  AnswerOf(q)'
  <1>1. (Outputs(outcome[q]))' = Outputs(outcome[q])
    BY DEF Outputs
  <1> QED
    BY <1>1 DEF AnswerOf, Same

\* A request with no answer, or none but a failed call's, disturbs no other.
LEMMA AnswerFrame ==
    ASSUME AnswerInv, NEW r \in Requests,
           \A q \in Requests \ {r} :
              Same(q) /\ stdout'[q] = stdout[q] /\ reply'[q] = reply[q]
                /\ outcome'[q] = outcome[q],
           where'[r] \notin {"printed", "200"}, reply'[r] \in {None, CallFailed},
           mode' = mode
    PROVE  AnswerInv'
  <1>1. CallFailed' = CallFailed /\ NoResult' = NoResult /\ Raised' = Raised
    BY DEF CallFailed, NoResult, Raised
  <1> SUFFICES ASSUME NEW q \in Requests PROVE AnswerOf(q)'
    BY DEF AnswerInv, AnswerOf
  <1>2. CASE q = r
    BY <1>1, <1>2 DEF AnswerOf
  <1>3. CASE q # r
    BY <1>3, AnswerKept DEF AnswerInv, AnswerOf, Same
  <1> QED
    BY <1>2, <1>3

LEMMA AnswersSame ==
    ASSUME AnswerInv, UNCHANGED <<mode, where, body, stdout, reply, outcome>>
    PROVE  AnswerInv'
  <1> SUFFICES ASSUME NEW q \in Requests PROVE AnswerOf(q)'
    BY DEF AnswerInv, AnswerOf
  <1> QED
    BY AnswerKept DEF AnswerInv, AnswerOf, Same

----------------------------------------------------------------------------
(* The steps                                                                *)

LEMMA ArriveKeeps == ASSUME PathInv, NEW r \in Requests, Arrive(r) PROVE PathInv'
  <1> USE DEF PathInv
  <1>1. PICK b \in Bodies, limiter \in Limiter :
          /\ body' = [body EXCEPT ![r] = b]
          /\ where' = [where EXCEPT ![r] = Verdict(b.flaws \cup limiter)]
    BY DEF Arrive, Goes
  <1> DEFINE place == Verdict(b.flaws \cup limiter)
  <1>2. place \in {"admitted"} \cup Refusals /\ (place = "admitted" => b.flaws = {})
    <2>1. b.flaws \cup limiter \subseteq DOMAIN StatusOf
      BY FlawsAssumption DEF StatusOf, Limiter
    <2> QED
      BY <2>1, VerdictTells
  <1> HIDE DEF place
  <1>3. /\ where[r] = "idle" /\ where'[r] = place /\ body'[r] = b
        /\ UNCHANGED <<mode, engine, path, scripts, work, stdout, reply, outcome>>
        /\ where' \in [Requests -> Places] /\ body' \in [Requests -> Bodies \cup {None}]
        /\ \A q \in Requests \ {r} : Same(q)
    BY <1>1, <1>2, PlacesAre DEF Arrive, PathTypes, Same, place
  <1>4. place \notin CallPlaces \cup {"idle", "200"}
    BY <1>2, PlacesAre DEF CallPlaces
  <1>5. PathTypes'
    BY <1>3 DEF PathTypes, Handed, Jobs
  <1>6. BodyInv'
    BY <1>2, <1>3, BodyFrame
  <1>7. ScriptInv'
    BY <1>3, <1>4, ScriptFrame DEF CallPlaces
  <1>8. WorkInv'
    BY <1>3, WorkFrame
  <1>9. AnswerInv'
    <2>1. reply[r] \in {None, CallFailed}
      BY <1>3 DEF AnswerInv, AnswerOf
    <2> QED
      BY <1>3, <1>4, <2>1, AnswerFrame DEF CallPlaces
  <1> QED
    BY <1>5, <1>6, <1>7, <1>8, <1>9

LEMMA NoWorkerKeeps == ASSUME PathInv, NEW r \in Requests, NoWorker(r) PROVE PathInv'
  <1> USE DEF PathInv
  <1>1. /\ where[r] = "admitted" /\ where'[r] = "503"
        /\ UNCHANGED <<mode, engine, body, path, scripts, work, stdout, reply, outcome>>
        /\ where' \in [Requests -> Places]
        /\ \A q \in Requests \ {r} : Same(q)
    BY PlacesAre DEF NoWorker, Goes, PathTypes, Same
  <1>2. PathTypes'
    BY <1>1 DEF PathTypes, Handed, Jobs
  <1>3. BodyInv'
    BY <1>1, BodyFrame, PlacesAre DEF BodyInv
  <1>4. ScriptInv'
    BY <1>1, ScriptFrame DEF CallPlaces
  <1>5. WorkInv'
    BY <1>1, WorkFrame
  <1>6. AnswerInv'
    <2>1. reply[r] \in {None, CallFailed}
      BY <1>1 DEF AnswerInv, AnswerOf
    <2> QED
      BY <1>1, <2>1, AnswerFrame
  <1> QED
    BY <1>2, <1>3, <1>4, <1>5, <1>6

\* Some computations go on for nobody: the others are still somebody's.
LEMMA WorkOrphaned ==
    ASSUME PathTypes, WorkInv, NEW indices \in SUBSET DOMAIN work, work' = Orphaned(indices)
    PROVE  /\ work' \in Seq(Jobs)
           /\ DOMAIN work' = DOMAIN work
           /\ \A i \in indices : work'[i].by = None
           /\ \A i \in DOMAIN work \ indices : work'[i] = work[i]
           /\ \A i, j \in DOMAIN work' :
                work'[i].by # None /\ work'[i].by = work'[j].by => i = j
  <1>1. work \in Seq(Jobs)
    BY DEF PathTypes
  <1>2. ASSUME NEW i \in DOMAIN work
        PROVE  [work[i] EXCEPT !.by = None] \in Jobs /\ [work[i] EXCEPT !.by = None].by = None
    BY <1>2, WorkTyped DEF Jobs
  <1>3. /\ DOMAIN work' = DOMAIN work
        /\ \A i \in DOMAIN work :
             work'[i] = IF i \in indices THEN [work[i] EXCEPT !.by = None] ELSE work[i]
    BY DEF Orphaned
  <1>4. \A i \in DOMAIN work' : work'[i] \in Jobs
    BY <1>2, <1>3, WorkTyped
  <1>5. work' = [i \in 1..Len(work) |-> work'[i]] /\ Len(work) \in Nat
        /\ DOMAIN work = 1..Len(work)
    BY <1>1 DEF Orphaned
  <1>6. work' \in Seq(Jobs)
    <2> HIDE DEF Jobs
    <2>1. \A i \in 1..Len(work) : work'[i] \in Jobs
      BY <1>3, <1>4, <1>5
    <2>2. [i \in 1..Len(work) |-> work'[i]] \in Seq(Jobs)
      BY <1>5, <2>1
    <2> QED
      BY <1>5, <2>2
  <1>7. ASSUME NEW i \in DOMAIN work', NEW j \in DOMAIN work',
               work'[i].by # None, work'[i].by = work'[j].by
        PROVE  i = j
    <2>1. i \notin indices /\ j \notin indices
      BY <1>2, <1>3, <1>7
    <2> QED
      BY <1>3, <1>7, <2>1 DEF WorkInv
  <1> QED
    BY <1>2, <1>3, <1>6, <1>7

LEMMA RetireKeeps == ASSUME PathInv, NEW r \in Requests, Retire(r) PROVE PathInv'
  <1> USE DEF PathInv
  <1>1. /\ where[r] \in Statuses /\ where'[r] = "idle" /\ reply'[r] = None
        /\ UNCHANGED <<mode, engine, scripts, stdout>> /\ work' = Orphaned(OwnWork(r))
        /\ where' \in [Requests -> Places]
        /\ body' \in [Requests -> Bodies \cup {None}]
        /\ path' \in [Requests -> Paths \cup {None}]
        /\ reply' = [q \in Requests |-> reply'[q]]
        /\ outcome' = [q \in Requests |-> outcome'[q]]
        /\ \A q \in Requests \ {r} : Same(q) /\ path'[q] = path[q] /\ reply'[q] = reply[q]
                                      /\ outcome'[q] = outcome[q]
    BY PlacesAre DEF Retire, Goes, PathTypes, Same
  <1>2. /\ work' \in Seq(Jobs) /\ DOMAIN work' = DOMAIN work
        /\ \A i \in OwnWork(r) : work'[i].by = None
        /\ \A i \in DOMAIN work \ OwnWork(r) : work'[i] = work[i]
        /\ \A i, j \in DOMAIN work' :
             work'[i].by # None /\ work'[i].by = work'[j].by => i = j
    <2>1. OwnWork(r) \in SUBSET DOMAIN work
      BY DEF OwnWork
    <2> QED
      BY <1>1, <2>1, WorkOrphaned
  <1>3. PathTypes'
    BY <1>1, <1>2, TypesFrame DEF PathTypes
  <1>4. BodyInv'
    BY <1>1, BodyFrame
  <1>5. ScriptInv'
    BY <1>1, ScriptFrame, PlacesAre DEF CallPlaces, Statuses
  <1>6. WorkInv'
    <2>1. ASSUME NEW i \in DOMAIN work', work'[i].by # None
          PROVE  /\ where'[work'[i].by] \in {"submitted", "502"}
                 /\ work'[i].argument = Handed(body'[work'[i].by])
      <3>1. i \in DOMAIN work \ OwnWork(r) /\ work'[i] = work[i]
        BY <1>2, <2>1
      <3>2. work[i].by \in Requests \ {r}
        BY <2>1, <3>1, WorkTyped DEF OwnWork
      <3> QED
        BY <1>1, <2>1, <3>1, <3>2 DEF WorkInv, Same
    <2> QED
      BY <1>1, <1>2, <2>1 DEF WorkInv, Handed
  <1>7. AnswerInv'
    BY <1>1, AnswerFrame
  <1> QED
    BY <1>3, <1>4, <1>5, <1>6, <1>7

LEMMA CallKeeps == ASSUME PathInv, NEW r \in Requests, Call(r) PROVE PathInv'
  <1> USE DEF PathInv
  <1>1. /\ where[r] = "admitted" /\ where'[r] \in {"calling", "502"}
        /\ UNCHANGED <<mode, engine, body, work, stdout, outcome>>
        /\ reply'[r] \in {reply[r], CallFailed}
        /\ where' \in [Requests -> Places]
        /\ path' \in [Requests -> Paths \cup {None}]
        /\ scripts' = [p \in Paths |-> scripts'[p]]
        /\ reply' = [q \in Requests |-> reply'[q]]
        /\ \A q \in Requests \ {r} : Same(q) /\ path'[q] = path[q] /\ reply'[q] = reply[q]
    BY PlacesAre DEF Call, Goes, PathTypes, Same
  <1>2. PathTypes'
    BY <1>1 DEF PathTypes, Handed, Jobs
  <1>3. body[r] \in Bodies /\ body[r].flaws = {}
    BY <1>1, PlacesAre DEF BodyInv
  <1>4. BodyInv'
    BY <1>1, <1>3, BodyFrame
  <1>5. ScriptInv'
    <2>1. CASE mode = "mock"
      <3>1. scripts' = scripts
        BY <2>1 DEF Call
      <3> QED
        BY <1>1, <2>1, <3>1 DEF ScriptInv
    <2>2. CASE mode # "mock" /\ where'[r] = "calling"
      <3>1. PICK p \in Paths :
              /\ scripts[p] = None
              /\ scripts' = [scripts EXCEPT ![p] = Argument(Request(body[r]))]
              /\ path' = [path EXCEPT ![r] = p]
        BY <2>2 DEF Call, Goes, FreshPath, PathTypes
      <3>2. mode = "colab"
        BY <2>2, BoundAssumption DEF PathTypes
      <3>3. Calls' = Calls \cup {r} /\ r \notin Calls
        BY <1>1, <2>2 DEF Calls, Same
      <3>4. \A q \in Calls : q \in Requests \ {r} /\ path[q] \in Paths
        BY <3>2, <3>3 DEF Calls, ScriptInv
      <3>5. \A q \in Calls : path[q] # p
        <4>1. \A q \in Calls : scripts[path[q]] = Argument(Request(body[q]))
                              /\ body[q] \in Bodies
          BY <3>2, PlacesAre DEF Calls, ScriptInv, BodyInv
        <4> QED
          BY <3>1, <4>1, ArgumentAssumption
      <3>6. path'[r] = p /\ scripts'[p] = Argument(Request(body[r]))
            /\ \A o \in Paths \ {p} : scripts'[o] = scripts[o]
        BY <3>1 DEF PathTypes
      <3> QED
        BY <1>1, <3>2, <3>3, <3>4, <3>5, <3>6 DEF ScriptInv
    <2>3. CASE mode # "mock" /\ where'[r] = "502"
      <3>1. PICK p \in Paths :
              /\ scripts[p] = None
              /\ scripts' = [scripts EXCEPT ![p] = Litter]
              /\ path' = path
        BY <2>3 DEF Call, Goes, FreshPath, PathTypes
      <3>2. mode = "colab"
        BY <2>3, BoundAssumption DEF PathTypes
      <3>3. Calls' = Calls /\ r \notin Calls
        BY <1>1, <2>3 DEF Calls, Same
      <3>4. \A q \in Calls : q \in Requests \ {r} /\ path[q] \in Paths
        BY <3>2, <3>3 DEF Calls, ScriptInv
      <3>5. \A q \in Calls : path[q] # p
        <4>1. \A q \in Calls : scripts[path[q]] = Argument(Request(body[q]))
                              /\ body[q] \in Bodies
          BY <3>2, PlacesAre DEF Calls, ScriptInv, BodyInv
        <4> QED
          BY <3>1, <4>1, ArgumentAssumption
      <3>6. scripts'[p] = Litter /\ \A o \in Paths \ {p} : scripts'[o] = scripts[o]
        BY <3>1 DEF PathTypes
      <3>7. Litter' = Litter
        BY DEF Litter
      <3> QED
        BY <1>1, <3>1, <3>2, <3>3, <3>4, <3>5, <3>6, <3>7 DEF ScriptInv
    <2> QED
      BY <1>1, <2>1, <2>2, <2>3
  <1>6. WorkInv'
    BY <1>1, WorkFrame
  <1>7. AnswerInv'
    <2>1. reply[r] \in {None, CallFailed}
      BY <1>1 DEF AnswerInv, AnswerOf
    <2> QED
      BY <1>1, <2>1, AnswerFrame
  <1> QED
    BY <1>2, <1>4, <1>5, <1>6, <1>7

LEMMA SubmitKeeps == ASSUME PathInv, NEW r \in Requests, Submit(r) PROVE PathInv'
  <1> USE DEF PathInv
  <1> DEFINE new == [by |-> r, argument |-> Handed(body[r])]
  <1>1. /\ where[r] = "calling" /\ where'[r] = "submitted"
        /\ UNCHANGED <<mode, engine, body, path, scripts, stdout, reply, outcome>>
        /\ where' \in [Requests -> Places]
        /\ \A q \in Requests \ {r} : Same(q)
    BY PlacesAre DEF Submit, Goes, PathTypes, Same
  <1>2. body[r] \in Bodies /\ body[r].flaws = {}
    BY <1>1, PlacesAre DEF BodyInv
  <1>3. work' = Append(work, new)
    <2>1. mode = "colab" => scripts[path[r]] = Argument(Request(body[r]))
      BY <1>1 DEF ScriptInv, Calls
    <2> QED
      BY <2>1 DEF Submit, Handed
  <1>4. new \in Jobs
    BY <1>2 DEF Jobs
  <1> HIDE DEF new
  <1>5. /\ work' \in Seq(Jobs)
        /\ DOMAIN work' = 1..Len(work) + 1 /\ DOMAIN work = 1..Len(work) /\ Len(work) \in Nat
        /\ work'[Len(work) + 1] = new /\ \A i \in DOMAIN work : work'[i] = work[i]
    BY <1>3, <1>4, AppendProperties DEF PathTypes
  <1>6. PathTypes'
    BY <1>1, <1>5 DEF PathTypes, Handed, Jobs
  <1>7. BodyInv'
    BY <1>1, <1>2, BodyFrame
  <1>8. ScriptInv'
    <2>1. Calls' = Calls
      BY <1>1 DEF Calls, Same
    <2> QED
      BY <1>1, <2>1 DEF ScriptInv
  <1>9. WorkInv'
    <2>1. new.by = r /\ new.argument = Handed(body[r])
      BY DEF new
    <2>2. \A i \in DOMAIN work : work[i].by # None => work[i].by \in Requests \ {r}
      BY <1>1, WorkTyped DEF WorkInv
    <2>3. \A i \in DOMAIN work' : i \in DOMAIN work \/ i = Len(work) + 1
      BY <1>5
    <2> QED
      BY <1>1, <1>5, <2>1, <2>2, <2>3 DEF WorkInv, Handed, Same
  <1>10. AnswerInv'
    <2>1. reply[r] \in {None, CallFailed}
      BY <1>1 DEF AnswerInv, AnswerOf
    <2> QED
      BY <1>1, <2>1, AnswerFrame
  <1> QED
    BY <1>6, <1>7, <1>8, <1>9, <1>10

\* A computation that is over, or interrupted, leaves the others in their order.
LEMMA WorkRemoved ==
    ASSUME PathTypes, WorkInv, NEW i \in DOMAIN work, work' = RemoveAt(work, i)
    PROVE  /\ work' \in Seq(Jobs)
           /\ \A j \in DOMAIN work' : \E k \in DOMAIN work : k # i /\ work'[j] = work[k]
           /\ work[i].by # None => \A j \in DOMAIN work' : work'[j].by # work[i].by
           /\ \A j, l \in DOMAIN work' :
                work'[j].by # None /\ work'[j].by = work'[l].by => j = l
  <1>1. work \in Seq(Jobs)
    BY DEF PathTypes
  <1>2. /\ work' \in Seq(Jobs)
        /\ \A j \in DOMAIN work' :
             \E k \in DOMAIN work : k # i /\ work'[j] = work[k] /\ k = IF j < i THEN j ELSE j + 1
    BY <1>1, RemoveAtKeeps, RemoveAtOrigin
  <1>3. work[i].by # None => \A j \in DOMAIN work' : work'[j].by # work[i].by
    BY <1>2 DEF WorkInv
  <1>4. ASSUME NEW j \in DOMAIN work', NEW l \in DOMAIN work',
               work'[j].by # None, work'[j].by = work'[l].by
        PROVE  j = l
    <2>1. PICK k \in DOMAIN work : work'[j] = work[k] /\ k = IF j < i THEN j ELSE j + 1
      BY <1>2
    <2>2. PICK m \in DOMAIN work : work'[l] = work[m] /\ m = IF l < i THEN l ELSE l + 1
      BY <1>2
    <2>3. k = m
      BY <1>4, <2>1, <2>2 DEF WorkInv
    <2>4. j \in Nat /\ l \in Nat /\ i \in Nat
      BY <1>1, <1>2
    <2> QED
      BY <2>1, <2>2, <2>3, <2>4
  <1> QED
    BY <1>2, <1>3, <1>4

LEMMA ComputeKeeps == ASSUME PathInv, NEW i \in DOMAIN work, Compute(i) PROVE PathInv'
  <1> USE DEF PathInv
  <1> DEFINE r == work[i].by
             awaited == r # None /\ where[r] = "submitted"
  <1>1. /\ UNCHANGED <<mode, engine, body, path, scripts, reply>>
        /\ work' = RemoveAt(work, i)
        /\ IF awaited
           THEN \E result \in Outcomes(work[i].argument) :
                  /\ outcome' = [outcome EXCEPT ![r] = result]
                  /\ \E lines \in Outputs(result) : stdout' = [stdout EXCEPT ![r] = lines]
                  /\ where' = [where EXCEPT ![r] = "printed"]
           ELSE UNCHANGED <<stdout, where, outcome>>
    BY DEF Compute, Goes, Awaited
  <1>2. awaited => r \in Requests /\ work[i].argument = Handed(body[r])
    BY WorkTyped DEF WorkInv
  <1>3. /\ work' \in Seq(Jobs)
        /\ \A j \in DOMAIN work' : \E k \in DOMAIN work : k # i /\ work'[j] = work[k]
        /\ r # None => \A j \in DOMAIN work' : work'[j].by # r
        /\ \A j, l \in DOMAIN work' :
             work'[j].by # None /\ work'[j].by = work'[l].by => j = l
    BY <1>1, WorkRemoved
  <1>4. /\ where' \in [Requests -> Places] /\ stdout' = [q \in Requests |-> stdout'[q]]
        /\ outcome' = [q \in Requests |-> outcome'[q]]
        /\ \A q \in Requests : ~(awaited /\ q = r) =>
             Same(q) /\ stdout'[q] = stdout[q] /\ outcome'[q] = outcome[q]
        /\ awaited => where'[r] = "printed"
    <2> HIDE DEF r
    <2> QED
      BY <1>1, <1>2, PlacesAre DEF PathTypes, Same
  <1> HIDE DEF r, awaited
  <1>5. PathTypes'
    BY <1>1, <1>3, <1>4, TypesFrame DEF PathTypes
  <1>6. BodyInv'
    <2>1. CASE awaited
      <3>1. r \in Requests /\ where[r] = "submitted" /\ body'[r] = body[r]
        BY <1>1, <1>2, <2>1 DEF awaited
      <3>2. body[r] \in Bodies /\ body[r].flaws = {}
        BY <3>1, PlacesAre DEF BodyInv
      <3> QED
        BY <1>4, <3>1, <3>2, BodyFrame
    <2>2. CASE ~awaited
      BY <1>1, <2>2 DEF BodyInv
    <2> QED
      BY <2>1, <2>2
  <1>7. ScriptInv'
    <2>1. Calls' = Calls
      BY <1>2, <1>4 DEF Calls, Same, awaited
    <2> QED
      BY <1>1, <2>1 DEF ScriptInv
  <1>8. WorkInv'
    <2>1. ASSUME NEW j \in DOMAIN work', work'[j].by # None
          PROVE  /\ where'[work'[j].by] \in {"submitted", "502"}
                 /\ work'[j].argument = Handed(body[work'[j].by])
      <3>1. PICK k \in DOMAIN work : work'[j] = work[k]
        BY <1>3
      <3>2. work[k].by \in Requests /\ (awaited => work[k].by # r)
        BY <1>3, <2>1, <3>1, WorkTyped DEF awaited
      <3> QED
        BY <1>4, <2>1, <3>1, <3>2 DEF WorkInv, Same
    <2> QED
      BY <1>1, <1>3, <2>1 DEF WorkInv, Handed
  <1>9. AnswerInv'
    <2>1. CASE ~awaited
      BY <1>1, <2>1, AnswersSame
    <2>2. CASE awaited
      <3>1. PICK q \in Requests :
              q = r /\ work[i].argument = Handed(body[q]) /\ where[q] = "submitted"
        BY <1>2, <2>2 DEF awaited
      <3>2. PICK result \in Outcomes(work[i].argument) :
              /\ outcome' = [outcome EXCEPT ![q] = result]
              /\ \E lines \in Outputs(result) : stdout' = [stdout EXCEPT ![q] = lines]
        BY <1>1, <2>2, <3>1
      <3>3. outcome'[q] = result /\ stdout'[q] \in Outputs(result)
        BY <3>2 DEF PathTypes
      <3>4. result \in Generates(Request(body[q]))
        BY <3>1, EncodedAndBack
      <3>5. (Outputs(outcome[q]))' = Outputs(result)
        BY <1>1, <3>3 DEF Outputs
      <3>6. reply'[q] \in {None, CallFailed} /\ CallFailed' = CallFailed
        BY <1>1, <3>1 DEF AnswerInv, AnswerOf, CallFailed
      <3>7. where'[q] = "printed" /\ body'[q] = body[q]
        BY <1>1, <1>4, <2>2, <3>1
      <3>8. AnswerOf(q)'
        BY <3>3, <3>4, <3>5, <3>6, <3>7 DEF AnswerOf
      <3>9. ASSUME NEW o \in Requests \ {q} PROVE AnswerOf(o)'
        BY <1>1, <1>4, <3>1, AnswerKept DEF AnswerInv
      <3> QED
        BY <3>8, <3>9 DEF AnswerInv
    <2> QED
      BY <2>1, <2>2
  <1> QED
    BY <1>5, <1>6, <1>7, <1>8, <1>9

\* The end of a call removes its own script, whole, and no other.
LEMMA EndOfCall ==
    ASSUME PathTypes, ScriptInv, NEW r \in Calls, NEW returned,
           scripts' = Unlinked(r, returned),
           \A q \in Requests \ {r} : Same(q),
           body' = body, path' = path, mode' = mode, where'[r] \notin CallPlaces
    PROVE  /\ scripts' = [p \in Paths |-> scripts'[p]]
           /\ ScriptInv'
  <1>1. r \in Requests /\ Calls' = Calls \ {r}
    BY DEF Calls, CallPlaces, Same
  <1>2. CASE mode = "colab"
    <2>1. path[r] \in Paths /\ scripts' = [scripts EXCEPT ![path[r]] = None]
      BY <1>2 DEF ScriptInv, Unlinked
    <2>2. scripts' = [p \in Paths |-> scripts'[p]]
      BY <2>1 DEF PathTypes
    <2>3. /\ scripts'[path[r]] = None
          /\ \A p \in Paths \ {path[r]} : scripts'[p] = scripts[p]
      BY <2>1 DEF PathTypes
    <2>4. \A q \in Calls \ {r} : path[q] \in Paths \ {path[r]}
      BY <1>2 DEF ScriptInv
    <2> QED
      BY <1>1, <1>2, <2>2, <2>3, <2>4 DEF ScriptInv, Litter
  <1>3. CASE mode # "colab"
    <2>1. scripts' = scripts
      BY <1>3 DEF Unlinked
    <2> QED
      BY <1>1, <1>3, <2>1 DEF ScriptInv, PathTypes
  <1> QED
    BY <1>2, <1>3

LEMMA FinishKeeps == ASSUME PathInv, NEW r \in Requests, Finish(r) PROVE PathInv'
  <1> USE DEF PathInv
  <1> DEFINE result == ExtractMarker(stdout[r])
             own == Generates(Request(body[r]))
  <1>1. /\ where[r] = "printed"
        /\ reply' = [reply EXCEPT ![r] = result]
        /\ where' = [where EXCEPT ![r] = IF result = NoResult THEN "502" ELSE "200"]
        /\ scripts' = Unlinked(r, TRUE)
        /\ stdout' = [stdout EXCEPT ![r] = <<>>]
        /\ UNCHANGED <<mode, engine, body, path, work, outcome>>
    BY DEF Finish, Goes
  <1>2. outcome[r] \in own /\ result = IF outcome[r] = Raised THEN NoResult ELSE outcome[r]
    <2>1. outcome[r] \in own /\ stdout[r] \in Outputs(outcome[r])
      BY <1>1 DEF AnswerInv, AnswerOf
    <2>2. outcome[r] # NotRead
      BY <2>1, ResultsDiffer
    <2> QED
      BY <2>1, <2>2, MarkerFound
  <1>3. outcome[r] # NoResult
    BY <1>2, ResultsDiffer
  <1> HIDE DEF result, own
  <1>4. /\ where'[r] = (IF result = NoResult THEN "502" ELSE "200") /\ reply'[r] = result
        /\ where' \in [Requests -> Places]
        /\ stdout' = [q \in Requests |-> stdout'[q]] /\ reply' = [q \in Requests |-> reply'[q]]
        /\ \A q \in Requests \ {r} :
             Same(q) /\ stdout'[q] = stdout[q] /\ reply'[q] = reply[q]
    BY <1>1, PlacesAre DEF PathTypes, Same
  <1>5. r \in Calls /\ where'[r] \notin CallPlaces /\ body'[r] \in Bodies
        /\ body'[r].flaws = {}
    BY <1>1, <1>4, PlacesAre DEF Calls, CallPlaces, BodyInv
  <1>6. scripts' = [p \in Paths |-> scripts'[p]] /\ ScriptInv'
    BY <1>1, <1>4, <1>5, EndOfCall
  <1>7. PathTypes'
    BY <1>1, <1>4, <1>6, TypesFrame DEF PathTypes
  <1>8. BodyInv'
    BY <1>4, <1>5, BodyFrame
  <1>9. WorkInv'
    BY <1>1, <1>4, WorkFrame
  <1>10. AnswerInv'
    <2>1. AnswerOf(r)'
      <3>1. own' = own /\ NoResult' = NoResult /\ Raised' = Raised
        BY <1>1 DEF own, NoResult, Raised
      <3>2. CASE outcome[r] = Raised
        BY <1>1, <1>2, <1>4, <3>1, <3>2 DEF AnswerOf
      <3>3. CASE outcome[r] # Raised
        BY <1>1, <1>2, <1>3, <1>4, <3>1, <3>3 DEF AnswerOf, own
      <3> QED
        BY <3>2, <3>3
    <2>2. ASSUME NEW q \in Requests \ {r} PROVE AnswerOf(q)'
      BY <1>1, <1>4, AnswerKept DEF AnswerInv
    <2> QED
      BY <2>1, <2>2 DEF AnswerInv
  <1> QED
    BY <1>6, <1>7, <1>8, <1>9, <1>10

LEMMA FailKeeps == ASSUME PathInv, NEW r \in Requests, Fail(r) PROVE PathInv'
  <1> USE DEF PathInv
  <1>1. /\ r \in Calls /\ where'[r] = "502" /\ reply'[r] = CallFailed
        /\ scripts' = Unlinked(r, FALSE)
        /\ UNCHANGED <<mode, engine, body, path, outcome>>
        /\ work' = work \/ \E i \in OwnWork(r) : work' = RemoveAt(work, i)
        /\ where' \in [Requests -> Places]
        /\ stdout' = [q \in Requests |-> stdout'[q]] /\ reply' = [q \in Requests |-> reply'[q]]
        /\ \A q \in Requests \ {r} :
             Same(q) /\ stdout'[q] = stdout[q] /\ reply'[q] = reply[q]
    BY PlacesAre DEF Fail, Goes, PathTypes, Same
  <1>2. body'[r] \in Bodies /\ body'[r].flaws = {}
    BY <1>1, PlacesAre DEF Calls, BodyInv
  <1>3. scripts' = [p \in Paths |-> scripts'[p]] /\ ScriptInv'
    BY <1>1, EndOfCall DEF CallPlaces
  <1>4. /\ work' \in Seq(Jobs)
        /\ \A j \in DOMAIN work' : \E k \in DOMAIN work : work'[j] = work[k]
        /\ \A j, l \in DOMAIN work' :
             work'[j].by # None /\ work'[j].by = work'[l].by => j = l
    <2>1. CASE work' = work
      BY <2>1 DEF PathTypes, WorkInv
    <2>2. ASSUME NEW i \in OwnWork(r), work' = RemoveAt(work, i) PROVE <1>4
      <3>1. i \in DOMAIN work
        BY <2>2 DEF OwnWork
      <3> QED
        BY <2>2, <3>1, WorkRemoved
    <2> QED
      BY <1>1, <2>1, <2>2
  <1>5. PathTypes'
    BY <1>1, <1>3, <1>4, TypesFrame DEF PathTypes
  <1>6. BodyInv'
    BY <1>1, <1>2, BodyFrame
  <1>7. WorkInv'
    <2>1. ASSUME NEW j \in DOMAIN work', work'[j].by # None
          PROVE  /\ where'[work'[j].by] \in {"submitted", "502"}
                 /\ work'[j].argument = Handed(body[work'[j].by])
      <3>1. PICK k \in DOMAIN work : work'[j] = work[k]
        BY <1>4
      <3>2. work[k].by \in Requests
        BY <2>1, <3>1, WorkTyped
      <3> QED
        BY <1>1, <2>1, <3>1, <3>2 DEF WorkInv, Same
    <2> QED
      BY <1>1, <1>4, <2>1 DEF WorkInv, Handed
  <1>8. AnswerInv'
    BY <1>1, AnswerFrame
  <1> QED
    BY <1>3, <1>5, <1>6, <1>7, <1>8

LEMMA WorkerKeeps ==
    ASSUME PathInv, WorkerComes \/ EngineLoads \/ WorkerGoes PROVE PathInv'
  <1> USE DEF PathInv
  <1>1. UNCHANGED <<mode, where, body, path, scripts, stdout, reply, outcome>>
    BY DEF WorkerComes, EngineLoads, WorkerGoes
  <1>2. work' = work \/ work' = <<>>
    BY DEF WorkerComes, EngineLoads, WorkerGoes
  <1>3. engine' \in {"none", "bare", "loaded"}
    BY DEF WorkerComes, EngineLoads, WorkerGoes
  <1>4. PathTypes'
    <2>1. work' \in Seq(Jobs)
      <3>1. work \in Seq(Jobs)
        BY DEF PathTypes
      <3> QED
        BY <1>2, <3>1, EmptySeq
    <2> QED
      BY <1>1, <1>3, <2>1, TypesFrame DEF PathTypes
  <1>5. BodyInv' /\ AnswerInv'
    BY <1>1, AnswersSame DEF BodyInv
  <1>6. ScriptInv'
    BY <1>1 DEF ScriptInv, Calls
  <1>7. WorkInv'
    BY <1>1, <1>2 DEF WorkInv, Handed
  <1> QED
    BY <1>4, <1>5, <1>6, <1>7

\* The end of the process leaves no call, and no computation that is anybody's.
LEMMA EndKeeps == ASSUME PathInv, ProcessEnds PROVE PathInv'
  <1> USE DEF PathInv
  <1>1. /\ mode' = mode /\ reply' = reply
        /\ engine' \in {"none", "bare", "loaded"}
        /\ \A q \in Requests :
             IF where[q] \in UnderWay THEN where'[q] = "idle"
             ELSE Same(q) /\ stdout'[q] = stdout[q] /\ outcome'[q] = outcome[q]
    BY DEF ProcessEnds, Dropped, PathTypes, Same
  <1>2. /\ where' \in [Requests -> Places]
        /\ body' \in [Requests -> Bodies \cup {None}]
        /\ path' \in [Requests -> Paths \cup {None}]
        /\ stdout' = [q \in Requests |-> stdout'[q]]
        /\ outcome' = [q \in Requests |-> outcome'[q]]
    BY PlacesAre DEF ProcessEnds, Dropped, PathTypes
  <1>3. /\ scripts' = [p \in Paths |-> scripts'[p]]
        /\ \A p \in Paths : scripts'[p] \in {None, Litter} /\ (scripts[p] = None => scripts'[p] = None)
    BY DEF ProcessEnds
  <1>4. work' \in Seq(Jobs) /\ \A i \in DOMAIN work' : work'[i].by = None
    <2>1. CASE work' = Orphaned(DOMAIN work)
      BY <2>1, WorkOrphaned
    <2>2. CASE work' = <<>>
      BY <2>2, EmptySeq
    <2> QED
      BY <2>1, <2>2 DEF ProcessEnds
  <1>5. Calls' = {}
    BY <1>1 DEF Calls, UnderWay, Same
  <1>6. PathTypes'
    BY <1>1, <1>2, <1>3, <1>4, TypesFrame DEF PathTypes
  <1>7. BodyInv'
    BY <1>1 DEF BodyInv, Same, Refusals, StatusOf
  <1>8. ScriptInv'
    <2>1. Litter' = Litter
      BY DEF Litter
    <2> QED
      BY <1>1, <1>3, <1>5, <2>1 DEF ScriptInv
  <1>9. WorkInv'
    BY <1>4 DEF WorkInv
  <1>10. AnswerInv'
    <2> SUFFICES ASSUME NEW q \in Requests PROVE AnswerOf(q)'
      BY DEF AnswerInv
    <2>1. CASE where[q] \in UnderWay
      <3>1. reply[q] \in {None, CallFailed} /\ CallFailed' = CallFailed
        BY <2>1 DEF AnswerInv, AnswerOf, UnderWay, CallFailed
      <3> QED
        BY <1>1, <2>1, <3>1 DEF AnswerOf
    <2>2. CASE where[q] \notin UnderWay
      BY <1>1, <2>2, AnswerKept DEF AnswerInv
    <2> QED
      BY <2>1, <2>2
  <1> QED
    BY <1>6, <1>7, <1>8, <1>9, <1>10

LEMMA PathStep == PathInv /\ [Next]_vars => PathInv'
  <1> SUFFICES ASSUME PathInv, [Next]_vars PROVE PathInv'
    OBVIOUS
  <1>1. ASSUME NEW r \in Requests, RequestStep(r) PROVE PathInv'
    BY <1>1, ArriveKeeps, NoWorkerKeeps, CallKeeps, SubmitKeeps, FinishKeeps, FailKeeps,
       RetireKeeps
    DEF RequestStep
  <1>2. ASSUME NEW i \in DOMAIN work, Compute(i) PROVE PathInv'
    BY <1>2, ComputeKeeps
  <1>3. CASE WorkerComes \/ EngineLoads \/ WorkerGoes
    BY <1>3, WorkerKeeps
  <1>4. CASE ProcessEnds
    BY <1>4, EndKeeps
  <1>5. CASE UNCHANGED vars
    <2>1. PathTypes'
      BY <1>5, TypesFrame DEF PathInv, PathTypes
    <2>2. BodyInv' /\ AnswerInv'
      BY <1>5, AnswersSame DEF PathInv, BodyInv
    <2>3. ScriptInv' /\ WorkInv'
      BY <1>5 DEF PathInv, ScriptInv, Calls, WorkInv, Handed
    <2> QED
      BY <2>1, <2>2, <2>3 DEF PathInv
  <1> QED
    BY <1>1, <1>2, <1>3, <1>4, <1>5 DEF Next

LEMMA PathHolds == Spec => []PathInv
  BY InitPath, PathStep, PTL DEF Spec

\* What a request past the checks has sent is what the theorems on content speak of.
LEMMA AcceptedMessages ==
    ASSUME BodyInv, NEW r \in Requests, where[r] \in {"printed", "200", "502"}
    PROVE  Request(body[r]).messages \in Seq(Contents)
  <1>1. body[r] \in Bodies /\ body[r].flaws = {}
    BY PlacesAre DEF BodyInv
  <1> QED
    BY <1>1, BodiesAssumption DEF Contents, Request

----------------------------------------------------------------------------
(* What follows                                                             *)

\* Each 200 carries what the engine makes of that client's own messages, for any
\* number of clients, abandoned computations and left-over files
\* (services/colab_manager.py:133-155, services/colab_driver.py:71-80).
THEOREM EachGetsItsOwn == Spec => []AnswersAreOwn
  <1>1. PathInv => AnswersAreOwn
    BY DEF PathInv, AnswerInv, AnswerOf, AnswersAreOwn
  <1> QED
    BY <1>1, PathHolds, PTL

\* Calls that overlap never share a script, and a whole one is gone with its call,
\* unless the process ends under it (services/colab_manager.py:138-149).
THEOREM ScriptsAreTidied == Spec => []ScriptsTidied
  <1>1. PathInv => ScriptsTidied
    BY DEF PathInv, ScriptInv, ScriptsTidied
  <1> QED
    BY <1>1, PathHolds, PTL

\* Nothing that a check refuses reaches the worker, and nothing reaches it twice
\* (api/chat.py:48-62, services/worker_manager.py:61-65).
THEOREM WorkIsForTheAdmitted == Spec => []WorkIsOwned
  <1>1. PathInv => WorkIsOwned
    <2> SUFFICES ASSUME PathInv PROVE WorkIsOwned
      OBVIOUS
    <2>1. ASSUME NEW i \in DOMAIN work, work[i].by # None
          PROVE  where[work[i].by] \in {"submitted", "502"} /\ body[work[i].by].flaws = {}
      <3>1. work[i].by \in Requests /\ where[work[i].by] \in {"submitted", "502"}
        BY <2>1, WorkTyped DEF PathInv, WorkInv
      <3> QED
        BY <3>1, PlacesAre DEF PathInv, BodyInv
    <2> QED
      BY <2>1 DEF PathInv, WorkInv, WorkIsOwned
  <1> QED
    BY <1>1, PathHolds, PTL

\* Types; and what reaches the kernel is always a string literal.
THEOREM PathTypesCorrect == Spec => []PathTypeOK
  <1>1. PathInv => PathTypeOK
    <2> SUFFICES ASSUME PathInv PROVE PathTypeOK
      OBVIOUS
    <2>1. ASSUME NEW p \in Paths
          PROVE  scripts[p] = None
                   \/ (mode = "colab" /\ scripts[p].kind \in {"literal", "litter"})
      <3>1. CASE scripts[p] \in {None, Litter}
        BY <3>1 DEF PathInv, ScriptInv, Litter
      <3>2. CASE scripts[p] \notin {None, Litter}
        <4>1. mode = "colab"
          BY <3>2 DEF PathInv, ScriptInv
        <4>2. PICK r \in Calls : scripts[p] = Argument(Request(body[r]))
          BY <3>2, <4>1 DEF PathInv, ScriptInv
        <4> QED
          BY <4>1, <4>2 DEF Argument, Literal
      <3> QED
        BY <3>1, <3>2
    <2>2. ASSUME NEW i \in DOMAIN work
          PROVE  /\ work[i].by \in Requests \cup {None}
                 /\ work[i].argument.kind = IF mode = "colab" THEN "literal" ELSE "json"
      BY WorkTyped DEF PathInv, Jobs, Handed, Argument, Literal, Json
    <2>3. ASSUME NEW r \in Requests, where[r] = "200"
          PROVE  reply[r] \notin {Raised, NotRead, CallFailed, NoResult}
      BY <2>3, ResultsDiffer DEF PathInv, AnswerInv, AnswerOf
    <2> QED
      BY <2>1, <2>2, <2>3 DEF PathInv, PathTypes, PathTypeOK
  <1> QED
    BY <1>1, PathHolds, PTL

\* Each 200 has been computed from the client's messages in the client's order, and
\* its `images` describes their images one by one, over all messages
\* (worker/inference.py:117-123,126-176).
THEOREM ContentIsInOrder == Spec => []ContentInOrder
  <1>1. PathInv => ContentInOrder
    <2> SUFFICES ASSUME PathInv, NEW r \in Requests, where[r] = "200"
                 PROVE  reply[r] = Expected(body[r].messages)
      BY DEF ContentInOrder
    <2>1. reply[r] \in Generates(Request(body[r])) /\ reply[r] # Raised
      BY DEF PathInv, AnswerInv, AnswerOf
    <2>2. reply[r] = Expected(Request(body[r]).messages)
      BY <2>1, AcceptedMessages, GenerateTells DEF PathInv
    <2> QED
      BY <2>2 DEF Request
  <1> QED
    BY <1>1, PathHolds, PTL

\* What the engine came to is what the client is told: the double encoding and the
\* search for the marker lose no result, and make none of an exception
\* (services/colab_driver.py:18-25,71-80, worker/bootstrap.py:47-57).
THEOREM OutcomeIsKept == Spec => []OutcomeKept
  <1>1. PathInv => OutcomeKept
    <2> SUFFICES ASSUME PathInv, NEW r \in Requests, reply[r] \notin {None, CallFailed}
                 PROVE  reply[r] = IF outcome[r] = Raised THEN NoResult ELSE outcome[r]
      BY DEF OutcomeKept
    <2> QED
      BY DEF PathInv, AnswerInv, AnswerOf
  <1> QED
    BY <1>1, PathHolds, PTL

----------------------------------------------------------------------------
(* The path of a request implements the abstract chat completion            *)

LEMMA StageIs ==
    /\ Stage["idle"] = "idle"
    /\ \A place \in {"admitted", "calling", "submitted", "printed"} : Stage[place] = "open"
    /\ \A place \in Refusals \cup {"503"} : Stage[place] = "refused"
    /\ Stage["200"] = "answered" /\ Stage["502"] = "failed"
  BY PlacesAre DEF Stage

Staged == [q \in Requests |-> Stage[where[q]]]

\* What the client sees of a request that goes to another place.
LEMMA StageGoes ==
    ASSUME PathTypes, NEW r \in Requests, NEW place, Goes(r, place)
    PROVE  /\ Staged' = [Staged EXCEPT ![r] = Stage[place]]
           /\ Staged[r] = Stage[where[r]]
  <1>1. where' = [where EXCEPT ![r] = place] /\ where = [q \in Requests |-> where[q]]
    BY DEF Goes, PathTypes
  <1>2. \A q \in Requests : where'[q] = IF q = r THEN place ELSE where[q]
    BY <1>1
  <1>3. Staged' = [q \in Requests |-> Stage[where'[q]]]
    BY DEF Staged, Stage
  <1>4. [Staged EXCEPT ![r] = Stage[place]]
          = [q \in Requests |-> IF q = r THEN Stage[place] ELSE Stage[where[q]]]
    BY DEF Staged
  <1> QED
    BY <1>2, <1>3, <1>4 DEF Staged

\* A request that goes on without its client seeing it.
LEMMA StageStays ==
    ASSUME PathTypes, NEW r \in Requests, NEW place, Goes(r, place),
           Stage[place] = Stage[where[r]]
    PROVE  Staged' = Staged
  BY DEF Goes, PathTypes, Staged, Stage

LEMMA MappedStutter ==
    ASSUME Staged' = Staged, body' = body, reply' = reply
    PROVE  UNCHANGED Completion!vars
  BY DEF Completion!vars, Staged

LEMMA MappedSend ==
    ASSUME PathTypes, NEW r \in Requests, Arrive(r)
    PROVE  Completion!Send(r)
  <1>1. PICK b \in Bodies, limiter \in Limiter :
          body' = [body EXCEPT ![r] = b] /\ Goes(r, Verdict(b.flaws \cup limiter))
    BY DEF Arrive
  <1> DEFINE place == Verdict(b.flaws \cup limiter)
  <1>2. place \in {"admitted"} \cup Refusals /\ (place = "admitted" => b.flaws = {})
    <2>1. b.flaws \cup limiter \subseteq DOMAIN StatusOf
      BY FlawsAssumption DEF StatusOf, Limiter
    <2> QED
      BY <2>1, VerdictTells
  <1>3. Staged' = [Staged EXCEPT ![r] = Stage[place]] /\ Staged[r] = "idle"
    BY <1>1, StageGoes, StageIs DEF Arrive
  <1>4. Stage[place] = "refused" \/ (Stage[place] = "open" /\ b.flaws = {})
    BY <1>2, StageIs
  <1>5. reply' = reply
    BY DEF Arrive
  <1> HIDE DEF place
  <1> QED
    BY <1>1, <1>3, <1>4, <1>5 DEF Completion!Send, Completion!Open, Staged

LEMMA MappedTurnAway ==
    ASSUME PathTypes, NEW r \in Requests, NoWorker(r)
    PROVE  Completion!TurnAway(r)
  <1>1. Staged' = [Staged EXCEPT ![r] = "refused"] /\ Staged[r] = "open"
    BY StageGoes, StageIs DEF NoWorker
  <1> QED
    BY <1>1 DEF NoWorker, Completion!TurnAway, Completion!Open, Staged

\* A call that fails, before it has begun or while it is under way.
LEMMA MappedFail ==
    ASSUME PathTypes, NEW r \in Requests, Stage[where[r]] = "open", Goes(r, "502"),
           \E failure \in {CallFailed, NoResult} : reply' = [reply EXCEPT ![r] = failure],
           body' = body
    PROVE  Completion!Fail(r)
  <1>1. Staged' = [Staged EXCEPT ![r] = "failed"] /\ Staged[r] = "open"
    BY StageGoes, StageIs
  <1> QED
    BY <1>1 DEF Completion!Fail, Completion!Open, Staged

\* What a call returns becomes the answer, or a failure.
LEMMA MappedFinish ==
    ASSUME PathInv, NEW r \in Requests, Finish(r)
    PROVE  Completion!Answer(r) \/ Completion!Fail(r)
  <1> USE DEF PathInv
  <1> DEFINE result == ExtractMarker(stdout[r])
  <1>1. /\ where[r] = "printed" /\ body' = body
        /\ reply' = [reply EXCEPT ![r] = result]
        /\ Goes(r, IF result = NoResult THEN "502" ELSE "200")
    BY DEF Finish
  <1>2. /\ outcome[r] \in Generates(Request(body[r]))
        /\ result = IF outcome[r] = Raised THEN NoResult ELSE outcome[r]
    <2>1. outcome[r] \in Generates(Request(body[r])) /\ stdout[r] \in Outputs(outcome[r])
      BY <1>1 DEF AnswerInv, AnswerOf
    <2>2. outcome[r] # NotRead
      BY <2>1, ResultsDiffer
    <2> QED
      BY <2>1, <2>2, MarkerFound
  <1>3. outcome[r] # NoResult
    BY <1>2, ResultsDiffer
  <1>4. Stage[where[r]] = "open"
    BY <1>1, StageIs
  <1> HIDE DEF result
  <1>5. CASE outcome[r] = Raised
    BY <1>1, <1>2, <1>4, <1>5, MappedFail
  <1>6. CASE outcome[r] # Raised
    <2>1. Takes(Request(body[r])) /\ outcome[r] = Expected(Request(body[r]).messages)
      BY <1>1, <1>2, <1>6, AcceptedMessages, GenerateTells
    <2>2. Takes(body[r]) /\ outcome[r] = Result(body[r])
      BY <2>1 DEF Takes, Result, Request
    <2>3. Goes(r, "200") /\ reply' = [reply EXCEPT ![r] = Result(body[r])]
      BY <1>1, <1>2, <1>3, <1>6, <2>2
    <2>4. Staged' = [Staged EXCEPT ![r] = "answered"] /\ Staged[r] = "open"
      BY <1>4, <2>3, StageGoes, StageIs
    <2> QED
      BY <1>1, <2>2, <2>3, <2>4 DEF Completion!Answer, Completion!Open, Staged
  <1> QED
    BY <1>5, <1>6

LEMMA MappedRetire ==
    ASSUME PathTypes, NEW r \in Requests, Retire(r)
    PROVE  Completion!Retire(r)
  <1>1. Staged' = [Staged EXCEPT ![r] = "idle"] /\ Staged[r] = Stage[where[r]]
    BY StageGoes, StageIs DEF Retire
  <1>2. Stage[where[r]] \in {"refused", "failed", "answered"}
    BY StageIs DEF Retire, Statuses
  <1> QED
    BY <1>1, <1>2 DEF Retire, Completion!Retire, Completion!Final, Staged

\* The end of the process is the end of the service.
LEMMA MappedEnd ==
    ASSUME PathTypes, ProcessEnds
    PROVE  Completion!Abort
  <1>1. \A q \in Requests : where[q] \in UnderWay <=> Staged[q] = "open"
    BY PlacesAre DEF PathTypes, Staged, Stage, UnderWay
  <1>2. Staged' = [q \in Requests |-> IF Staged[q] = "open" THEN "idle" ELSE Staged[q]]
    <2>1. Staged' = [q \in Requests |-> Stage[where'[q]]]
      BY DEF Staged, Stage
    <2>2. \A q \in Requests : where'[q] = IF Staged[q] = "open" THEN "idle" ELSE where[q]
      BY <1>1 DEF ProcessEnds, Dropped
    <2>3. \A q \in Requests :
            Stage[where'[q]] = IF Staged[q] = "open" THEN "idle" ELSE Staged[q]
      BY <2>2, StageIs DEF Staged
    <2> QED
      BY <2>1, <2>3
  <1>3. body' = [q \in Requests |-> IF Staged[q] = "open" THEN None ELSE body[q]]
    BY <1>1 DEF ProcessEnds, Dropped
  <1>4. reply' = reply
    BY DEF ProcessEnds
  <1> QED
    BY <1>2, <1>3, <1>4 DEF Completion!Abort, Completion!Open, Staged

\* Every step is one of the abstract completion's, or one that no client sees: the
\* output of a computation that nobody awaits any more is such a step.
LEMMA MappedNext == PathInv /\ [Next]_vars => [Completion!Next]_(Completion!vars)
  <1> SUFFICES ASSUME PathInv, [Next]_vars PROVE [Completion!Next]_(Completion!vars)
    OBVIOUS
  <1> USE DEF PathInv
  <1>1. ASSUME NEW r \in Requests, Arrive(r) PROVE [Completion!Next]_(Completion!vars)
    BY <1>1, MappedSend DEF Completion!Next
  <1>2. ASSUME NEW r \in Requests, NoWorker(r) PROVE [Completion!Next]_(Completion!vars)
    BY <1>2, MappedTurnAway DEF Completion!Next
  <1>3. ASSUME NEW r \in Requests, Call(r) PROVE [Completion!Next]_(Completion!vars)
    <2>1. Stage[where[r]] = "open" /\ body' = body
      BY <1>3, StageIs DEF Call
    <2>2. CASE Goes(r, "calling") /\ reply' = reply
      <3>1. Staged' = Staged
        BY <2>1, <2>2, StageStays, StageIs
      <3> QED
        BY <2>1, <2>2, <3>1, MappedStutter
    <2>3. CASE Goes(r, "502") /\ reply' = [reply EXCEPT ![r] = CallFailed]
      BY <2>1, <2>3, MappedFail DEF Completion!Next
    <2> QED
      BY <1>3, <2>2, <2>3 DEF Call
  <1>4. ASSUME NEW r \in Requests, Submit(r) PROVE [Completion!Next]_(Completion!vars)
    <2>1. Staged' = Staged
      BY <1>4, StageStays, StageIs DEF Submit
    <2> QED
      BY <1>4, <2>1, MappedStutter DEF Submit
  <1>5. ASSUME NEW r \in Requests, Finish(r) PROVE [Completion!Next]_(Completion!vars)
    BY <1>5, MappedFinish DEF Completion!Next
  <1>6. ASSUME NEW r \in Requests, Fail(r) PROVE [Completion!Next]_(Completion!vars)
    <2>1. Stage[where[r]] = "open"
      BY <1>6, StageIs DEF Fail, Calls
    <2> QED
      BY <1>6, <2>1, MappedFail DEF Fail, Completion!Next
  <1>7. ASSUME NEW r \in Requests, Retire(r) PROVE [Completion!Next]_(Completion!vars)
    BY <1>7, MappedRetire DEF Completion!Next
  <1>8. ASSUME NEW i \in DOMAIN work, Compute(i) PROVE [Completion!Next]_(Completion!vars)
    <2> DEFINE r == work[i].by
    <2>1. r # None => r \in Requests
      BY WorkTyped
    <2>2. body' = body /\ reply' = reply
      BY <1>8 DEF Compute
    <2>3. CASE r # None /\ Awaited(r)
      <3>1. Goes(r, "printed") /\ where[r] = "submitted"
        BY <1>8, <2>3 DEF Compute, Awaited
      <3> HIDE DEF r
      <3>2. Staged' = Staged
        BY <2>1, <2>3, <3>1, StageStays, StageIs
      <3> QED
        BY <2>2, <3>2, MappedStutter
    <2>4. CASE ~(r # None /\ Awaited(r))
      <3>1. where' = where
        BY <1>8, <2>4 DEF Compute
      <3>2. Staged' = Staged
        BY <3>1 DEF Staged
      <3> QED
        BY <2>2, <3>2, MappedStutter
    <2> QED
      BY <2>3, <2>4
  <1>9. CASE WorkerComes \/ EngineLoads \/ WorkerGoes \/ UNCHANGED vars
    <2>1. where' = where /\ body' = body /\ reply' = reply
      BY <1>9 DEF WorkerComes, EngineLoads, WorkerGoes
    <2>2. Staged' = Staged
      BY <2>1 DEF Staged
    <2> QED
      BY <2>1, <2>2, MappedStutter
  <1>10. CASE ProcessEnds
    BY <1>10, MappedEnd DEF Completion!Next
  <1> QED
    BY <1>1, <1>2, <1>3, <1>4, <1>5, <1>6, <1>7, <1>8, <1>9, <1>10 DEF Next, RequestStep

\* Each request gets at most one answer, a 200 only with what the model makes of its
\* own messages, and no late output, left-over file, lost engine or end of the process
\* changes it (api/chat.py:48-95, services/colab_manager.py:138-155).
THEOREM PathIsCompletion == Spec => ImplementsCompletion
  <1>1. Init => Completion!Init
    BY StageIs DEF Init, Completion!Init
  <1> QED
    BY <1>1, MappedNext, PathHolds, PTL DEF Spec, ImplementsCompletion, Completion!Spec

=============================================================================
