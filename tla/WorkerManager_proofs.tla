------------------------ MODULE WorkerManager_proofs ------------------------
(***************************************************************************)
(* Proofs about WorkerManager, for every value of its constants.           *)
(*                                                                         *)
(* The inductive invariant is built in three layers, each inductive over   *)
(* the ones before it: the semaphore with the types (SlotInv), the startup *)
(* future (FlightInv), and the ages of what is in flight (AgeInv).         *)
(***************************************************************************)
EXTENDS WorkerManager, TLAPS, FiniteSetTheorems

USE DEF vars, statusVars, startupVars, requestVars, semaphoreVars, loopVars

----------------------------------------------------------------------------
(* Layer 1: types and slots                                                 *)

\* The waiters of the semaphore are the queued requests, each once.
QueueOK ==
    /\ \A i \in 1..Len(sem_queue) : req[sem_queue[i]] = "queued"
    /\ \A i, j \in 1..Len(sem_queue) : sem_queue[i] = sem_queue[j] => i = j
    /\ \A r \in Requests : req[r] = "queued" => \E i \in 1..Len(sem_queue) : sem_queue[i] = r

SlotCount == sem_value + Cardinality(Holders) = MaxConcurrent

\* A startup that waits to try again has an attempt left.
RetryLeft == \A t \in Tasks : task[t] = "backoff" => attempt[t] < MaxRetries

SlotInv == TypeOK /\ QueueOK /\ SlotCount /\ QueueServed /\ RetryLeft

\* The holders are finitely many, so that they can be counted.
LEMMA HoldersFinite == IsFiniteSet(Holders) /\ Cardinality(Holders) \in Nat
  <1>1. Holders \subseteq Requests
    BY DEF Holders
  <1> QED
    BY <1>1, RequestsAssumption, FS_Subset, FS_CardinalityType

\* How many waiters are woken: no more than wait, nor than there are slots; and
\* one at least, if one waits and there is a slot.
LEMMA WokenBounds ==
  ASSUME sem_queue \in Seq(Requests), NEW v \in Nat
  PROVE  /\ FirstWaiter(v) \in 0..Len(sem_queue) /\ FirstWaiter(v) <= v
         /\ AllThatFit(v) \in 0..Len(sem_queue) /\ AllThatFit(v) <= v
         /\ v > 0 /\ sem_queue # <<>> => FirstWaiter(v) > 0 /\ AllThatFit(v) > 0
  BY DEF FirstWaiter, AllThatFit

\* Handing slots over keeps the queue exact: it takes out its first n only, which
\* become granted.
LEMMA HandOverQueue ==
  ASSUME sem_queue \in Seq(Requests), req \in [Requests -> RequestPhases], QueueOK,
         NEW r \in Requests, req[r] # "queued",
         NEW p \in RequestPhases, p # "queued",
         NEW v \in Nat, NEW n \in 0..Len(sem_queue),
         HandOver([req EXCEPT ![r] = p], v, n)
  PROVE  /\ QueueOK'
         /\ sem_queue' \in Seq(Requests)
         /\ req' \in [Requests -> RequestPhases]
         /\ req'[r] = p
         /\ \A s \in Requests \ {r} :
              req'[s] = req[s] \/ (req[s] = "queued" /\ req'[s] = "granted")
  <1> DEFINE Woken(s) == \E i \in 1..n : sem_queue[i] = s
  <1>1. \A i \in 1..Len(sem_queue) :
          sem_queue[i] \in Requests \ {r} /\ req[sem_queue[i]] = "queued"
    BY DEF QueueOK
  <1>2. req' = [s \in Requests |->
                  IF Woken(s) THEN "granted" ELSE [req EXCEPT ![r] = p][s]]
    BY DEF HandOver
  <1>3. \A i \in 1..n : i \in 1..Len(sem_queue)
    OBVIOUS
  <1>4. ~Woken(r)
    BY <1>1, <1>3
  <1>5. \A s \in Requests : Woken(s) => req[s] = "queued" /\ req'[s] = "granted"
    BY <1>1, <1>2, <1>3
  <1>6. \A s \in Requests \ {r} : ~Woken(s) => req'[s] = req[s]
    BY <1>2
  <1>7. req'[r] = p
    BY <1>2, <1>4
  <1>8. req' \in [Requests -> RequestPhases]
    BY <1>2 DEF RequestPhases
  <1>9. /\ Len(sem_queue') = Len(sem_queue) - n
        /\ \A i \in 1..Len(sem_queue') : sem_queue'[i] = sem_queue[i + n]
        /\ sem_queue' \in Seq(Requests)
    <2>1. sem_queue' = SubSeq(sem_queue, n + 1, Len(sem_queue))
      BY DEF HandOver
    <2>2. Len(sem_queue) \in Nat /\ n \in Nat /\ n <= Len(sem_queue)
      OBVIOUS
    <2>3. Len(sem_queue') = Len(sem_queue) - n
      BY <2>1, <2>2
    <2>4. \A i \in 1..Len(sem_queue') : sem_queue'[i] = sem_queue[i + n]
      BY <2>1, <2>2, <2>3
    <2>5. sem_queue' \in Seq(Requests)
      BY <2>1, <2>2
    <2> QED
      BY <2>3, <2>4, <2>5
  <1>10. \A i \in 1..Len(sem_queue') : i + n \in 1..Len(sem_queue) /\ i + n \notin 1..n
    BY <1>9
  <1> HIDE DEF Woken
  <1>11. \A i \in 1..Len(sem_queue') : req'[sem_queue'[i]] = "queued"
    <2> SUFFICES ASSUME NEW i \in 1..Len(sem_queue') PROVE req'[sem_queue'[i]] = "queued"
      OBVIOUS
    <2>1. sem_queue'[i] = sem_queue[i + n] /\ i + n \in 1..Len(sem_queue) /\ i + n \notin 1..n
      BY <1>9, <1>10
    <2>2. ~Woken(sem_queue[i + n])
      BY <1>3, <2>1 DEF Woken, QueueOK
    <2> QED
      BY <1>1, <1>6, <2>1, <2>2
  <1>12. \A i, j \in 1..Len(sem_queue') : sem_queue'[i] = sem_queue'[j] => i = j
    <2> SUFFICES ASSUME NEW i \in 1..Len(sem_queue'), NEW j \in 1..Len(sem_queue'),
                        sem_queue'[i] = sem_queue'[j]
                 PROVE  i = j
      OBVIOUS
    <2>1. i + n = j + n
      BY <1>9, <1>10 DEF QueueOK
    <2> QED
      BY <2>1, <1>9
  <1>13. ASSUME NEW s \in Requests, req'[s] = "queued"
         PROVE  \E i \in 1..Len(sem_queue') : sem_queue'[i] = s
    <2>1. s # r /\ ~Woken(s)
      BY <1>5, <1>7, <1>13
    <2>2. req[s] = "queued"
      BY <1>6, <1>13, <2>1
    <2>3. PICK i \in 1..Len(sem_queue) : sem_queue[i] = s
      BY <2>2 DEF QueueOK
    <2>4. i \notin 1..n
      BY <2>1, <2>3 DEF Woken
    <2>5. i - n \in 1..Len(sem_queue') /\ (i - n) + n = i
      BY <2>4, <1>9
    <2>6. sem_queue'[i - n] = s
      BY <2>3, <2>5, <1>9
    <2> QED
      BY <2>5, <2>6
  <1> QED
    BY <1>5, <1>6, <1>7, <1>8, <1>9, <1>11, <1>12, <1>13 DEF QueueOK

\* The requests that hold a slot when the requests are where `phase` says.
HoldersIn(phase) == {s \in Requests : phase[s] \in {"granted", "inferring"}}

\* The first n waiters are n requests.
LEMMA WaitersCounted ==
  ASSUME sem_queue \in Seq(Requests), QueueOK, NEW n \in 0..Len(sem_queue)
  PROVE  LET W == {sem_queue[i] : i \in 1..n} IN IsFiniteSet(W) /\ Cardinality(W) = n
  <1> DEFINE W == {sem_queue[i] : i \in 1..n}
             f == [i \in 1..n |-> sem_queue[i]]
  <1>1. n \in Nat /\ \A i \in 1..n : i \in 1..Len(sem_queue)
    OBVIOUS
  <1>2. f \in Bijection(1..n, W)
    <2>1. f \in [1..n -> W] /\ \A w \in W : \E i \in 1..n : f[i] = w
      OBVIOUS
    <2>2. \A i, j \in 1..n : f[i] = f[j] => i = j
      BY <1>1 DEF QueueOK
    <2> QED
      BY <2>1, <2>2 DEF Bijection, Injection, Surjection, IsInjective
  <1>3. ExistsBijection(1..n, W)
    BY <1>2 DEF ExistsBijection
  <1>4. IsFiniteSet(1..n) /\ Cardinality(1..n) = n
    BY <1>1, FS_Interval
  <1> HIDE DEF W
  <1>5. IsFiniteSet(W) /\ Cardinality(W) = n
    BY <1>3, <1>4, FS_Bijection
  <1> QED
    BY <1>5 DEF W

\* Whoever holds a slot in `phase`, and whoever is woken, holds one afterwards.
LEMMA HandOverSlots ==
  ASSUME sem_queue \in Seq(Requests), req \in [Requests -> RequestPhases], QueueOK,
         NEW r \in Requests, req[r] # "queued",
         NEW p \in RequestPhases, p # "queued",
         NEW v \in Nat, NEW n \in 0..Len(sem_queue), n <= v,
         v > 0 /\ sem_queue # <<>> => n > 0,
         HandOver([req EXCEPT ![r] = p], v, n)
  PROVE  /\ sem_value' \in 0..v
         /\ sem_value' + Cardinality(Holders') = v + Cardinality(HoldersIn([req EXCEPT ![r] = p]))
         /\ HoldersIn([req EXCEPT ![r] = p]) \subseteq Holders'
         /\ v > 0 /\ sem_queue' # <<>> => Holders' # {}
  <1> DEFINE phase == [req EXCEPT ![r] = p]
             K == HoldersIn(phase)
             W == {sem_queue[i] : i \in 1..n}
  <1>1. K \subseteq Requests
    BY DEF HoldersIn
  <1>2. \A w \in W : w \in Requests \ {r} /\ req[w] = "queued"
    BY DEF QueueOK
  <1>3. K \cap W = {}
    BY <1>2 DEF HoldersIn
  <1>4. Holders' = K \cup W
    <2>1. req' = [s \in Requests |-> IF s \in W THEN "granted" ELSE phase[s]]
      BY DEF HandOver
    <2>2. W \subseteq Requests
      BY <1>2
    <2> HIDE DEF W, phase
    <2> QED
      BY <2>1, <2>2 DEF Holders, HoldersIn
  <1>5. IsFiniteSet(W) /\ Cardinality(W) = n
    BY WaitersCounted
  <1>6. sem_value' = v - n /\ sem_value' \in 0..v /\ n \in Nat
    BY DEF HandOver
  <1>7. sem_queue' # <<>> => sem_queue # <<>>
    BY DEF HandOver
  <1> HIDE DEF K, W
  <1>8. IsFiniteSet(K) /\ Cardinality(K) \in Nat
    BY <1>1, RequestsAssumption, FS_Subset, FS_CardinalityType
  <1>9. Cardinality(Holders') = Cardinality(K) + n
    <2>1. Cardinality(K \cap W) = 0
      BY <1>3, FS_EmptySet
    <2>2. Cardinality(K \cup W) = Cardinality(K) + Cardinality(W) - Cardinality(K \cap W)
      BY <1>5, <1>8, FS_Union
    <2>3. Cardinality(K \cup W) = Cardinality(K) + n
      BY <1>5, <1>6, <1>8, <2>1, <2>2
    <2> QED
      BY <1>4, <2>3
  <1>10. v > 0 /\ sem_queue' # <<>> => Holders' # {}
    <2> SUFFICES ASSUME v > 0, sem_queue' # <<>> PROVE Holders' # {}
      OBVIOUS
    <2>1. Cardinality(W) # 0
      BY <1>5, <1>6, <1>7
    <2>2. W # {}
      BY <1>5, <2>1, FS_EmptySet
    <2> QED
      BY <1>4, <2>2
  <1>11. sem_value' + Cardinality(Holders') = v + Cardinality(K)
    BY <1>6, <1>8, <1>9
  <1> QED
    BY <1>4, <1>6, <1>10, <1>11 DEF K

\* A request that enters takes a slot, or the queue's last place behind holders.
LEMMA EnterInferenceSlots ==
  ASSUME SlotInv, NEW r \in Requests, req[r] \notin {"queued", "granted", "inferring"},
         EnterInference(r)
  PROVE  /\ QueueOK' /\ SlotCount' /\ QueueServed'
         /\ sem_queue' \in Seq(Requests)
         /\ sem_value' \in 0..MaxConcurrent
         /\ req' \in [Requests -> RequestPhases]
         /\ req'[r] \in {"queued", "inferring"}
         /\ \A s \in Requests \ {r} : req'[s] = req[s]
         /\ req'[r] = "inferring" => last_request' = 0
         /\ req'[r] = "queued" => last_request' = last_request
  <1> USE DEF SlotInv, TypeOK
  <1>1. r \notin Holders
    BY DEF Holders
  <1>2. CASE Locked
    <2>1. /\ req' = [req EXCEPT ![r] = "queued"]
          /\ sem_queue' = Append(sem_queue, r)
          /\ sem_value' = sem_value /\ last_request' = last_request
      BY <1>2 DEF EnterInference
    <2>2. /\ Len(sem_queue') = Len(sem_queue) + 1
          /\ sem_queue'[Len(sem_queue) + 1] = r
          /\ \A i \in 1..Len(sem_queue) : sem_queue'[i] = sem_queue[i]
          /\ sem_queue' \in Seq(Requests)
      BY <2>1
    <2>3. /\ req'[r] = "queued"
          /\ \A s \in Requests \ {r} : req'[s] = req[s]
          /\ req' \in [Requests -> RequestPhases]
      BY <2>1 DEF RequestPhases
    <2>4. \A i \in 1..Len(sem_queue) : sem_queue[i] \in Requests /\ sem_queue[i] # r
      BY DEF QueueOK
    <2>5. QueueOK'
      <3>1. \A i \in 1..Len(sem_queue') : i \in 1..Len(sem_queue) \/ i = Len(sem_queue) + 1
        BY <2>2
      <3>2. ASSUME NEW i \in 1..Len(sem_queue') PROVE req'[sem_queue'[i]] = "queued"
        <4>1. CASE i \in 1..Len(sem_queue)
          <5>1. sem_queue'[i] \in Requests \ {r} /\ req[sem_queue'[i]] = "queued"
            BY <4>1, <2>2, <2>4 DEF QueueOK
          <5> QED
            BY <5>1, <2>3
        <4>2. CASE i = Len(sem_queue) + 1
          BY <4>2, <2>2, <2>3
        <4> QED
          BY <4>1, <4>2, <3>1
      <3>3. ASSUME NEW i \in 1..Len(sem_queue'), NEW j \in 1..Len(sem_queue'),
                   sem_queue'[i] = sem_queue'[j]
            PROVE  i = j
        <4>1. CASE i \in 1..Len(sem_queue) /\ j \in 1..Len(sem_queue)
          <5>1. sem_queue[i] = sem_queue[j]
            BY <4>1, <3>3, <2>2
          <5> QED
            BY <4>1, <5>1 DEF QueueOK
        <4>2. CASE i = Len(sem_queue) + 1 \/ j = Len(sem_queue) + 1
          BY <4>2, <3>1, <3>3, <2>2, <2>4
        <4> QED
          BY <4>1, <4>2, <3>1
      <3>4. ASSUME NEW s \in Requests, req'[s] = "queued"
            PROVE  \E i \in 1..Len(sem_queue') : sem_queue'[i] = s
        <4>1. CASE s = r
          <5>1. Len(sem_queue) + 1 \in 1..Len(sem_queue')
            BY <2>2
          <5> QED
            BY <4>1, <5>1, <2>2
        <4>2. CASE s # r
          <5>0. req[s] = "queued"
            BY <4>2, <3>4, <2>3
          <5>1. PICK i \in 1..Len(sem_queue) : sem_queue[i] = s
            BY <5>0 DEF QueueOK
          <5>2. i \in 1..Len(sem_queue') /\ sem_queue'[i] = s
            BY <5>1, <2>2
          <5> QED
            BY <5>2
        <4> QED
          BY <4>1, <4>2
      <3> QED
        BY <3>2, <3>3, <3>4 DEF QueueOK
    <2>6. Holders' = Holders
      BY <2>3, <1>1 DEF Holders
    <2>7. Holders # {}
      <3>1. CASE sem_value = 0
        <4>1. Cardinality(Holders) # 0
          BY <3>1, LimitsAssumption, HoldersFinite DEF SlotCount
        <4> QED
          BY <4>1, FS_EmptySet
      <3>2. CASE sem_queue # <<>>
        BY <3>2 DEF QueueServed
      <3>3. CASE \E s \in Requests : req[s] = "granted"
        BY <3>3 DEF Holders
      <3> QED
        BY <1>2, <3>1, <3>2, <3>3 DEF Locked
    <2>8. SlotCount' /\ QueueServed'
      BY <2>1, <2>6, <2>7 DEF SlotCount, QueueServed
    <2> QED
      BY <2>1, <2>2, <2>3, <2>5, <2>8
  <1>3. CASE ~Locked
    <2>1. /\ req' = [req EXCEPT ![r] = "inferring"]
          /\ sem_queue' = sem_queue /\ sem_value' = sem_value - 1 /\ last_request' = 0
      BY <1>3 DEF EnterInference
    <2>2. sem_value > 0 /\ sem_queue = <<>>
      BY <1>3 DEF Locked
    <2>3. /\ req'[r] = "inferring"
          /\ \A s \in Requests \ {r} : req'[s] = req[s]
          /\ req' \in [Requests -> RequestPhases]
      BY <2>1 DEF RequestPhases
    <2>4. Holders' = Holders \cup {r}
      BY <2>3 DEF Holders
    <2>5. Cardinality(Holders') = Cardinality(Holders) + 1
      BY <2>4, <1>1, HoldersFinite, FS_AddElement
    <2>6. SlotCount' /\ sem_value' \in 0..MaxConcurrent
      BY <2>1, <2>2, <2>5, HoldersFinite, LimitsAssumption DEF SlotCount
    <2>7. QueueOK' /\ QueueServed'
      BY <2>1, <2>2, <2>3 DEF QueueOK, QueueServed
    <2> QED
      BY <2>1, <2>2, <2>3, <2>6, <2>7
  <1> QED
    BY <1>2, <1>3

\* A step that leaves the semaphore alone, and moves no request into, out of or
\* between the phases that concern it.
LEMMA SlotFrame ==
  ASSUME SlotInv, req' \in [Requests -> RequestPhases], UNCHANGED semaphoreVars,
         \A s \in Requests :
            req'[s] = req[s] \/ {req[s], req'[s]} \cap {"queued", "granted", "inferring"} = {}
  PROVE  QueueOK' /\ SlotCount' /\ QueueServed'
  <1> USE DEF SlotInv, TypeOK
  <1>1. \A s \in Requests : req'[s] = "queued" <=> req[s] = "queued"
    OBVIOUS
  <1>2. Holders' = Holders
    BY DEF Holders
  <1>3. \A i \in 1..Len(sem_queue) : sem_queue[i] \in Requests
    OBVIOUS
  <1> QED
    BY <1>1, <1>2, <1>3 DEF QueueOK, SlotCount, QueueServed

LEMMA SlotInit == Init => SlotInv
  <1> SUFFICES ASSUME Init PROVE SlotInv
    OBVIOUS
  <1> USE DEF Init, DefaultStatus, FreshProcess
  <1>1. TypeOK
    <2>1. /\ startup_task \in Tasks \cup {NoTask} /\ task \in [Tasks -> TaskPhases]
          /\ attempt \in [Tasks -> 1..MaxRetries] /\ slept \in [Tasks -> 0..Backoff]
      BY LimitsAssumption DEF TaskPhases
    <2>2. /\ req \in [Requests -> RequestPhases]
          /\ awaited \in [Requests -> Tasks \cup {NoTask}]
          /\ infer_age \in [Requests -> 0..InferenceTimeout]
      BY LimitsAssumption DEF RequestPhases
    <2>3. /\ sem_value \in 0..MaxConcurrent /\ sem_queue \in Seq(Requests)
      BY LimitsAssumption
    <2> QED
      BY <2>1, <2>2, <2>3 DEF TypeOK, WorkerState, Ages, LoopPhases
  <1>2. Holders = {}
    BY DEF Holders
  <1>3. SlotCount
    BY <1>2, FS_EmptySet, LimitsAssumption DEF SlotCount
  <1> QED
    BY <1>1, <1>3 DEF SlotInv, QueueOK, QueueServed, RetryLeft

\* A new process starts with all slots free.
LEMMA BootSlots ==
  ASSUME Boot
  PROVE  QueueOK' /\ SlotCount' /\ QueueServed' /\ RetryLeft'
  <1> USE DEF Boot
  <1>1. Holders' = {}
    BY DEF Holders
  <1>2. SlotCount'
    BY <1>1, FS_EmptySet, LimitsAssumption DEF SlotCount
  <1> QED
    BY <1>2 DEF QueueOK, QueueServed, RetryLeft

LEMMA DeliverType ==
  ASSUME TypeOK, NEW t, NEW s, Deliver(t, s)
  PROVE  req' \in [Requests -> RequestPhases] /\ awaited' \in [Requests -> Tasks \cup {NoTask}]
  BY DEF TypeOK, Deliver, RequestPhases

LEMMA SlotStep == SlotInv /\ [Next]_vars => SlotInv'
  <1> SUFFICES ASSUME SlotInv, [Next]_vars PROVE SlotInv'
    OBVIOUS
  <1> USE DEF SlotInv
  <1> USE LimitsAssumption
  <1>1. ASSUME NEW r \in Requests, ArriveReady(r) \/ WakeReady(r) PROVE SlotInv'
    <2>1. EnterInference(r) /\ req[r] \notin {"queued", "granted", "inferring"}
      BY <1>1 DEF ArriveReady, WakeReady
    <2>2. last_request' \in Ages(IdleTimeout)
      BY <2>1, EnterInferenceSlots, <1>1 DEF TypeOK, Ages
    <2> QED
      BY <1>1, <2>1, <2>2, EnterInferenceSlots DEF ArriveReady, WakeReady, TypeOK, RetryLeft
  <1>2. ASSUME NEW r \in Requests, ArriveCooling(r) \/ WakeFailed(r) \/ Retire(r) PROVE SlotInv'
    <2>1. TypeOK' /\ RetryLeft'
      BY <1>2 DEF ArriveCooling, WakeFailed, Retire, TypeOK, RetryLeft, RequestPhases, Answers
    <2>2. \A s \in Requests :
            req'[s] = req[s] \/ {req[s], req'[s]} \cap {"queued", "granted", "inferring"} = {}
      BY <1>2 DEF ArriveCooling, WakeFailed, Retire, TypeOK, Answers
    <2> QED
      BY <1>2, <2>1, <2>2, SlotFrame DEF ArriveCooling, WakeFailed, Retire, TypeOK
  <1>3. ASSUME NEW r \in Requests, ArriveWaiting(r) PROVE SlotInv'
    <2>1. startup_task' \in Tasks
      BY <1>3 DEF ArriveWaiting, StartupInFlight
    <2>2. TypeOK' /\ RetryLeft'
      BY <1>3, <2>1 DEF ArriveWaiting, TypeOK, RetryLeft, RequestPhases, TaskPhases
    <2>3. \A s \in Requests :
            req'[s] = req[s] \/ {req[s], req'[s]} \cap {"queued", "granted", "inferring"} = {}
      BY <1>3 DEF ArriveWaiting, TypeOK
    <2> QED
      BY <1>3, <2>2, <2>3, SlotFrame DEF ArriveWaiting, TypeOK
  <1>4. ASSUME NEW r \in Requests, ResumeGranted(r) PROVE SlotInv'
    <2> DEFINE K == HoldersIn([req EXCEPT ![r] = "inferring"])
    <2>1. /\ req[r] = "granted" /\ last_request' = 0
          /\ HandOver([req EXCEPT ![r] = "inferring"], sem_value, AllThatFit(sem_value))
      BY <1>4 DEF ResumeGranted
    <2>2. K = Holders
      BY <2>1 DEF Holders, HoldersIn, TypeOK
    <2>3. "inferring" \in RequestPhases /\ sem_value \in Nat
      BY DEF RequestPhases, TypeOK
    <2>0. /\ AllThatFit(sem_value) \in 0..Len(sem_queue) /\ AllThatFit(sem_value) <= sem_value
          /\ sem_value > 0 /\ sem_queue # <<>> => AllThatFit(sem_value) > 0
      BY <2>3, WokenBounds DEF TypeOK
    <2>4. /\ QueueOK' /\ sem_queue' \in Seq(Requests)
          /\ req' \in [Requests -> RequestPhases] /\ req'[r] = "inferring"
      BY <2>1, <2>3, <2>0, HandOverQueue DEF TypeOK
    <2>5. sem_value' \in 0..sem_value /\ sem_value' + Cardinality(Holders') = sem_value + Cardinality(K)
      BY <2>1, <2>3, <2>0, HandOverSlots DEF TypeOK
    <2>6. SlotCount' /\ sem_value' \in 0..MaxConcurrent
      <3> HIDE DEF K
      <3> QED
        BY <2>2, <2>5 DEF SlotCount, TypeOK
    <2>7. QueueServed'
      BY <2>4 DEF QueueServed, Holders
    <2> QED
      BY <1>4, <2>1, <2>4, <2>6, <2>7 DEF ResumeGranted, TypeOK, Ages, RetryLeft
  <1>5. ASSUME NEW r \in Requests, NEW answer \in InferenceAnswers, InferReturns(r, answer)
        PROVE  SlotInv'
    <2> DEFINE K == HoldersIn([req EXCEPT ![r] = answer])
    <2>1. req[r] = "inferring" /\ HandOver([req EXCEPT ![r] = answer], sem_value + 1, FirstWaiter(sem_value + 1))
      BY <1>5 DEF InferReturns
    <2>2. answer \in RequestPhases /\ answer \notin {"queued", "granted", "inferring"}
      BY DEF InferenceAnswers, RequestPhases, Answers
    <2>3. r \in Holders /\ K = Holders \ {r}
      BY <2>1, <2>2 DEF Holders, HoldersIn, TypeOK
    <2>4. Cardinality(K) = Cardinality(Holders) - 1
      BY <2>3, HoldersFinite, FS_RemoveElement
    <2>5. sem_value + 1 \in Nat
      BY DEF TypeOK
    <2>0. /\ FirstWaiter(sem_value + 1) \in 0..Len(sem_queue)
          /\ FirstWaiter(sem_value + 1) <= sem_value + 1
          /\ sem_value + 1 > 0 /\ sem_queue # <<>> => FirstWaiter(sem_value + 1) > 0
      BY <2>5, WokenBounds DEF TypeOK
    <2>6. /\ QueueOK' /\ sem_queue' \in Seq(Requests)
          /\ req' \in [Requests -> RequestPhases]
      BY <2>1, <2>2, <2>5, <2>0, HandOverQueue DEF TypeOK
    <2>7. /\ sem_value' \in 0..sem_value + 1
          /\ sem_value' + Cardinality(Holders') = sem_value + 1 + Cardinality(K)
          /\ K \subseteq Holders'
          /\ sem_queue' # <<>> => Holders' # {}
      <3>1. sem_value + 1 > 0
        BY DEF TypeOK
      <3> QED
        BY <2>1, <2>2, <2>5, <2>0, <3>1, HandOverSlots DEF TypeOK
    <2> HIDE DEF K
    <2>8. SlotCount'
      BY <2>4, <2>7, HoldersFinite DEF SlotCount, TypeOK
    <2>9. sem_value' \in 0..MaxConcurrent
      <3>1. K \subseteq Requests
        BY DEF K, HoldersIn
      <3>2. Cardinality(K) \in Nat
        BY <3>1, RequestsAssumption, FS_Subset, FS_CardinalityType
      <3>3. sem_value + 1 <= MaxConcurrent
        BY <2>4, <3>2, HoldersFinite DEF SlotCount, TypeOK
      <3> QED
        BY <2>7, <3>3 DEF TypeOK
    <2>10. infer_age' \in [Requests -> 0..InferenceTimeout]
      BY <1>5 DEF InferReturns, TypeOK
    <2>11. TypeOK' /\ RetryLeft'
      BY <1>5, <2>6, <2>9, <2>10 DEF InferReturns, TypeOK, RetryLeft
    <2> QED
      BY <2>6, <2>7, <2>8, <2>11 DEF QueueServed
  <1>6. ASSUME NEW t \in Tasks, StartupStep(t) PROVE SlotInv'
    <2>1. \A s \in Requests :
            req'[s] = req[s] \/ {req[s], req'[s]} \cap {"queued", "granted", "inferring"} = {}
      BY <1>6 DEF StartupStep, StartupBegins, StartSucceeds, StartFails, CleanupReturns,
                  BackoffEnds, Deliver, TypeOK
    <2>2. TypeOK' /\ RetryLeft'
      <3>0. CASE StartupBegins(t)
        BY <3>0 DEF StartupBegins, TypeOK, RetryLeft, WorkerState, TaskPhases
      <3>1. CASE StartFails(t)
        <4>1. error_at' \in Ages(Backoff) /\ task' \in [Tasks -> TaskPhases]
          BY <3>1 DEF StartFails, TypeOK, TaskPhases, Ages
        <4> QED
          BY <3>1, <4>1 DEF StartFails, TypeOK, RetryLeft, WorkerState
      <3>2. CASE StartSucceeds(t)
        <4>1. req' \in [Requests -> RequestPhases] /\ awaited' \in [Requests -> Tasks \cup {NoTask}]
          BY <3>2, DeliverType DEF StartSucceeds
        <4>2. task' \in [Tasks -> TaskPhases] /\ attempt' \in [Tasks -> 1..MaxRetries]
          BY <3>2 DEF StartSucceeds, TypeOK, TaskPhases
        <4>3. RetryLeft'
          BY <3>2 DEF StartSucceeds, TypeOK, RetryLeft
        <4>4. /\ state' \in WorkerState /\ last_heartbeat' \in Ages(HeartbeatTimeout + 1)
              /\ started_at' \in Ages(IdleTimeout) /\ error_at' \in Ages(Backoff)
          BY <3>2 DEF StartSucceeds, WorkerState, Ages
        <4> QED
          <5>1. UNCHANGED <<last_request, startup_task, slept, infer_age, sem_value, sem_queue,
                            loop, stop_event, forced>>
            BY <3>2 DEF StartSucceeds
          <5> QED
            BY <4>1, <4>2, <4>3, <4>4, <5>1 DEF TypeOK
      <3>3. CASE CleanupReturns(t)
        <4>1. req' \in [Requests -> RequestPhases] /\ awaited' \in [Requests -> Tasks \cup {NoTask}]
          BY <3>3, DeliverType DEF CleanupReturns, TypeOK
        <4>2. task' \in [Tasks -> TaskPhases] /\ attempt' \in [Tasks -> 1..MaxRetries]
          <5>1. CASE AttemptsLeft(t)
            BY <3>3, <5>1 DEF CleanupReturns, TypeOK, TaskPhases
          <5>2. CASE ~AttemptsLeft(t)
            <6>1. /\ task' = [task EXCEPT ![t] = "done"]
                  /\ attempt' = [attempt EXCEPT ![t] = 1]
              BY <3>3, <5>2 DEF CleanupReturns
            <6> QED
              BY <6>1 DEF TypeOK, TaskPhases
          <5> QED
            BY <5>1, <5>2
        <4>3. RetryLeft'
          BY <3>3 DEF CleanupReturns, AttemptsLeft, TypeOK, RetryLeft
        <4> QED
          BY <3>3, <4>1, <4>2, <4>3 DEF CleanupReturns, TypeOK
      <3>4. CASE BackoffEnds(t)
        BY <3>4 DEF BackoffEnds, TypeOK, RetryLeft, WorkerState, TaskPhases
      <3> QED
        BY <1>6, <3>0, <3>1, <3>2, <3>3, <3>4 DEF StartupStep
    <2>3. UNCHANGED semaphoreVars
      BY <1>6 DEF StartupStep, StartupBegins, StartSucceeds, StartFails, CleanupReturns,
                  BackoffEnds
    <2> QED
      BY <2>1, <2>2, <2>3, SlotFrame DEF TypeOK
  <1>7. ASSUME LoopStep \/ ForceStopBegins \/ ForceStopReturns \/ Shutdown PROVE SlotInv'
    <2>1. TypeOK' /\ RetryLeft'
      <3>1. ASSUME NEW reply \in HealthOutcomes \ {"raises"}, HealthReplies(reply)
            PROVE  TypeOK' /\ RetryLeft'
        <4>1. Heartbeat(reply) \subseteq Ages(HeartbeatTimeout + 1)
          BY HealthAssumption DEF Heartbeat, TypeOK, Ages
        <4>2. last_heartbeat' \in Ages(HeartbeatTimeout + 1)
          BY <3>1, <4>1 DEF HealthReplies, RestOfIteration
        <4> QED
          BY <3>1, <4>2 DEF HealthReplies, RestOfIteration, TypeOK, RetryLeft, WorkerState,
                            LoopPhases, Ages
      <3>2. CASE LoopWakes \/ HealthRaises \/ LoopExits \/ Shutdown
        BY <3>2 DEF LoopWakes, HealthRaises, LoopExits, Shutdown, TypeOK, RetryLeft, LoopPhases
      <3>3. CASE LoopStopReturns \/ ForceStopBegins \/ ForceStopReturns
        BY <3>3 DEF LoopStopReturns, ForceStopBegins, ForceStopReturns, MarkOffline, TypeOK,
                    RetryLeft, LoopPhases, WorkerState, Ages
      <3> QED
        BY <1>7, <3>1, <3>2, <3>3 DEF LoopStep, HealthReturns
    <2>2. UNCHANGED <<req, semaphoreVars>>
      BY <1>7 DEF LoopStep, HealthReturns, HealthReplies, RestOfIteration, HealthRaises,
                  LoopWakes, LoopExits, Shutdown, LoopStopReturns, ForceStopBegins,
                  ForceStopReturns
    <2> QED
      BY <2>1, <2>2, SlotFrame DEF TypeOK
  <1>8. ASSUME Restart \/ Crash \/ TornSave PROVE SlotInv'
    <2>1. Boot
      BY <1>8 DEF Restart, Crash, TornSave
    <2>2. /\ state' \in WorkerState /\ last_heartbeat' \in Ages(HeartbeatTimeout + 1)
          /\ last_request' \in Ages(IdleTimeout) /\ started_at' \in Ages(IdleTimeout)
      BY <1>8 DEF Restart, Crash, TornSave, StatesASaveMayReach, TypeOK, WorkerState, Ages
    <2>3. /\ startup_task' \in Tasks \cup {NoTask} /\ task' \in [Tasks -> TaskPhases]
          /\ attempt' \in [Tasks -> 1..MaxRetries] /\ slept' \in [Tasks -> 0..Backoff]
      BY <2>1 DEF Boot, TaskPhases
    <2>4. /\ req' \in [Requests -> RequestPhases]
          /\ awaited' \in [Requests -> Tasks \cup {NoTask}]
          /\ infer_age' \in [Requests -> 0..InferenceTimeout]
      BY <2>1 DEF Boot, RequestPhases
    <2>5. /\ sem_value' \in 0..MaxConcurrent /\ sem_queue' \in Seq(Requests)
      BY <2>1 DEF Boot
    <2>6. TypeOK'
      BY <2>1, <2>2, <2>3, <2>4, <2>5 DEF Boot, TypeOK, Ages, LoopPhases
    <2> QED
      BY <2>1, <2>6, BootSlots
  <1>9. CASE Tick
    <2>1. TypeOK' /\ RetryLeft'
      <3>1. \A s \in Requests : infer_age'[s] \in 0..InferenceTimeout
        BY <1>9 DEF Tick, InferenceDue, TypeOK
      <3>2. infer_age' \in [Requests -> 0..InferenceTimeout]
        BY <1>9, <3>1 DEF Tick
      <3>3. slept' \in [Tasks -> 0..Backoff]
        BY <1>9 DEF Tick, TypeOK
      <3> QED
        BY <1>9, <3>2, <3>3 DEF Tick, Older, TypeOK, Ages, RetryLeft
    <2> QED
      BY <1>9, <2>1, SlotFrame DEF Tick, TypeOK
  <1>10. CASE UNCHANGED vars
    <2>1. TypeOK' /\ RetryLeft'
      BY <1>10 DEF TypeOK, RetryLeft
    <2> QED
      BY <1>10, <2>1, SlotFrame DEF TypeOK
  <1> QED
    BY <1>1, <1>2, <1>3, <1>4, <1>5, <1>6, <1>7, <1>8, <1>9, <1>10
    DEF Next, RequestStep, IncidentStep

\* The types, and the slots of _infer_semaphore (worker_manager.py:63): they are
\* never lost or handed out twice, and a queued request is behind a holder.
THEOREM SlotInvariant == Spec => []SlotInv
  BY SlotInit, SlotStep, PTL DEF Spec

THEOREM TypeCorrect == Spec => []TypeOK
  <1>1. SlotInv => TypeOK
    BY DEF SlotInv
  <1> QED
    BY <1>1, SlotInvariant, PTL

THEOREM SlotsAreConserved == Spec => []SlotsConserved
  <1>1. SlotInv => SlotsConserved
    BY DEF SlotInv, QueueOK, SlotCount, SlotsConserved
  <1> QED
    BY <1>1, SlotInvariant, PTL

\* Behind a queue there is always a release to come (worker_manager.py:63).
THEOREM QueueIsServed == Spec => []QueueServed
  <1>1. SlotInv => QueueServed
    BY DEF SlotInv
  <1> QED
    BY <1>1, SlotInvariant, PTL

----------------------------------------------------------------------------
(* Layer 2: the startup future                                              *)

JoinedAwaitsTask == \A r \in Requests : req[r] = "joined" => awaited[r] \in Tasks

FlightInv == SingleStartup /\ StartupAwaited /\ JoinedAwaitsTask /\ ReadyMeansStarted

\* A step that changes neither the tasks nor who awaits them, and does not make
\* the worker READY.
LEMMA FlightFrame ==
  ASSUME FlightInv, UNCHANGED <<task, startup_task, awaited>>,
         \A r \in Requests : req'[r] = "joined" <=> req[r] = "joined",
         state' = "READY" => state = "READY" /\ started_at' # None
  PROVE  FlightInv'
  BY DEF FlightInv, SingleStartup, StartupAwaited, JoinedAwaitsTask, ReadyMeansStarted

\* What HandOver does to the other requests concerns no joined one.
LEMMA HandOverJoined ==
  ASSUME SlotInv, NEW r \in Requests, req[r] \in {"granted", "inferring"},
         NEW p \in {"inferring", "ok", "error"},
         NEW v \in Nat, NEW n \in {FirstWaiter(v), AllThatFit(v)},
         HandOver([req EXCEPT ![r] = p], v, n)
  PROVE  /\ req'[r] = p
         /\ \A s \in Requests \ {r} :
              req'[s] = req[s] \/ (req[s] = "queued" /\ req'[s] = "granted")
  <1>1. p \in RequestPhases /\ p # "queued" /\ req[r] # "queued"
    BY DEF RequestPhases, Answers
  <1>2. n \in 0..Len(sem_queue)
    BY WokenBounds DEF SlotInv, TypeOK
  <1> QED
    BY <1>1, <1>2, HandOverQueue DEF SlotInv, TypeOK

LEMMA FlightStep == SlotInv /\ FlightInv /\ [Next]_vars => FlightInv'
  <1> SUFFICES ASSUME SlotInv, FlightInv, [Next]_vars PROVE FlightInv'
    OBVIOUS
  <1>0. TypeOK
    BY DEF SlotInv
  <1>1. ASSUME NEW r \in Requests, ArriveReady(r) \/ WakeReady(r) PROVE FlightInv'
    <2>1. EnterInference(r) /\ req[r] \in {"idle", "ready"}
      BY <1>1 DEF ArriveReady, WakeReady
    <2>2. \A s \in Requests : req'[s] = "joined" <=> req[s] = "joined"
      BY <2>1, EnterInferenceSlots
    <2> QED
      BY <1>1, <2>2, FlightFrame DEF ArriveReady, WakeReady, FlightInv, ReadyMeansStarted
  <1>2. ASSUME NEW r \in Requests, ArriveCooling(r) \/ WakeFailed(r) \/ Retire(r) PROVE FlightInv'
    <2>1. \A s \in Requests : req'[s] = "joined" <=> req[s] = "joined"
      BY <1>2, <1>0 DEF ArriveCooling, WakeFailed, Retire, TypeOK, Answers
    <2> QED
      BY <1>2, <2>1, FlightFrame
      DEF ArriveCooling, WakeFailed, Retire, FlightInv, ReadyMeansStarted
  <1>3. ASSUME NEW r \in Requests, ArriveWaiting(r) PROVE FlightInv'
    <2>1. /\ req' = [req EXCEPT ![r] = "joined"] /\ req[r] = "idle"
          /\ awaited' = [awaited EXCEPT ![r] = startup_task']
          /\ state' = state /\ state # "READY"
      BY <1>3 DEF ArriveWaiting
    <2>2. /\ req'[r] = "joined" /\ awaited'[r] = startup_task'
          /\ \A s \in Requests \ {r} : req'[s] = req[s] /\ awaited'[s] = awaited[s]
      BY <2>1, <1>0 DEF TypeOK
    <2>3. CASE StartupInFlight
      <3>1. startup_task \in Tasks /\ task[startup_task] # "done"
        BY <2>3 DEF StartupInFlight
      <3>2. UNCHANGED <<task, startup_task>>
        BY <1>3, <2>3 DEF ArriveWaiting
      <3>3. SingleStartup' /\ ReadyMeansStarted'
        BY <3>2, <2>1 DEF FlightInv, SingleStartup, ReadyMeansStarted
      <3>4. JoinedAwaitsTask'
        BY <3>1, <3>2, <2>1, <2>2 DEF FlightInv, JoinedAwaitsTask
      <3>5. StartupAwaited'
        BY <3>1, <3>2, <2>1, <2>2 DEF FlightInv, StartupAwaited, SingleStartup
      <3> QED
        BY <3>3, <3>4, <3>5 DEF FlightInv
    <2>4. CASE ~StartupInFlight
      <3>1. \A t \in Tasks : task[t] = "done"
        BY <2>4 DEF StartupInFlight, FlightInv, SingleStartup
      <3>2. PICK t \in Tasks : startup_task' = t /\ task' = [task EXCEPT ![t] = "created"]
        BY <1>3, <2>4 DEF ArriveWaiting
      <3>3. task'[t] = "created" /\ \A u \in Tasks \ {t} : task'[u] = "done"
        BY <3>1, <3>2, <1>0 DEF TypeOK
      <3>4. \A s \in Requests : req[s] # "joined"
        BY <3>1 DEF FlightInv, StartupAwaited, JoinedAwaitsTask
      <3>5. SingleStartup' /\ ReadyMeansStarted' /\ JoinedAwaitsTask'
        BY <3>2, <3>3, <3>4, <2>1, <2>2
        DEF SingleStartup, ReadyMeansStarted, JoinedAwaitsTask
      <3>6. StartupAwaited'
        BY <3>2, <3>3, <3>4, <2>1, <2>2 DEF StartupAwaited
      <3> QED
        BY <3>5, <3>6 DEF FlightInv
    <2> QED
      BY <2>3, <2>4
  <1>4. ASSUME NEW r \in Requests, ResumeGranted(r) PROVE FlightInv'
    <2>1. /\ sem_value \in Nat /\ req[r] = "granted"
          /\ HandOver([req EXCEPT ![r] = "inferring"], sem_value, AllThatFit(sem_value))
      BY <1>4, <1>0, LimitsAssumption DEF ResumeGranted, TypeOK
    <2>2. \A s \in Requests : req'[s] = "joined" <=> req[s] = "joined"
      BY <2>1, HandOverJoined
    <2> QED
      BY <1>4, <2>2, FlightFrame DEF ResumeGranted, FlightInv, ReadyMeansStarted
  <1>5. ASSUME NEW r \in Requests, NEW answer \in InferenceAnswers, InferReturns(r, answer)
        PROVE  FlightInv'
    <2>1. sem_value + 1 \in Nat /\ answer \in {"ok", "error"}
      BY <1>0, LimitsAssumption DEF TypeOK, InferenceAnswers
    <2>2. \A s \in Requests : req'[s] = "joined" <=> req[s] = "joined"
      BY <1>5, <2>1, HandOverJoined DEF InferReturns
    <2> QED
      BY <1>5, <2>2, FlightFrame DEF InferReturns, FlightInv, ReadyMeansStarted
  <1>6. ASSUME NEW t \in Tasks, StartupBegins(t) \/ StartFails(t) \/ BackoffEnds(t) PROVE FlightInv'
    <2>1. /\ \A u \in Tasks : task'[u] = "done" <=> task[u] = "done"
          /\ UNCHANGED <<startup_task, req, awaited>> /\ state' # "READY"
      BY <1>6, <1>0 DEF StartupBegins, StartFails, BackoffEnds, TypeOK
    <2> QED
      BY <2>1 DEF FlightInv, SingleStartup, StartupAwaited, JoinedAwaitsTask, ReadyMeansStarted
  <1>7. ASSUME NEW t \in Tasks, NEW s, task[t] # "done", task' = [task EXCEPT ![t] = "done"],
               Deliver(t, s), UNCHANGED startup_task,
               state' = "READY" => started_at' # None
        PROVE  FlightInv'
    <2>1. \A u \in Tasks : u # t => task[u] = "done"
      BY <1>7 DEF FlightInv, SingleStartup
    <2>2. \A u \in Tasks : task'[u] = "done"
      BY <1>7, <2>1, <1>0 DEF TypeOK
    <2>3. \A r \in Requests : req[r] = "joined" => awaited[r] = t
      BY <2>1 DEF FlightInv, StartupAwaited, JoinedAwaitsTask
    <2>4. \A r \in Requests : req'[r] # "joined"
      BY <1>7, <2>3 DEF Deliver
    <2> QED
      BY <1>7, <2>2, <2>4
      DEF FlightInv, SingleStartup, StartupAwaited, JoinedAwaitsTask, ReadyMeansStarted
  <1>8. ASSUME NEW t \in Tasks, StartSucceeds(t) PROVE FlightInv'
    <2>1. started_at' # None
      BY <1>8, NoneAssumption DEF StartSucceeds
    <2> QED
      BY <1>7, <1>8, <2>1 DEF StartSucceeds
  <1>9. ASSUME NEW t \in Tasks, CleanupReturns(t) PROVE FlightInv'
    <2>1. CASE AttemptsLeft(t)
      <3>1. /\ \A u \in Tasks : task'[u] = "done" <=> task[u] = "done"
            /\ UNCHANGED <<startup_task, req, awaited, state, started_at>>
        BY <1>9, <2>1, <1>0 DEF CleanupReturns, TypeOK
      <3> QED
        BY <3>1 DEF FlightInv, SingleStartup, StartupAwaited, JoinedAwaitsTask, ReadyMeansStarted
    <2>2. CASE ~AttemptsLeft(t)
      <3>1. /\ task[t] # "done" /\ task' = [task EXCEPT ![t] = "done"] /\ Deliver(t, state)
            /\ UNCHANGED <<startup_task, state, started_at>>
        BY <1>9, <2>2 DEF CleanupReturns
      <3> QED
        BY <1>7, <3>1 DEF FlightInv, ReadyMeansStarted
    <2> QED
      BY <2>1, <2>2
  <1>10. ASSUME LoopStep \/ ForceStopBegins \/ ForceStopReturns \/ Shutdown PROVE FlightInv'
    <2>1. UNCHANGED <<task, startup_task, awaited, req>>
      BY <1>10 DEF LoopStep, HealthReturns, HealthReplies, RestOfIteration, HealthRaises,
                   LoopWakes, LoopExits, Shutdown, LoopStopReturns, ForceStopBegins,
                   ForceStopReturns
    <2>2. state' = "READY" => state = "READY" /\ started_at' = started_at
      BY <1>10 DEF LoopStep, HealthReturns, HealthReplies, RestOfIteration, HealthRaises,
                   LoopWakes, LoopExits, Shutdown, LoopStopReturns, ForceStopBegins,
                   ForceStopReturns, MarkOffline
    <2> QED
      BY <2>1, <2>2, FlightFrame DEF FlightInv, ReadyMeansStarted
  <1>11. ASSUME Restart \/ Crash \/ TornSave PROVE FlightInv'
    <2>1. Boot
      BY <1>11 DEF Restart, Crash, TornSave
    <2>2. /\ \A t \in Tasks : task'[t] = "done"
          /\ \A r \in Requests : req'[r] = "idle"
      BY <2>1 DEF Boot
    <2>3. state' = "READY" => state = "READY" /\ started_at' = started_at
      BY <1>11 DEF Restart, Crash, TornSave, StatesASaveMayReach
    <2> QED
      BY <2>2, <2>3 DEF FlightInv, SingleStartup, StartupAwaited, JoinedAwaitsTask, ReadyMeansStarted
  <1>12. CASE Tick
    <2>1. UNCHANGED <<task, startup_task, awaited, req, state>>
      BY <1>12 DEF Tick
    <2>2. started_at # None => started_at' # None
      BY <1>12, <1>0, NoneAssumption, LimitsAssumption DEF Tick, Older, TypeOK, Ages
    <2> QED
      BY <2>1, <2>2, FlightFrame DEF FlightInv, ReadyMeansStarted
  <1>13. CASE UNCHANGED vars
    BY <1>13, FlightFrame DEF FlightInv, ReadyMeansStarted
  <1> QED
    BY <1>1, <1>2, <1>3, <1>4, <1>5, <1>6, <1>8, <1>9, <1>10, <1>11, <1>12, <1>13
    DEF Next, RequestStep, StartupStep, IncidentStep

LEMMA FlightInit == Init => FlightInv
  BY DEF Init, DefaultStatus, FreshProcess, FlightInv, SingleStartup, StartupAwaited,
         JoinedAwaitsTask, ReadyMeansStarted

LEMMA FlightInvariant == Spec => []FlightInv
  BY FlightInit, FlightStep, SlotInvariant, PTL DEF Spec

\* The startup lock and the shared task (worker_manager.py:48-56): one startup at
\* a time.
THEOREM OneStartup == Spec => []SingleStartup
  <1>1. FlightInv => SingleStartup
    BY DEF FlightInv
  <1> QED
    BY <1>1, FlightInvariant, PTL

\* It is awaited by somebody exactly as long as it runs (worker_manager.py:56).
THEOREM StartupIsAwaited == Spec => []StartupAwaited
  <1>1. FlightInv => StartupAwaited
    BY DEF FlightInv
  <1> QED
    BY <1>1, FlightInvariant, PTL

\* READY is only saved once the startup is over (worker_manager.py:131-141).
THEOREM ReadyIsStarted == Spec => []ReadyMeansStarted
  <1>1. FlightInv => ReadyMeansStarted
    BY DEF FlightInv
  <1> QED
    BY <1>1, FlightInvariant, PTL

----------------------------------------------------------------------------
(* Layer 3: the ages of what is in flight                                   *)

\* last_request is no older than any running inference, and no older than the
\* longest inference while a woken request has still to run; a request that
\* was promised a ready worker has not waited since.
AgeInv ==
    \A r \in Requests :
        /\ req[r] = "inferring" => last_request \in Nat /\ last_request <= infer_age[r]
        /\ req[r] = "granted" => last_request \in Nat /\ last_request <= InferenceTimeout
        /\ req[r] = "ready" => started_at \in {0, None}

\* A step that starts, wakes and promises nothing, and moves none of the clocks.
LEMMA AgeFrame ==
  ASSUME AgeInv, UNCHANGED <<last_request, infer_age>>,
         started_at' = started_at \/ started_at' = None,
         \A r \in Requests :
            req'[r] = req[r] \/ req'[r] \notin {"inferring", "granted", "ready"}
  PROVE  AgeInv'
  BY DEF AgeInv

\* Nobody is inferring, woken or promised anything.
LEMMA AgeNone ==
  ASSUME \A r \in Requests : req'[r] \notin {"inferring", "granted", "ready"}
  PROVE  AgeInv'
  BY DEF AgeInv

LEMMA AgeStep == SlotInv /\ FlightInv /\ AgeInv /\ [Next]_vars => AgeInv'
  <1> SUFFICES ASSUME SlotInv, FlightInv, AgeInv, [Next]_vars PROVE AgeInv'
    OBVIOUS
  <1>0. /\ TypeOK /\ InferenceTimeout \in Nat /\ IdleTimeout \in Nat \ {0}
        /\ \A r \in Requests : infer_age[r] \in 0..InferenceTimeout
    BY LimitsAssumption DEF SlotInv, TypeOK
  <1>1. ASSUME NEW r \in Requests, ArriveReady(r) \/ WakeReady(r) PROVE AgeInv'
    <2>1. /\ EnterInference(r) /\ req[r] \notin {"queued", "granted", "inferring"}
          /\ UNCHANGED <<infer_age, started_at>>
      BY <1>1 DEF ArriveReady, WakeReady
    <2>2. /\ req'[r] \in {"queued", "inferring"}
          /\ \A s \in Requests \ {r} : req'[s] = req[s]
          /\ req'[r] = "inferring" => last_request' = 0
          /\ req'[r] = "queued" => last_request' = last_request
      BY <2>1, EnterInferenceSlots
    <2>3. last_request' = 0 \/ last_request' = last_request
      BY <2>2
    <2> QED
      BY <2>1, <2>2, <2>3, <1>0 DEF AgeInv
  <1>2. ASSUME NEW r \in Requests,
               ArriveCooling(r) \/ ArriveWaiting(r) \/ WakeFailed(r) \/ Retire(r)
        PROVE  AgeInv'
    <2>1. /\ UNCHANGED <<last_request, infer_age, started_at>>
          /\ \A s \in Requests :
               req'[s] = req[s] \/ req'[s] \notin {"inferring", "granted", "ready"}
      BY <1>2, <1>0 DEF ArriveCooling, ArriveWaiting, WakeFailed, Retire, TypeOK
    <2> QED
      BY <2>1, AgeFrame
  <1>3. ASSUME NEW r \in Requests, ResumeGranted(r) PROVE AgeInv'
    <2>1. /\ sem_value \in Nat /\ req[r] = "granted"
          /\ HandOver([req EXCEPT ![r] = "inferring"], sem_value, AllThatFit(sem_value))
          /\ last_request' = 0 /\ UNCHANGED <<infer_age, started_at>>
      BY <1>3, <1>0, LimitsAssumption DEF ResumeGranted, TypeOK
    <2>2. /\ req'[r] = "inferring"
          /\ \A s \in Requests \ {r} :
               req'[s] = req[s] \/ (req[s] = "queued" /\ req'[s] = "granted")
      BY <2>1, HandOverJoined
    <2> QED
      BY <2>1, <2>2, <1>0 DEF AgeInv
  <1>4. ASSUME NEW r \in Requests, NEW answer \in InferenceAnswers, InferReturns(r, answer)
        PROVE  AgeInv'
    <2>1. /\ sem_value + 1 \in Nat /\ answer \in {"ok", "error"} /\ req[r] = "inferring"
          /\ HandOver([req EXCEPT ![r] = answer], sem_value + 1, FirstWaiter(sem_value + 1))
          /\ UNCHANGED <<last_request, started_at>>
          /\ \A s \in Requests \ {r} : infer_age'[s] = infer_age[s]
      BY <1>4, <1>0, LimitsAssumption DEF InferReturns, TypeOK, InferenceAnswers
    <2>2. /\ req'[r] = answer
          /\ \A s \in Requests \ {r} :
               req'[s] = req[s] \/ (req[s] = "queued" /\ req'[s] = "granted")
      BY <2>1, HandOverJoined
    <2>3. last_request \in Nat /\ last_request <= InferenceTimeout
      BY <2>1, <1>0 DEF AgeInv
    <2> QED
      BY <2>1, <2>2, <2>3, <1>0 DEF AgeInv
  <1>5. ASSUME NEW t \in Tasks, StartupBegins(t) \/ StartFails(t) \/ BackoffEnds(t) PROVE AgeInv'
    BY <1>5, AgeFrame DEF StartupBegins, StartFails, BackoffEnds
  <1>6. ASSUME NEW t \in Tasks, StartSucceeds(t) PROVE AgeInv'
    <2>1. /\ started_at' = 0 /\ UNCHANGED <<last_request, infer_age>>
          /\ \A r \in Requests : req'[r] = req[r] \/ req'[r] = "ready"
      BY <1>6 DEF StartSucceeds, Deliver
    <2> QED
      BY <2>1 DEF AgeInv
  <1>7. ASSUME NEW t \in Tasks, CleanupReturns(t) PROVE AgeInv'
    <2>1. state # "READY"
      BY <1>7 DEF CleanupReturns, FlightInv, ReadyMeansStarted
    <2>2. /\ UNCHANGED <<last_request, infer_age, started_at>>
          /\ \A r \in Requests : req'[r] = req[r] \/ req'[r] = "failed"
      BY <1>7, <2>1 DEF CleanupReturns, Deliver
    <2> QED
      BY <2>2, AgeFrame
  <1>8. CASE LoopStep \/ ForceStopBegins \/ ForceStopReturns \/ Shutdown
    <2>1. UNCHANGED <<last_request, infer_age, req>>
      BY <1>8 DEF LoopStep, HealthReturns, HealthReplies, RestOfIteration, HealthRaises,
                  LoopWakes, LoopExits, Shutdown, LoopStopReturns, ForceStopBegins,
                  ForceStopReturns, MarkOffline
    <2>2. started_at' = started_at \/ started_at' = None
      BY <1>8 DEF LoopStep, HealthReturns, HealthReplies, RestOfIteration, HealthRaises,
                  LoopWakes, LoopExits, Shutdown, LoopStopReturns, ForceStopBegins,
                  ForceStopReturns, MarkOffline
    <2> QED
      BY <2>1, <2>2, AgeFrame
  <1>9. CASE Restart \/ Crash \/ TornSave
    <2>1. \A r \in Requests : req'[r] = "idle"
      BY <1>9 DEF Restart, Crash, TornSave, Boot
    <2> QED
      BY <2>1, AgeNone
  <1>10. CASE Tick
    <2>1. \A r \in Requests : req'[r] = req[r] /\ req[r] \notin {"ready", "granted"}
      BY <1>10 DEF Tick, LoopBusy
    <2>2. ASSUME NEW r \in Requests, req[r] = "inferring"
          PROVE  last_request' \in Nat /\ last_request' <= infer_age'[r]
      <3>1. last_request \in Nat /\ last_request <= infer_age[r]
        BY <2>2 DEF AgeInv
      <3>2. infer_age'[r] = infer_age[r] + 1
        BY <1>10, <2>2 DEF Tick
      <3>3. last_request' \in {last_request, last_request + 1}
        BY <1>10 DEF Tick, Older
      <3> QED
        BY <3>1, <3>2, <3>3, <1>0
    <2> QED
      BY <2>1, <2>2 DEF AgeInv
  <1>11. CASE UNCHANGED vars
    BY <1>11, AgeFrame
  <1> QED
    BY <1>1, <1>2, <1>3, <1>4, <1>5, <1>6, <1>7, <1>8, <1>9, <1>10, <1>11
    DEF Next, RequestStep, StartupStep, IncidentStep

\* While a request is anywhere between its arrival and its answer, an idle READY
\* worker is impossible.
LEMMA IdleMeansUnused ==
  ASSUME SlotInv, FlightInv, AgeInv, InferenceTimeout < IdleTimeout, state = "READY", Idle
  PROVE  \A r \in Requests :
            req[r] \notin {"joined", "ready", "queued", "granted", "inferring"}
  <1>0. IdleTimeout \in Nat \ {0} /\ InferenceTimeout \in Nat
    BY LimitsAssumption
  <1>1. \A r \in Requests : req[r] # "joined"
    BY DEF FlightInv, ReadyMeansStarted, JoinedAwaitsTask, StartupAwaited
  <1>2. \A r \in Requests : req[r] # "ready"
    <2>1. started_at # None /\ started_at >= IdleTimeout
      BY DEF FlightInv, ReadyMeansStarted, Idle
    <2> QED
      BY <2>1, <1>0 DEF AgeInv
  <1>3. ASSUME NEW r \in Requests, req[r] \in {"granted", "inferring"} PROVE FALSE
    <2>1. infer_age[r] \in 0..InferenceTimeout
      BY DEF SlotInv, TypeOK
    <2>2. last_request \in Nat /\ last_request <= InferenceTimeout
      BY <1>3, <1>0, <2>1 DEF AgeInv
    <2>3. last_request >= IdleTimeout
      BY <2>2, NoneAssumption DEF Idle
    <2> QED
      BY <2>2, <2>3, <1>0
  <1>4. \A r \in Requests : req[r] # "queued"
    <2>1. sem_queue = <<>>
      BY <1>3 DEF SlotInv, QueueServed, Holders
    <2> QED
      BY <2>1 DEF SlotInv, QueueOK
  <1> QED
    BY <1>1, <1>2, <1>3, <1>4

\* stop_if_idle (worker_manager.py:105-112) never stops a worker that a request
\* has been promised or uses, provided that no inference lasts as long as the
\* idle timeout: config.py does not enforce it.
THEOREM IdleStopIsHarmless ==
  ASSUME InferenceTimeout < IdleTimeout
  PROVE  Spec => IdleStopHarmless
  <1>1. Init => AgeInv
    BY DEF Init, FreshProcess, AgeInv
  <1>2. SlotInv /\ FlightInv /\ AgeInv /\ [Next]_vars =>
          [loop = "health" /\ loop' = "stopping" =>
             \A r \in Requests :
                req[r] \notin {"joined", "ready", "queued", "granted", "inferring"}]_vars
    <2> SUFFICES ASSUME SlotInv, FlightInv, AgeInv, [Next]_vars,
                        loop = "health", loop' = "stopping"
                 PROVE  \A r \in Requests :
                          req[r] \notin {"joined", "ready", "queued", "granted", "inferring"}
      OBVIOUS
    <2>1. HealthReturns
      BY DEF Next, RequestStep, StartupStep, LoopStep, IncidentStep, ArriveReady, ArriveCooling,
             ArriveWaiting, WakeReady, WakeFailed, ResumeGranted, InferReturns, Retire,
             StartupBegins, StartSucceeds, StartFails, CleanupReturns, BackoffEnds, LoopWakes,
             LoopStopReturns, LoopExits, ForceStopBegins, ForceStopReturns, Shutdown, Restart,
             Crash, TornSave, Boot, Tick
    <2>2. state = "READY" /\ Idle
      BY <2>1 DEF HealthReturns, HealthReplies, RestOfIteration, HealthRaises
    <2> QED
      BY <2>2, IdleMeansUnused
  <1> QED
    BY <1>1, <1>2, SlotInvariant, FlightInvariant, AgeStep, PTL DEF Spec, IdleStopHarmless

----------------------------------------------------------------------------
(* The heartbeat of a READY worker, where a probe is the heartbeat           *)

\* It is never older than the worker's start.
SilenceInv ==
    state = "READY" =>
        /\ last_heartbeat \in Nat /\ started_at \in Nat
        /\ started_at = IdleTimeout \/ last_heartbeat <= started_at

LEMMA SilenceStep ==
  ASSUME "pushed" \notin HealthOutcomes, TypeOK, SilenceInv, [Next]_vars
  PROVE  SilenceInv'
  <1>0. HeartbeatTimeout \in Nat /\ IdleTimeout \in Nat
    BY LimitsAssumption
  <1> DEFINE Kept == UNCHANGED <<last_heartbeat, started_at>> /\ (state' = "READY" => state = "READY")
  <1>1. CASE Kept
    BY <1>1 DEF SilenceInv
  <1>2. CASE state' # "READY"
    BY <1>2 DEF SilenceInv
  <1>3. ASSUME NEW r \in Requests, RequestStep(r) PROVE Kept
    BY <1>3 DEF RequestStep, ArriveReady, ArriveCooling, ArriveWaiting, WakeReady, WakeFailed,
                ResumeGranted, InferReturns, Retire, EnterInference
  <1>4. ASSUME NEW t \in Tasks, StartupStep(t) PROVE SilenceInv'
    <2>1. CASE StartSucceeds(t)
      BY <2>1 DEF StartSucceeds, SilenceInv
    <2>2. CASE StartupBegins(t) \/ StartFails(t) \/ BackoffEnds(t)
      BY <1>2, <2>2 DEF StartupBegins, StartFails, BackoffEnds
    <2>3. CASE CleanupReturns(t)
      BY <1>1, <2>3 DEF CleanupReturns
    <2> QED
      BY <1>4, <2>1, <2>2, <2>3 DEF StartupStep
  <1>5. ASSUME NEW reply \in HealthOutcomes \ {"raises"}, HealthReplies(reply) PROVE SilenceInv'
    <2>1. PICK heartbeat \in Heartbeat(reply) :
            last_heartbeat' = heartbeat /\ RestOfIteration(heartbeat) /\ started_at' = started_at
      BY <1>5 DEF HealthReplies
    <2>2. heartbeat \in {0, last_heartbeat}
      BY <1>5, HealthAssumption DEF Heartbeat
    <2>3. state' = "READY" => state = "READY"
      BY <2>1 DEF RestOfIteration
    <2> QED
      BY <1>0, <2>1, <2>2, <2>3 DEF SilenceInv
  <1>6. CASE LoopWakes \/ HealthRaises \/ LoopExits \/ Shutdown \/ Restart
    BY <1>1, <1>6 DEF LoopWakes, HealthRaises, LoopExits, Shutdown, Restart
  <1>7. CASE LoopStopReturns \/ ForceStopBegins \/ ForceStopReturns \/ TornSave
    BY <1>2, <1>7 DEF LoopStopReturns, MarkOffline, ForceStopBegins, ForceStopReturns, TornSave
  <1>8. CASE Crash
    BY <1>1, <1>8 DEF Crash, StatesASaveMayReach
  <1>9. CASE Tick
    BY <1>0, <1>9, NoneAssumption DEF Tick, Older, SilenceInv, TypeOK, Ages
  <1>10. CASE UNCHANGED vars
    BY <1>1, <1>10
  <1> QED
    BY <1>1, <1>3, <1>4, <1>5, <1>6, <1>7, <1>8, <1>9, <1>10
    DEF Next, LoopStep, IncidentStep, HealthReturns

\* check_health (worker_manager.py:99-103) gives no worker up before that one has
\* itself been silent for the heartbeat timeout, provided that the heartbeat is the
\* successful probe, as behind the Colab driver.
THEOREM SilentWorkersOnly ==
  ASSUME "pushed" \notin HealthOutcomes
  PROVE  Spec => SilenceIsItsOwn
  <1>1. Init => SilenceInv
    BY DEF Init, DefaultStatus, SilenceInv
  <1>2. FlightInv /\ TypeOK /\ SilenceInv /\ [Next]_vars =>
          [state = "READY" /\ state' = "ERROR" =>
             started_at = IdleTimeout \/ started_at > HeartbeatTimeout]_vars
    <2> SUFFICES ASSUME FlightInv, TypeOK, SilenceInv, [Next]_vars,
                        state = "READY", state' = "ERROR"
                 PROVE  started_at = IdleTimeout \/ started_at > HeartbeatTimeout
      OBVIOUS
    <2>1. \A t \in Tasks : task[t] = "done"
      BY DEF FlightInv, ReadyMeansStarted
    <2>2. PICK reply \in HealthOutcomes \ {"raises"} : HealthReplies(reply)
      BY <2>1
      DEF Next, RequestStep, StartupStep, LoopStep, IncidentStep, HealthReturns, ArriveReady,
          ArriveCooling, ArriveWaiting, WakeReady, WakeFailed, ResumeGranted, InferReturns,
          Retire, EnterInference, StartupBegins, StartSucceeds, StartFails, CleanupReturns,
          BackoffEnds, LoopWakes, HealthRaises, LoopStopReturns, MarkOffline, LoopExits,
          ForceStopBegins, ForceStopReturns, Shutdown, Restart, Crash, StatesASaveMayReach,
          TornSave, Tick
    <2>3. PICK heartbeat \in Heartbeat(reply) : RestOfIteration(heartbeat)
      BY <2>2 DEF HealthReplies
    <2>4. heartbeat \in {0, last_heartbeat} /\ Unhealthy(heartbeat)
      BY <2>2, <2>3, HealthAssumption DEF Heartbeat, RestOfIteration
    <2> QED
      BY <2>4, LimitsAssumption DEF SilenceInv, Unhealthy
  <1> QED
    BY <1>1, <1>2, SilenceStep, TypeCorrect, FlightInvariant, PTL DEF Spec, SilenceIsItsOwn

----------------------------------------------------------------------------
(* The refinement: the startup lock and future implement SingleFlight       *)

Flying == \E t \in Tasks : task[t] # "done"
Waiters == {r \in Requests : req[r] = "joined"}
Outcome == [r \in Requests |-> IF req[r] \in {"ready", "failed"} THEN req[r] ELSE "none"]

\* The steps of the abstract machine, over the mapped state.
LEMMA MappedLaunch ==
  ASSUME NEW r \in Requests, ~Flying, Outcome[r] = "none", Flying', Waiters' = {r},
         UNCHANGED Outcome
  PROVE  Flights!Next
  <1>1. Flights!Launch(r)
    BY DEF Flying, Waiters, Outcome, Flights!Launch
  <1> QED
    BY <1>1 DEF Flights!Next, Flights!Outcomes

LEMMA MappedJoin ==
  ASSUME NEW r \in Requests, Flying, Flying', r \notin Waiters, Outcome[r] = "none",
         Waiters' = Waiters \cup {r}, UNCHANGED Outcome
  PROVE  Flights!Next
  <1>1. Flights!Join(r)
    BY DEF Flying, Waiters, Outcome, Flights!Join
  <1> QED
    BY <1>1 DEF Flights!Next, Flights!Outcomes

LEMMA MappedEnd ==
  ASSUME NEW o \in {"ready", "failed"}, Flying, ~Flying', Waiters' = {},
         Outcome' = [r \in Requests |-> IF r \in Waiters THEN o ELSE Outcome[r]]
  PROVE  Flights!Next
  <1>1. Flights!Complete(o)
    BY DEF Flying, Waiters, Outcome, Flights!Complete
  <1> QED
    BY <1>1 DEF Flights!Next, Flights!Outcomes

LEMMA MappedConsume ==
  ASSUME NEW r \in Requests, Outcome[r] # "none",
         Outcome' = [Outcome EXCEPT ![r] = "none"], Flying' = Flying, UNCHANGED Waiters
  PROVE  Flights!Next
  <1>1. Flights!Consume(r)
    BY DEF Flying, Waiters, Outcome, Flights!Consume
  <1> QED
    BY <1>1 DEF Flights!Next, Flights!Outcomes

LEMMA MappedAbort ==
  ASSUME ~Flying', Waiters' = {}, Outcome' = [r \in Requests |-> "none"]
  PROVE  Flights!Next
  <1>1. Flights!Abort
    BY DEF Flying, Waiters, Outcome, Flights!Abort
  <1> QED
    BY <1>1 DEF Flights!Next, Flights!Outcomes

\* A step that ends no task, creates none, and leaves the waiting and the
\* answered requests as they are is a stutter.
LEMMA MappedStutter ==
  ASSUME \A t \in Tasks : task'[t] = "done" <=> task[t] = "done",
         \A r \in Requests :
            req'[r] = req[r] \/ {req[r], req'[r]} \cap {"joined", "ready", "failed"} = {}
  PROVE  UNCHANGED Flights!vars
  <1>1. Flying' = Flying
    BY DEF Flying
  <1>2. UNCHANGED <<Waiters, Outcome>>
    BY DEF Waiters, Outcome
  <1> QED
    BY <1>1, <1>2 DEF Flying, Waiters, Outcome, Flights!vars

\* The end of the startup in task t, whose waiters are all the joined requests.
LEMMA MappedComplete ==
  ASSUME TypeOK, FlightInv, NEW t \in Tasks, task[t] # "done",
         task' = [task EXCEPT ![t] = "done"], NEW s, Deliver(t, s)
  PROVE  Flights!Next
  <1> DEFINE o == IF s = "READY" THEN "ready" ELSE "failed"
  <1>1. \A r \in Requests : req[r] = "joined" => awaited[r] = t
    BY DEF FlightInv, SingleStartup, StartupAwaited, JoinedAwaitsTask
  <1>2. Flying /\ ~Flying'
    BY DEF Flying, FlightInv, SingleStartup, TypeOK
  <1>3. \A r \in Requests : req'[r] = IF req[r] = "joined" THEN o ELSE req[r]
    BY <1>1 DEF Deliver
  <1>4. Waiters' = {}
    BY <1>3 DEF Waiters
  <1>5. Outcome' = [r \in Requests |-> IF r \in Waiters THEN o ELSE Outcome[r]]
    BY <1>3 DEF Waiters, Outcome
  <1>6. o \in {"ready", "failed"}
    OBVIOUS
  <1> HIDE DEF o
  <1> QED
    BY <1>2, <1>4, <1>5, <1>6, MappedEnd

LEMMA MappedNext == SlotInv /\ FlightInv /\ [Next]_vars => [Flights!Next]_(Flights!vars)
  <1> SUFFICES ASSUME SlotInv, FlightInv, [Next]_vars
               PROVE  Flights!Next \/ UNCHANGED Flights!vars
    OBVIOUS
  <1>0. TypeOK /\ req \in [Requests -> RequestPhases] /\ task \in [Tasks -> TaskPhases]
    BY DEF SlotInv, TypeOK
  <1>1. ASSUME NEW r \in Requests, ArriveReady(r) PROVE UNCHANGED Flights!vars
    <2>1. EnterInference(r) /\ req[r] = "idle" /\ UNCHANGED task
      BY <1>1 DEF ArriveReady
    <2>2. /\ req'[r] \in {"queued", "inferring"}
          /\ \A s \in Requests \ {r} : req'[s] = req[s]
      BY <2>1, EnterInferenceSlots
    <2> QED
      BY <2>1, <2>2, MappedStutter
  <1>2. ASSUME NEW r \in Requests, WakeReady(r) \/ WakeFailed(r) PROVE Flights!Next
    <2>1. req[r] \in {"ready", "failed"} /\ UNCHANGED task
      BY <1>2 DEF WakeReady, WakeFailed
    <2>2. /\ req'[r] \in {"queued", "inferring", "unavailable"}
          /\ \A s \in Requests \ {r} : req'[s] = req[s]
      <3>1. CASE WakeReady(r)
        BY <3>1, EnterInferenceSlots DEF WakeReady
      <3>2. CASE WakeFailed(r)
        BY <3>2, <1>0 DEF WakeFailed
      <3> QED
        BY <1>2, <3>1, <3>2
    <2>3. Outcome[r] # "none" /\ Outcome' = [Outcome EXCEPT ![r] = "none"]
      BY <2>1, <2>2 DEF Outcome
    <2>4. Flying' = Flying /\ UNCHANGED Waiters
      BY <2>1, <2>2 DEF Flying, Waiters
    <2> QED
      BY <2>3, <2>4, MappedConsume
  <1>3. ASSUME NEW r \in Requests, ArriveCooling(r) \/ Retire(r) PROVE UNCHANGED Flights!vars
    <2>1. /\ UNCHANGED task
          /\ \A s \in Requests :
               req'[s] = req[s] \/ {req[s], req'[s]} \cap {"joined", "ready", "failed"} = {}
      BY <1>3, <1>0 DEF ArriveCooling, Retire, Answers
    <2> QED
      BY <2>1, MappedStutter
  <1>4. ASSUME NEW r \in Requests, ArriveWaiting(r) PROVE Flights!Next
    <2>1. /\ req[r] = "idle" /\ req'[r] = "joined"
          /\ \A s \in Requests \ {r} : req'[s] = req[s]
      BY <1>4, <1>0 DEF ArriveWaiting
    <2>2. /\ Outcome[r] = "none" /\ UNCHANGED Outcome /\ r \notin Waiters
          /\ Waiters' = Waiters \cup {r}
      BY <2>1 DEF Outcome, Waiters
    <2>3. CASE StartupInFlight
      <3>1. Flying /\ Flying' = Flying
        BY <1>4, <2>3 DEF ArriveWaiting, StartupInFlight, Flying
      <3> QED
        BY <2>2, <3>1, MappedJoin
    <2>4. CASE ~StartupInFlight
      <3>1. ~Flying
        BY <2>4 DEF StartupInFlight, Flying, FlightInv, SingleStartup
      <3>2. Waiters = {}
        BY <3>1 DEF Waiters, Flying, FlightInv, StartupAwaited, JoinedAwaitsTask
      <3>3. Flying'
        BY <1>4, <2>4, <1>0 DEF ArriveWaiting, Flying
      <3>4. Waiters' = {r}
        BY <2>2, <3>2
      <3> QED
        BY <2>2, <3>1, <3>3, <3>4, MappedLaunch
    <2> QED
      BY <2>3, <2>4
  <1>5. ASSUME NEW r \in Requests, ResumeGranted(r) PROVE UNCHANGED Flights!vars
    <2>1. /\ sem_value \in Nat /\ req[r] = "granted" /\ UNCHANGED task
          /\ HandOver([req EXCEPT ![r] = "inferring"], sem_value, AllThatFit(sem_value))
      BY <1>5, <1>0, LimitsAssumption DEF ResumeGranted, TypeOK
    <2>2. /\ req'[r] = "inferring"
          /\ \A s \in Requests \ {r} :
               req'[s] = req[s] \/ (req[s] = "queued" /\ req'[s] = "granted")
      BY <2>1, HandOverJoined
    <2> QED
      BY <2>1, <2>2, MappedStutter
  <1>6. ASSUME NEW r \in Requests, NEW answer \in InferenceAnswers, InferReturns(r, answer)
        PROVE  UNCHANGED Flights!vars
    <2>1. /\ sem_value + 1 \in Nat /\ answer \in {"ok", "error"} /\ req[r] = "inferring"
          /\ HandOver([req EXCEPT ![r] = answer], sem_value + 1, FirstWaiter(sem_value + 1)) /\ UNCHANGED task
      BY <1>6, <1>0, LimitsAssumption DEF InferReturns, TypeOK, InferenceAnswers
    <2>2. /\ req'[r] = answer
          /\ \A s \in Requests \ {r} :
               req'[s] = req[s] \/ (req[s] = "queued" /\ req'[s] = "granted")
      BY <2>1, HandOverJoined
    <2> QED
      BY <2>1, <2>2, MappedStutter
  <1>7. ASSUME NEW t \in Tasks, StartupBegins(t) \/ StartFails(t) \/ BackoffEnds(t)
        PROVE  UNCHANGED Flights!vars
    <2>1. UNCHANGED req /\ \A u \in Tasks : task'[u] = "done" <=> task[u] = "done"
      BY <1>7, <1>0 DEF StartupBegins, StartFails, BackoffEnds
    <2> QED
      BY <2>1, MappedStutter
  <1>8. ASSUME NEW t \in Tasks, StartSucceeds(t) PROVE Flights!Next
    BY <1>8, <1>0, MappedComplete DEF StartSucceeds
  <1>9. ASSUME NEW t \in Tasks, CleanupReturns(t) PROVE Flights!Next \/ UNCHANGED Flights!vars
    <2>1. CASE AttemptsLeft(t)
      <3>1. UNCHANGED req /\ \A u \in Tasks : task'[u] = "done" <=> task[u] = "done"
        BY <1>9, <2>1, <1>0 DEF CleanupReturns
      <3> QED
        BY <3>1, MappedStutter
    <2>2. CASE ~AttemptsLeft(t)
      BY <1>9, <2>2, <1>0, MappedComplete DEF CleanupReturns
    <2> QED
      BY <2>1, <2>2
  <1>10. CASE LoopStep \/ ForceStopBegins \/ ForceStopReturns \/ Shutdown \/ Tick
    <2>1. UNCHANGED <<req, task>>
      BY <1>10 DEF LoopStep, HealthReturns, HealthReplies, RestOfIteration, HealthRaises,
                   LoopWakes, LoopExits, Shutdown, LoopStopReturns, ForceStopBegins,
                   ForceStopReturns, Tick
    <2> QED
      BY <2>1, MappedStutter
  <1>11. CASE Restart \/ Crash \/ TornSave
    <2>1. /\ \A t \in Tasks : task'[t] = "done"
          /\ \A r \in Requests : req'[r] = "idle"
      BY <1>11 DEF Restart, Crash, TornSave, Boot
    <2>2. ~Flying' /\ Waiters' = {} /\ Outcome' = [r \in Requests |-> "none"]
      BY <2>1 DEF Flying, Waiters, Outcome
    <2> QED
      BY <2>2, MappedAbort
  <1>12. CASE UNCHANGED vars
    BY <1>12, MappedStutter
  <1> QED
    BY <1>1, <1>2, <1>3, <1>4, <1>5, <1>6, <1>7, <1>8, <1>9, <1>10, <1>11, <1>12
    DEF Next, RequestStep, StartupStep, IncidentStep

\* The startup lock and future of ensure_ready and _do_startup
\* (worker_manager.py:48-59) implement the abstract single flight, crashes and
\* restarts included: every request that joined a startup is told the outcome of
\* that startup.
THEOREM StartupIsSingleFlight == Spec => ImplementsSingleFlight
  <1>1. Init => Flights!Init
    BY DEF Init, FreshProcess, Flights!Init
  <1> QED
    BY <1>1, MappedNext, SlotInvariant, FlightInvariant, PTL
    DEF Spec, ImplementsSingleFlight, Flights!Spec

=============================================================================
