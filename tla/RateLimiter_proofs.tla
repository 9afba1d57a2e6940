-------------------------- MODULE RateLimiter_proofs --------------------------
(***************************************************************************)
(* Proofs about RateLimiter, for every limit, window and number of         *)
(* threads: whom check() turns away and how far the deque can be overrun   *)
(* under every interleaving, and that the limit holds again once checks    *)
(* that overlapped are over.                                               *)
(***************************************************************************)
EXTENDS RateLimiter, TLAPS, FiniteSetTheorems

LEMMA TypesInit == Init => TypeOK
  <1> SUFFICES ASSUME Init PROVE TypeOK
    OBVIOUS
  <1>1. pc \in [Threads -> Places \cup Results] /\ now \in [Threads -> 0..Horizon]
    BY LimiterAssumption DEF Init, Places
  <1>2. admitted = <<>> /\ Len(admitted) = 0 /\ mixed = 0
    BY DEF Init
  <1> QED
    BY <1>1, <1>2, LimiterAssumption DEF Init, TypeOK

\* The deque, the clock and each thread's place in check() keep to their types
\* (security.py:36-48).
THEOREM Types == Spec => []TypeOK
  <1>1. TypeOK /\ [Next]_vars => TypeOK'
    <2> SUFFICES ASSUME TypeOK, [Next]_vars PROVE TypeOK'
      OBVIOUS
    <2> USE LimiterAssumption DEF TypeOK, Places, Results
    <2>0. Len(admitted) \in Nat
      OBVIOUS
    <2>1. ASSUME NEW t \in Threads, NEW place \in Places \cup Results, Goto(t, place)
          PROVE  pc' \in [Threads -> Places \cup Results]
      BY <2>1 DEF Goto
    <2>2. ASSUME NEW t \in Threads, ReadClock(t) PROVE TypeOK'
      <3>1. Meets(t) \subseteq Threads
        BY DEF Meets
      <3> QED
        BY <2>1, <2>2, <3>1 DEF ReadClock
    <2>3. ASSUME NEW t \in Threads, LookAtQueue(t) \/ CompareOldest(t) \/ CountHits(t)
          PROVE  TypeOK'
      <3>1. \E place \in Places \cup Results : Goto(t, place)
        BY <2>3 DEF LookAtQueue, CompareOldest, CountHits
      <3>2. UNCHANGED <<clock, hits, now, history>>
        BY <2>3 DEF LookAtQueue, CompareOldest, CountHits
      <3> QED
        BY <2>1, <3>1, <3>2 DEF history
    <2>4. ASSUME NEW t \in Threads, PopOldest(t) PROVE TypeOK'
      <3>1. \E place \in Places \cup Results : Goto(t, place)
        BY <2>4 DEF PopOldest
      <3>2. hits' \in Seq(0..Horizon)
        <4>1. CASE hits = <<>>
          BY <4>1, <2>4 DEF PopOldest
        <4>2. CASE hits # <<>>
          <5>1. Tail(hits) \in Seq(0..Horizon)
            BY <4>2
          <5> QED
            BY <4>2, <5>1, <2>4 DEF PopOldest
        <4> QED
          BY <4>1, <4>2
      <3>3. UNCHANGED <<clock, now, admitted, met>>
        BY <2>4 DEF PopOldest
      <3>4. mixed' \in 0..Len(admitted')
        BY <2>0, <2>4, <3>3 DEF PopOldest, Touches
      <3> QED
        BY <2>1, <3>1, <3>2, <3>3, <3>4
    <2>5. ASSUME NEW t \in Threads, AppendHit(t) PROVE TypeOK'
      <3>1. Len(admitted') = Len(admitted) + 1 /\ mixed' \in 0..Len(admitted')
        BY <2>0, <2>5 DEF AppendHit, Admits, Touches
      <3> QED
        BY <2>1, <2>5, <3>1 DEF AppendHit, Admits
    <2>6. CASE Tick
      BY <2>6 DEF Tick, history
    <2>7. CASE UNCHANGED vars
      BY <2>7 DEF vars, history
    <2> QED
      BY <2>2, <2>3, <2>4, <2>5, <2>6, <2>7 DEF Next, Check
  <1> QED
    BY <1>1, TypesInit, PTL DEF Spec

----------------------------------------------------------------------------
(* How far the deque is overrun                                             *)

\* The threads that have found room and have still to append.
Appending == {t \in Threads : pc[t] = "appending"}

\* Each of them may add a hit that nobody counts again.
RoomInv == Len(hits) + Cardinality(Appending) < MaxRequests + Cardinality(Threads)

LEMMA AppendingFinite ==
  /\ Cardinality(Threads) \in Nat /\ IsFiniteSet(Appending) /\ Cardinality(Appending) \in Nat
  /\ Cardinality(Appending) <= Cardinality(Threads)
  <1>1. Appending \subseteq Threads
    BY DEF Appending
  <1> QED
    BY <1>1, LimiterAssumption, FS_Subset, FS_CardinalityType

LEMMA RoomStep == TypeOK /\ RoomInv /\ [Next]_vars => RoomInv'
  <1> SUFFICES ASSUME TypeOK, RoomInv, [Next]_vars PROVE RoomInv'
    OBVIOUS
  <1> USE LimiterAssumption, AppendingFinite
  <1>0. hits \in Seq(0..Horizon) /\ pc \in [Threads -> Places \cup Results]
    BY DEF TypeOK
  <1>1. ASSUME Appending' = Appending, hits' = hits \/ (hits # <<>> /\ hits' = Tail(hits))
        PROVE  RoomInv'
    <2>1. Len(hits') <= Len(hits) /\ Len(hits') \in Nat /\ Len(hits) \in Nat
      BY <1>0, <1>1
    <2> QED
      BY <1>1, <2>1 DEF RoomInv
  <1>2. ASSUME NEW t \in Threads, ReadClock(t) \/ LookAtQueue(t) \/ CompareOldest(t)
        PROVE  RoomInv'
    <2>1. Appending' = Appending /\ hits' = hits
      BY <1>0, <1>2
      DEF Appending, ReadClock, LookAtQueue, CompareOldest, Goto, Busy, Places, Results
    <2> QED
      BY <1>1, <2>1
  <1>3. ASSUME NEW t \in Threads, PopOldest(t) PROVE RoomInv'
    <2>1. Appending' = Appending
      BY <1>0, <1>3 DEF Appending, PopOldest, Goto
    <2> QED
      BY <1>1, <1>3, <2>1 DEF PopOldest
  <1>4. ASSUME NEW t \in Threads, CountHits(t) PROVE RoomInv'
    <2>1. CASE Full(hits)
      <3>1. Appending' = Appending /\ hits' = hits
        BY <1>0, <1>4, <2>1 DEF Appending, CountHits, Goto
      <3> QED
        BY <1>1, <3>1
    <2>2. CASE ~Full(hits)
      <3>1. Len(hits) < MaxRequests /\ Len(hits) \in Nat /\ hits' = hits
        BY <1>0, <1>4, <2>2 DEF Full, CountHits
      <3>2. Cardinality(Appending') \in Nat /\ Cardinality(Appending') <= Cardinality(Threads)
        <4>1. Appending' \subseteq Threads
          BY DEF Appending
        <4> QED
          BY <4>1, FS_Subset, FS_CardinalityType
      <3> QED
        BY <3>1, <3>2 DEF RoomInv
    <2> QED
      BY <2>1, <2>2
  <1>5. ASSUME NEW t \in Threads, AppendHit(t) PROVE RoomInv'
    <2>1. t \in Appending /\ Appending' = Appending \ {t}
      BY <1>0, <1>5 DEF Appending, AppendHit, Goto
    <2>2. Cardinality(Appending') = Cardinality(Appending) - 1
      BY <2>1, FS_RemoveElement
    <2>3. Len(hits') = Len(hits) + 1 /\ Len(hits) \in Nat
      BY <1>0, <1>5 DEF AppendHit
    <2> QED
      BY <2>2, <2>3 DEF RoomInv
  <1>6. CASE Tick \/ UNCHANGED vars
    BY <1>1, <1>6 DEF Tick, vars, history, Appending
  <1> QED
    BY <1>2, <1>3, <1>4, <1>5, <1>6 DEF Next, Check

\* However many threads run the check (security.py:41-48) at once, the deque
\* never holds the limit plus their number: the limit is soft, not void.
THEOREM OvershootIsBounded == Spec => []OvershootBounded
  <1> USE LimiterAssumption, AppendingFinite
  <1>1. Init => RoomInv
    <2> SUFFICES ASSUME Init PROVE RoomInv
      OBVIOUS
    <2>1. Appending = {} /\ Len(hits) = 0
      BY DEF Init, Appending
    <2> QED
      BY <2>1, FS_EmptySet DEF RoomInv
  <1>2. TypeOK /\ RoomInv => OvershootBounded
    <2> SUFFICES ASSUME TypeOK, RoomInv PROVE OvershootBounded
      OBVIOUS
    <2>1. Len(hits) \in Nat
      BY DEF TypeOK
    <2> QED
      BY <2>1 DEF RoomInv, OvershootBounded
  <1> QED
    BY <1>1, <1>2, RoomStep, Types, PTL DEF Spec

----------------------------------------------------------------------------
(* Whom check() turns away, under every interleaving                        *)

\* How many of the admitted hits have been popped.
Popped == Len(admitted) - Len(hits)

\* The deque is the tail of the history, however the pops and appends of the
\* threads interleave.
TailInv ==
    /\ Len(hits) <= Len(admitted)
    /\ \A i \in 1..Len(hits) : hits[i] = admitted[Popped + i].time

\* The history is in the order of the appends, and no time is ahead of the clock.
OrderInv ==
    /\ \A i, j \in 1..Len(admitted) : i <= j => admitted[i].kept <= admitted[j].kept
    /\ \A i \in 1..Len(admitted) :
            admitted[i].time <= admitted[i].kept /\ admitted[i].kept <= clock
    /\ \A t \in Threads : now[t] <= clock

\* A thread that is about to count finds only hits kept within its window.
CountedInv ==
    \A t \in Threads : pc[t] = "counting" =>
        \A i \in 1..Len(admitted) : i > Popped => admitted[i].kept + Window >= now[t]

RefusalInv == TailInv /\ OrderInv /\ CountedInv /\ RefusedOnlyAtLimit

\* The types as the provers want them: numbers, and the fields of a hit.
LEMMA Numbers ==
  ASSUME TypeOK
  PROVE  /\ clock \in Nat /\ Len(hits) \in Nat /\ Len(admitted) \in Nat /\ mixed \in Nat
         /\ mixed <= Len(admitted)
         /\ \A t \in Threads : now[t] \in Nat
         /\ \A i \in 1..Len(hits) : hits[i] \in Nat
         /\ \A i \in 1..Len(admitted) : admitted[i].time \in Nat /\ admitted[i].kept \in Nat
  <1>1. clock \in Nat /\ Len(hits) \in Nat /\ Len(admitted) \in Nat
    BY LimiterAssumption DEF TypeOK
  <1>2. mixed \in Nat /\ mixed <= Len(admitted)
    BY <1>1 DEF TypeOK
  <1>3. \A t \in Threads : now[t] \in Nat
    BY LimiterAssumption DEF TypeOK
  <1>4. \A i \in 1..Len(hits) : hits[i] \in Nat
    BY LimiterAssumption DEF TypeOK
  <1>5. ASSUME NEW i \in 1..Len(admitted)
        PROVE  admitted[i].time \in Nat /\ admitted[i].kept \in Nat
    <2> DEFINE Hits == [time : 0..Horizon, kept : 0..Horizon]
    <2>1. admitted \in Seq(Hits)
      BY DEF TypeOK
    <2>2. admitted[i] \in Hits
      <3> HIDE DEF Hits
      <3> QED
        BY <2>1
    <2> QED
      BY <2>2, LimiterAssumption
  <1> QED
    BY <1>1, <1>2, <1>3, <1>4, <1>5

\* A thread's move from one place to another that changes nothing else.
LEMMA RefusalMove ==
  ASSUME TypeOK, RefusalInv, NEW t \in Threads, NEW place, Goto(t, place),
         UNCHANGED <<clock, hits, now, history>>,
         place = "counting" =>
            \A i \in 1..Len(admitted) : i > Popped => admitted[i].kept + Window >= now[t],
         place = "limited" =>
            /\ Len(admitted) >= MaxRequests
            /\ admitted[Len(admitted) + 1 - MaxRequests].kept + Window >= now[t]
  PROVE  RefusalInv'
  <1>1. pc'[t] = place /\ \A u \in Threads \ {t} : pc'[u] = pc[u]
    BY DEF TypeOK, Goto
  <1>2. UNCHANGED <<clock, hits, now, admitted>>
    BY DEF history
  <1>3. TailInv' /\ OrderInv'
    BY <1>2 DEF RefusalInv, TailInv, OrderInv, Popped
  <1>4. CountedInv' /\ RefusedOnlyAtLimit'
    BY <1>1, <1>2 DEF RefusalInv, CountedInv, RefusedOnlyAtLimit, Popped
  <1> QED
    BY <1>3, <1>4 DEF RefusalInv

\* What q.append(now) makes of the deque and of its history.
LEMMA Appended ==
  ASSUME TypeOK, NEW t \in Threads, AppendHit(t)
  PROVE  /\ Len(hits') = Len(hits) + 1 /\ Len(admitted') = Len(admitted) + 1
         /\ \A i \in 1..Len(hits) : hits'[i] = hits[i]
         /\ hits'[Len(hits) + 1] = now[t]
         /\ \A i \in 1..Len(admitted) : admitted'[i] = admitted[i]
         /\ admitted'[Len(admitted) + 1].time = now[t]
         /\ admitted'[Len(admitted) + 1].kept = clock
         /\ \A i \in 1..Len(admitted') : i \in 1..Len(admitted) \/ i = Len(admitted) + 1
         /\ Popped' = Popped
  <1>1. /\ hits' = Append(hits, now[t])
        /\ admitted' = Append(admitted, [time |-> now[t], kept |-> clock])
    BY DEF AppendHit, Admits
  <1>2. hits \in Seq(0..Horizon) /\ admitted \in Seq([time : 0..Horizon, kept : 0..Horizon])
    BY DEF TypeOK
  <1>3. /\ Len(hits') = Len(hits) + 1 /\ Len(admitted') = Len(admitted) + 1
        /\ \A i \in 1..Len(hits) : hits'[i] = hits[i]
        /\ hits'[Len(hits) + 1] = now[t]
    BY <1>1, <1>2, Numbers DEF TypeOK
  <1>4. /\ \A i \in 1..Len(admitted) : admitted'[i] = admitted[i]
        /\ admitted'[Len(admitted) + 1] = [time |-> now[t], kept |-> clock]
    BY <1>1, <1>2, Numbers DEF TypeOK
  <1>5. \A i \in 1..Len(admitted') : i \in 1..Len(admitted) \/ i = Len(admitted) + 1
    BY <1>3, Numbers
  <1>6. Popped' = Popped
    BY <1>3, Numbers DEF Popped
  <1> QED
    BY <1>3, <1>4, <1>5, <1>6

\* And q.popleft(), on a deque that holds something.
LEMMA PoppedOne ==
  ASSUME TypeOK, TailInv, NEW t \in Threads, PopOldest(t), hits # <<>>
  PROVE  /\ UNCHANGED <<clock, now, admitted, met>> /\ Goto(t, "looking")
         /\ Popped' = Popped + 1 /\ Popped \in Nat /\ Popped + 1 \in 1..Len(admitted)
         /\ Head(hits) = admitted[Popped + 1].time
         /\ TailInv'
  <1>1. /\ UNCHANGED <<clock, now, admitted, met>> /\ Goto(t, "looking")
        /\ hits' = Tail(hits)
    BY DEF PopOldest
  <1>2. hits \in Seq(0..Horizon)
    BY DEF TypeOK
  <1>3. /\ Len(hits') = Len(hits) - 1 /\ Len(hits) > 0
        /\ \A i \in 1..Len(hits') : hits'[i] = hits[i + 1]
        /\ Head(hits) = hits[1]
    BY <1>1, <1>2
  <1>4. /\ Popped' = Popped + 1 /\ Popped \in Nat /\ Popped + 1 \in 1..Len(admitted)
    BY <1>1, <1>3, Numbers DEF Popped, TailInv
  <1>5. Head(hits) = admitted[Popped + 1].time
    BY <1>3, Numbers DEF TailInv
  <1>6. ASSUME NEW i \in 1..Len(hits') PROVE hits'[i] = admitted'[Popped' + i].time
    <2>1. i + 1 \in 1..Len(hits)
      BY <1>3, Numbers
    <2>2. hits[i + 1] = admitted[Popped + (i + 1)].time
      BY <2>1 DEF TailInv
    <2>3. Popped + (i + 1) = Popped' + i
      BY <1>4
    <2> QED
      BY <1>1, <1>3, <2>2, <2>3
  <1>7. TailInv'
    BY <1>1, <1>3, <1>6, Numbers DEF TailInv
  <1> QED
    BY <1>1, <1>4, <1>5, <1>7

LEMMA RefusalStep ==
  ASSUME TypeOK, RefusalInv, [Next]_vars
  PROVE  RefusalInv'
  <1> USE LimiterAssumption
  <1>0. pc \in [Threads -> Places \cup Results]
    BY DEF TypeOK
  <1>1. ASSUME NEW t \in Threads, ReadClock(t) PROVE RefusalInv'
    <2>1. /\ UNCHANGED <<clock, hits, admitted>> /\ now'[t] = clock /\ pc'[t] = "looking"
          /\ \A u \in Threads \ {t} : pc'[u] = pc[u] /\ now'[u] = now[u]
      BY <1>0, <1>1 DEF ReadClock, Goto, TypeOK
    <2>2. TailInv'
      BY <2>1 DEF RefusalInv, TailInv, Popped
    <2>3. OrderInv'
      BY <2>1, Numbers DEF RefusalInv, OrderInv
    <2>4. CountedInv' /\ RefusedOnlyAtLimit'
      BY <2>1 DEF RefusalInv, CountedInv, RefusedOnlyAtLimit, Popped
    <2> QED
      BY <2>2, <2>3, <2>4 DEF RefusalInv
  <1>2. ASSUME NEW t \in Threads, LookAtQueue(t) PROVE RefusalInv'
    <2>1. UNCHANGED <<clock, hits, now, history>>
      BY <1>2 DEF LookAtQueue
    <2>2. CASE hits = <<>>
      <3>1. Popped = Len(admitted)
        BY <2>2, Numbers DEF Popped
      <3>2. \A i \in 1..Len(admitted) : ~(i > Popped)
        BY <3>1, Numbers
      <3> QED
        BY <1>2, <2>1, <2>2, <3>2, RefusalMove DEF LookAtQueue
    <2>3. CASE hits # <<>>
      BY <1>2, <2>1, <2>3, RefusalMove DEF LookAtQueue
    <2> QED
      BY <2>2, <2>3
  <1>3. ASSUME NEW t \in Threads, CompareOldest(t) PROVE RefusalInv'
    <2>1. UNCHANGED <<clock, hits, now, history>>
      BY <1>3 DEF CompareOldest
    <2>2. CASE hits = <<>>
      BY <1>3, <2>1, <2>2, RefusalMove DEF CompareOldest
    <2>3. CASE hits # <<>> /\ Expired(t)
      BY <1>3, <2>1, <2>3, RefusalMove DEF CompareOldest
    <2>4. CASE hits # <<>> /\ ~Expired(t)
      <3>1. 1 \in 1..Len(hits) /\ Head(hits) = hits[1]
        BY <2>4, Numbers DEF TypeOK
      <3>2. /\ Popped + 1 \in 1..Len(admitted) /\ Popped \in Nat
            /\ hits[1] = admitted[Popped + 1].time
        BY <3>1, Numbers DEF RefusalInv, TailInv, Popped
      <3>3. admitted[Popped + 1].kept + Window >= now[t]
        <4>1. admitted[Popped + 1].time <= admitted[Popped + 1].kept
          BY <3>2 DEF RefusalInv, OrderInv
        <4> QED
          BY <2>4, <3>1, <3>2, <4>1, Numbers DEF Expired
      <3>4. ASSUME NEW i \in 1..Len(admitted), i > Popped
            PROVE  admitted[i].kept + Window >= now[t]
        <4>1. admitted[Popped + 1].kept <= admitted[i].kept
          BY <3>2, <3>4 DEF RefusalInv, OrderInv
        <4> QED
          BY <3>2, <3>3, <4>1, Numbers
      <3> QED
        BY <1>3, <2>1, <2>4, <3>4, RefusalMove DEF CompareOldest
    <2> QED
      BY <2>2, <2>3, <2>4
  <1>4. ASSUME NEW t \in Threads, PopOldest(t) PROVE RefusalInv'
    <2>1. CASE hits = <<>>
      <3>1. Goto(t, "crashed") /\ UNCHANGED <<clock, hits, now, history>>
        BY <1>4, <2>1 DEF PopOldest, history
      <3> QED
        BY <3>1, RefusalMove
    <2>2. CASE hits # <<>>
      <3>1. /\ UNCHANGED <<clock, now, admitted>> /\ Goto(t, "looking")
            /\ Popped' = Popped + 1 /\ Popped \in Nat /\ TailInv'
        BY <1>4, <2>2, PoppedOne DEF RefusalInv
      <3>2. pc'[t] = "looking" /\ \A u \in Threads \ {t} : pc'[u] = pc[u]
        BY <1>0, <3>1 DEF Goto
      <3>3. OrderInv'
        BY <3>1 DEF RefusalInv, OrderInv
      <3>4. CountedInv' /\ RefusedOnlyAtLimit'
        BY <3>1, <3>2 DEF RefusalInv, CountedInv, RefusedOnlyAtLimit
      <3> QED
        BY <3>1, <3>3, <3>4 DEF RefusalInv
    <2> QED
      BY <2>1, <2>2
  <1>5. ASSUME NEW t \in Threads, CountHits(t) PROVE RefusalInv'
    <2>1. pc[t] = "counting" /\ UNCHANGED <<clock, hits, now, history>>
      BY <1>5 DEF CountHits
    <2>2. CASE ~Full(hits)
      BY <1>5, <2>1, <2>2, RefusalMove DEF CountHits
    <2>3. CASE Full(hits)
      <3> DEFINE k == Len(admitted) + 1 - MaxRequests
      <3>1. Len(hits) >= MaxRequests /\ Len(hits) <= Len(admitted)
        BY <2>3 DEF Full, RefusalInv, TailInv
      <3>2. k \in 1..Len(admitted) /\ k > Popped /\ Len(admitted) >= MaxRequests
        BY <3>1, Numbers DEF Popped
      <3>3. admitted[k].kept + Window >= now[t]
        BY <2>1, <3>2 DEF RefusalInv, CountedInv
      <3> QED
        BY <1>5, <2>1, <2>3, <3>2, <3>3, RefusalMove DEF CountHits
    <2> QED
      BY <2>2, <2>3
  <1>6. ASSUME NEW t \in Threads, AppendHit(t) PROVE RefusalInv'
    <2>0. /\ Len(hits') = Len(hits) + 1 /\ Len(admitted') = Len(admitted) + 1
          /\ \A i \in 1..Len(hits) : hits'[i] = hits[i]
          /\ hits'[Len(hits) + 1] = now[t]
          /\ \A i \in 1..Len(admitted) : admitted'[i] = admitted[i]
          /\ admitted'[Len(admitted) + 1].time = now[t]
          /\ admitted'[Len(admitted) + 1].kept = clock
          /\ \A i \in 1..Len(admitted') : i \in 1..Len(admitted) \/ i = Len(admitted) + 1
          /\ Popped' = Popped
      BY <1>6, Appended
    <2>1. /\ UNCHANGED <<clock, now>> /\ pc'[t] = "passed"
          /\ \A u \in Threads \ {t} : pc'[u] = pc[u]
      BY <1>0, <1>6 DEF AppendHit, Goto
    <2>2. TailInv'
      <3>1. ASSUME NEW i \in 1..Len(hits') PROVE hits'[i] = admitted'[Popped' + i].time
        <4>1. CASE i \in 1..Len(hits)
          <5>1. hits[i] = admitted[Popped + i].time /\ Popped + i \in 1..Len(admitted)
            BY <4>1, Numbers DEF RefusalInv, TailInv, Popped
          <5> QED
            BY <2>0, <4>1, <5>1
        <4>2. CASE i = Len(hits) + 1
          <5>1. Popped' + i = Len(admitted) + 1
            BY <2>0, <4>2, Numbers DEF Popped
          <5> QED
            BY <2>0, <4>2, <5>1
        <4> QED
          BY <2>0, <4>1, <4>2, Numbers
      <3> QED
        BY <2>0, <3>1, Numbers DEF RefusalInv, TailInv
    <2>3. OrderInv'
      <3>1. /\ admitted'[Len(admitted) + 1].kept = clock
            /\ admitted'[Len(admitted) + 1].time = now[t]
            /\ now[t] <= clock
        BY <2>0 DEF RefusalInv, OrderInv
      <3>2. ASSUME NEW i \in 1..Len(admitted')
            PROVE  admitted'[i].time <= admitted'[i].kept /\ admitted'[i].kept <= clock
        BY <2>0, <3>1, Numbers DEF RefusalInv, OrderInv
      <3>3. ASSUME NEW i \in 1..Len(admitted'), NEW j \in 1..Len(admitted'), i <= j
            PROVE  admitted'[i].kept <= admitted'[j].kept
        <4>1. CASE j \in 1..Len(admitted)
          <5>1. i \in 1..Len(admitted)
            BY <2>0, <3>3, <4>1, Numbers
          <5> QED
            BY <2>0, <3>3, <4>1, <5>1 DEF RefusalInv, OrderInv
        <4>2. CASE j = Len(admitted) + 1
          BY <3>1, <3>2, <4>2
        <4> QED
          BY <2>0, <4>1, <4>2
      <3> QED
        BY <2>1, <3>2, <3>3 DEF RefusalInv, OrderInv
    <2>4. CountedInv'
      <3> SUFFICES ASSUME NEW u \in Threads, pc'[u] = "counting",
                          NEW i \in 1..Len(admitted'), i > Popped'
                   PROVE  admitted'[i].kept + Window >= now'[u]
        BY DEF CountedInv
      <3>1. CASE i \in 1..Len(admitted)
        BY <2>0, <2>1, <3>1 DEF RefusalInv, CountedInv
      <3>2. CASE i = Len(admitted) + 1
        <4>1. admitted'[i].kept = clock /\ now[u] <= clock
          BY <2>0, <3>2 DEF RefusalInv, OrderInv
        <4> QED
          BY <2>1, <4>1, Numbers
      <3> QED
        BY <2>0, <3>1, <3>2
    <2>5. RefusedOnlyAtLimit'
      <3> SUFFICES ASSUME NEW u \in Threads, pc'[u] = "limited"
                   PROVE  /\ Len(admitted') >= MaxRequests
                          /\ admitted'[Len(admitted') + 1 - MaxRequests].kept + Window >= now'[u]
        BY DEF RefusedOnlyAtLimit
      <3> DEFINE k == Len(admitted) + 1 - MaxRequests
      <3>1. Len(admitted) >= MaxRequests /\ admitted[k].kept + Window >= now[u]
        BY <2>1 DEF RefusalInv, RefusedOnlyAtLimit
      <3>2. k \in 1..Len(admitted) /\ k + 1 \in 1..Len(admitted') /\ k \in 1..Len(admitted')
        BY <2>0, <3>1, Numbers
      <3>3. Len(admitted') + 1 - MaxRequests = k + 1 /\ now'[u] = now[u]
            /\ Len(admitted') >= MaxRequests
        BY <2>0, <2>1, <3>1, Numbers
      <3>4. admitted'[k + 1].kept + Window >= now[u]
        <4>1. admitted'[k].kept <= admitted'[k + 1].kept
          <5> HIDE DEF k
          <5>1. k <= k + 1
            BY <3>2
          <5> QED
            BY <2>3, <3>2, <5>1 DEF OrderInv
        <4>4. admitted'[k] = admitted[k]
          <5> HIDE DEF k
          <5> QED
            BY <2>0, <3>2
        <4>2. admitted'[k + 1].kept \in Nat
          <5>1. k + 1 \in 1..Len(admitted) \/ k + 1 = Len(admitted) + 1
            BY <2>0, <3>2
          <5> QED
            BY <2>0, <5>1, Numbers
        <4>3. admitted[k].kept \in Nat /\ now[u] \in Nat
          BY <3>2, Numbers
        <4> HIDE DEF k
        <4> QED
          BY <3>1, <4>1, <4>2, <4>3, <4>4
      <3> QED
        BY <3>3, <3>4
    <2> QED
      BY <2>2, <2>3, <2>4, <2>5 DEF RefusalInv
  <1>7. CASE Tick
    <2>1. clock' = clock + 1 /\ UNCHANGED <<hits, pc, now, admitted>>
      BY <1>7 DEF Tick, history
    <2>2. OrderInv'
      BY <2>1, Numbers DEF RefusalInv, OrderInv
    <2>3. TailInv' /\ CountedInv' /\ RefusedOnlyAtLimit'
      BY <2>1 DEF RefusalInv, TailInv, CountedInv, RefusedOnlyAtLimit, Popped
    <2> QED
      BY <2>2, <2>3 DEF RefusalInv
  <1>8. CASE UNCHANGED vars
    BY <1>8 DEF vars, history, RefusalInv, TailInv, OrderInv, CountedInv, RefusedOnlyAtLimit,
                Popped
  <1> QED
    BY <1>1, <1>2, <1>3, <1>4, <1>5, <1>6, <1>7, <1>8 DEF Next, Check

LEMMA RefusalInvariant == Spec => []RefusalInv
  <1>1. Init => RefusalInv
    <2> SUFFICES ASSUME Init PROVE RefusalInv
      OBVIOUS
    <2>1. Len(hits) = 0 /\ Len(admitted) = 0
      BY DEF Init
    <2>2. TailInv /\ OrderInv
      BY <2>1 DEF Init, TailInv, OrderInv
    <2>3. CountedInv /\ RefusedOnlyAtLimit
      BY DEF Init, CountedInv, RefusedOnlyAtLimit
    <2> QED
      BY <2>2, <2>3 DEF RefusalInv
  <1> QED
    BY <1>1, RefusalStep, Types, PTL DEF Spec

\* However many threads run security.py:41-48 at once, whoever is turned away
\* finds that max_requests hits were admitted since the window before its check.
THEOREM RefusalsAreDeserved == Spec => []RefusedOnlyAtLimit
  <1>1. RefusalInv => RefusedOnlyAtLimit
    BY DEF RefusalInv
  <1> QED
    BY <1>1, RefusalInvariant, PTL

----------------------------------------------------------------------------
(* The limit, once the checks that overlapped are over                      *)

\* t is inside check() and has met nobody there so far.
Solo(t) == Busy(t) /\ t \notin met

\* So it is alone there.
SoloInv == \A t, u \in Threads : Solo(t) /\ Busy(u) => u = t

\* What it has seen of the deque is still so, and no hit is later than its clock.
SeenInv ==
    \A t \in Threads : Solo(t) =>
        /\ pc[t] = "popping" => Expired(t)
        /\ pc[t] = "appending" => ~Full(hits)
        /\ \A i \in 1..Len(admitted) : admitted[i].time <= now[t]

\* Of the hits after `mixed`, those that were popped had left the window.
GoneInv ==
    \A i \in 1..Len(admitted) : mixed < i /\ i <= Popped =>
        /\ admitted[i].time + Window < clock
        /\ \A t \in Threads : Solo(t) => admitted[i].time + Window < now[t]

LimitInv == SoloInv /\ SeenInv /\ GoneInv /\ WithinLimit

\* A step of a thread inside check() leaves nobody else alone there.
LEMMA SoloStays ==
  ASSUME TypeOK, SoloInv, NEW t \in Threads, Busy(t), NEW place, Goto(t, place), met' = met
  PROVE  /\ pc'[t] = place
         /\ \A u \in Threads : Solo(u)' => u = t /\ Solo(t)
         /\ SoloInv'
  <1>1. pc'[t] = place /\ \A u \in Threads \ {t} : pc'[u] = pc[u]
    BY DEF TypeOK, Goto
  <1>2. ASSUME NEW u \in Threads, Solo(u)' PROVE u = t /\ Solo(t)
    <2>1. CASE u = t
      BY <1>2, <2>1 DEF Solo
    <2>2. CASE u # t
      BY <1>1, <1>2, <2>2 DEF Solo, Busy, SoloInv
    <2> QED
      BY <2>1, <2>2
  <1>3. ASSUME NEW u \in Threads, NEW v \in Threads, Solo(u)', Busy(v)' PROVE v = u
    <2>1. u = t /\ Solo(t)
      BY <1>2, <1>3
    <2>2. CASE v = t
      BY <2>1, <2>2
    <2>3. CASE v # t
      BY <1>1, <1>3, <2>1, <2>3 DEF Busy, SoloInv
    <2> QED
      BY <2>2, <2>3
  <1> QED
    BY <1>1, <1>2, <1>3 DEF SoloInv

\* A thread's move from one place to another that changes nothing else.
LEMMA LimitMove ==
  ASSUME TypeOK, LimitInv, NEW t \in Threads, Busy(t), NEW place, Goto(t, place),
         UNCHANGED <<clock, hits, now, history>>,
         place = "popping" => Expired(t),
         place = "appending" => ~Full(hits)
  PROVE  LimitInv'
  <1>1. UNCHANGED <<clock, hits, now, admitted, met, mixed>>
    BY DEF history
  <1>2. pc'[t] = place /\ SoloInv' /\ \A u \in Threads : Solo(u)' => u = t /\ Solo(t)
    BY <1>1, SoloStays DEF LimitInv
  <1>3. SeenInv'
    BY <1>1, <1>2 DEF LimitInv, SeenInv, Expired, Full
  <1>4. GoneInv'
    BY <1>1, <1>2 DEF LimitInv, GoneInv, Popped
  <1>5. WithinLimit'
    BY <1>1 DEF LimitInv, WithinLimit
  <1> QED
    BY <1>2, <1>3, <1>4, <1>5 DEF LimitInv

LEMMA LimitStep ==
  ASSUME TypeOK, TypeOK', RefusalInv, LimitInv, [Next]_vars
  PROVE  LimitInv'
  <1> USE LimiterAssumption
  <1>0. pc \in [Threads -> Places \cup Results]
    BY DEF TypeOK
  <1>1. ASSUME NEW t \in Threads, ReadClock(t) PROVE LimitInv'
    <2>1. /\ UNCHANGED <<clock, hits, admitted, mixed>> /\ now'[t] = clock
          /\ pc'[t] = "looking" /\ met' = Meets(t) /\ ~Busy(t)
          /\ \A u \in Threads \ {t} : pc'[u] = pc[u] /\ now'[u] = now[u]
      BY <1>0, <1>1 DEF ReadClock, Goto, TypeOK
    <2>2. \A u \in Threads : Busy(u)' => u = t \/ Busy(u)
      BY <2>1 DEF Busy
    <2>3. \A u \in Threads : Solo(u)' => u = t /\ \A v \in Threads : ~Busy(v)
      <3>1. CASE \A v \in Threads : ~Busy(v)
        BY <2>2, <3>1 DEF Solo
      <3>2. CASE \E v \in Threads : Busy(v)
        <4>1. met' = met \cup {v \in Threads : Busy(v)} \cup {t}
          BY <2>1, <3>2 DEF Meets
        <4> QED
          BY <2>2, <4>1 DEF Solo
      <3> QED
        BY <3>1, <3>2
    <2>4. SoloInv'
      BY <2>2, <2>3 DEF SoloInv
    <2>5. SeenInv'
      <3>1. \A i \in 1..Len(admitted) : admitted[i].time <= clock
        BY Numbers DEF RefusalInv, OrderInv
      <3> QED
        BY <2>1, <2>3, <3>1 DEF SeenInv
    <2>6. GoneInv'
      BY <2>1, <2>3 DEF LimitInv, GoneInv, Popped
    <2>7. WithinLimit'
      BY <2>1 DEF LimitInv, WithinLimit
    <2> QED
      BY <2>4, <2>5, <2>6, <2>7 DEF LimitInv
  <1>2. ASSUME NEW t \in Threads, LookAtQueue(t) PROVE LimitInv'
    <2>1. Busy(t) /\ UNCHANGED <<clock, hits, now, history>>
      BY <1>2 DEF LookAtQueue, Busy, Results
    <2>2. \E place \in {"counting", "comparing"} : Goto(t, place)
      BY <1>2 DEF LookAtQueue
    <2> QED
      BY <2>1, <2>2, LimitMove
  <1>3. ASSUME NEW t \in Threads, CompareOldest(t) PROVE LimitInv'
    <2>1. Busy(t) /\ UNCHANGED <<clock, hits, now, history>>
      BY <1>3 DEF CompareOldest, Busy, Results
    <2>2. CASE hits # <<>> /\ Expired(t)
      BY <1>3, <2>1, <2>2, LimitMove DEF CompareOldest
    <2>3. CASE ~(hits # <<>> /\ Expired(t))
      <3>1. \E place \in {"crashed", "counting"} : Goto(t, place)
        BY <1>3, <2>3 DEF CompareOldest
      <3> QED
        BY <2>1, <3>1, LimitMove
    <2> QED
      BY <2>2, <2>3
  <1>4. ASSUME NEW t \in Threads, PopOldest(t) PROVE LimitInv'
    <2>0. pc[t] = "popping" /\ Busy(t)
      BY <1>4 DEF PopOldest, Busy, Results
    <2>1. CASE hits = <<>>
      <3>1. Goto(t, "crashed") /\ UNCHANGED <<clock, hits, now, history>>
        BY <1>4, <2>1 DEF PopOldest, history
      <3> QED
        BY <2>0, <3>1, LimitMove
    <2>2. CASE hits # <<>>
      <3>1. /\ UNCHANGED <<clock, now, admitted, met>> /\ Goto(t, "looking")
            /\ Popped' = Popped + 1 /\ Popped \in Nat /\ Popped + 1 \in 1..Len(admitted)
            /\ Head(hits) = admitted[Popped + 1].time
        BY <1>4, <2>2, PoppedOne DEF RefusalInv
      <3>2. /\ pc'[t] = "looking" /\ SoloInv'
            /\ \A u \in Threads : Solo(u)' => u = t /\ Solo(t)
        BY <2>0, <3>1, SoloStays DEF LimitInv
      <3>3. SeenInv'
        BY <3>1, <3>2 DEF LimitInv, SeenInv
      <3>4. CASE t \in met
        <4>1. mixed' = Len(admitted)
          BY <1>4, <2>2, <3>4 DEF PopOldest, Touches
        <4>2. GoneInv' /\ WithinLimit'
          BY <3>1, <4>1, Numbers DEF GoneInv, WithinLimit
        <4> QED
          BY <3>2, <3>3, <4>2 DEF LimitInv
      <3>5. CASE t \notin met
        <4>1. mixed' = mixed /\ Solo(t)
          BY <1>4, <2>0, <2>2, <3>5 DEF PopOldest, Touches, Solo
        <4>2. /\ admitted[Popped + 1].time + Window < now[t] /\ now[t] <= clock
              /\ admitted[Popped + 1].time \in Nat /\ now[t] \in Nat
          BY <2>0, <3>1, <4>1, Numbers DEF LimitInv, SeenInv, Expired, RefusalInv, OrderInv
        <4>3. ASSUME NEW i \in 1..Len(admitted), mixed < i, i <= Popped + 1
              PROVE  admitted[i].time + Window < clock /\ admitted[i].time + Window < now[t]
          <5>1. CASE i <= Popped
            BY <4>1, <4>3, <5>1 DEF LimitInv, GoneInv
          <5>2. CASE i = Popped + 1
            BY <4>2, <5>2, Numbers
          <5> QED
            BY <3>1, <4>3, <5>1, <5>2
        <4>4. GoneInv'
          BY <3>1, <3>2, <4>1, <4>3 DEF GoneInv
        <4>5. WithinLimit'
          BY <3>1, <4>1 DEF LimitInv, WithinLimit
        <4> QED
          BY <3>2, <3>3, <4>4, <4>5 DEF LimitInv
      <3> QED
        BY <3>4, <3>5
    <2> QED
      BY <2>1, <2>2
  <1>5. ASSUME NEW t \in Threads, CountHits(t) PROVE LimitInv'
    <2>1. Busy(t) /\ UNCHANGED <<clock, hits, now, history>>
      BY <1>5 DEF CountHits, Busy, Results
    <2>2. CASE Full(hits)
      BY <1>5, <2>1, <2>2, LimitMove DEF CountHits
    <2>3. CASE ~Full(hits)
      BY <1>5, <2>1, <2>3, LimitMove DEF CountHits
    <2> QED
      BY <2>2, <2>3
  <1>6. ASSUME NEW t \in Threads, AppendHit(t) PROVE LimitInv'
    <2>0. /\ Len(admitted') = Len(admitted) + 1
          /\ \A i \in 1..Len(admitted) : admitted'[i] = admitted[i]
          /\ admitted'[Len(admitted) + 1].time = now[t]
          /\ \A i \in 1..Len(admitted') : i \in 1..Len(admitted) \/ i = Len(admitted) + 1
          /\ Popped' = Popped /\ Popped <= Len(admitted)
      BY <1>6, Appended, Numbers DEF Popped
    <2>1. /\ pc[t] = "appending" /\ Busy(t) /\ Goto(t, "passed")
          /\ UNCHANGED <<clock, now, met>>
      BY <1>6 DEF AppendHit, Busy, Results
    <2>2. SoloInv' /\ \A u \in Threads : ~Solo(u)'
      <3>1. /\ pc'[t] = "passed" /\ SoloInv'
            /\ \A u \in Threads : Solo(u)' => u = t /\ Solo(t)
        BY <2>1, SoloStays DEF LimitInv
      <3> QED
        BY <3>1 DEF Solo, Busy, Results
    <2>3. SeenInv'
      BY <2>2 DEF SeenInv
    <2>4. CASE t \in met
      <3>1. mixed' = Len(admitted')
        BY <1>6, <2>0, <2>4 DEF AppendHit, Admits, Touches
      <3>2. GoneInv' /\ WithinLimit'
        BY <2>0, <3>1, Numbers DEF GoneInv, WithinLimit
      <3> QED
        BY <2>2, <2>3, <3>2 DEF LimitInv
    <2>5. CASE t \notin met
      <3>1. mixed' = mixed /\ Solo(t)
        BY <1>6, <2>1, <2>5 DEF AppendHit, Admits, Touches, Solo
      <3>2. /\ \A i \in 1..Len(admitted) : admitted[i].time <= now[t]
            /\ Len(hits) < MaxRequests
        BY <2>1, <3>1, Numbers DEF LimitInv, SeenInv, Full
      <3>3. GoneInv'
        <4> SUFFICES ASSUME NEW i \in 1..Len(admitted'), mixed < i, i <= Popped
                     PROVE  admitted'[i].time + Window < clock
          BY <2>0, <2>1, <2>2, <3>1 DEF GoneInv
        <4>1. i \in 1..Len(admitted)
          BY <2>0, Numbers DEF Popped
        <4> QED
          BY <2>0, <4>1 DEF LimitInv, GoneInv
      <3>4. WithinLimit'
        <4> SUFFICES ASSUME NEW i \in (mixed + 1)..Len(admitted')
                     PROVE  /\ \A j \in i..Len(admitted') : admitted'[i].time <= admitted'[j].time
                            /\ i + MaxRequests <= Len(admitted') =>
                                 admitted'[i + MaxRequests].time > admitted'[i].time + Window
          BY <3>1 DEF WithinLimit
        <4>0. i \in 1..Len(admitted')
          BY <2>0, Numbers
        <4>1. ASSUME NEW j \in i..Len(admitted') PROVE admitted'[i].time <= admitted'[j].time
          <5>1. CASE j \in 1..Len(admitted)
            <6>1. i \in (mixed + 1)..Len(admitted) /\ i \in 1..Len(admitted) /\ j \in i..Len(admitted)
              BY <4>0, <5>1, Numbers
            <6>2. admitted[i].time <= admitted[j].time
              BY <6>1 DEF LimitInv, WithinLimit
            <6> QED
              BY <2>0, <5>1, <6>1, <6>2
          <5>2. CASE j = Len(admitted) + 1
            <6>1. CASE i = Len(admitted) + 1
              BY <2>0, <5>2, <6>1, Numbers
            <6>2. CASE i \in 1..Len(admitted)
              BY <2>0, <3>2, <5>2, <6>2
            <6> QED
              BY <2>0, <4>0, <6>1, <6>2
          <5>3. j \in 1..Len(admitted')
            BY <4>0, Numbers
          <5> QED
            BY <2>0, <5>1, <5>2, <5>3
        <4>2. ASSUME i + MaxRequests <= Len(admitted')
              PROVE  admitted'[i + MaxRequests].time > admitted'[i].time + Window
          <5>1. CASE i + MaxRequests <= Len(admitted)
            <6>1. /\ i \in (mixed + 1)..Len(admitted) /\ i \in 1..Len(admitted)
                  /\ i + MaxRequests \in 1..Len(admitted)
              BY <4>0, <5>1, Numbers
            <6>2. admitted[i + MaxRequests].time > admitted[i].time + Window
              BY <5>1, <6>1 DEF LimitInv, WithinLimit
            <6> QED
              BY <2>0, <6>1, <6>2
          <5>2. CASE i + MaxRequests = Len(admitted) + 1
            <6>1. i \in 1..Len(admitted) /\ mixed < i /\ i <= Popped
              BY <3>2, <4>0, <5>2, Numbers DEF Popped
            <6>2. admitted[i].time + Window < now[t]
              BY <3>1, <6>1 DEF LimitInv, GoneInv
            <6>3. admitted'[i] = admitted[i] /\ admitted'[i + MaxRequests].time = now[t]
              BY <2>0, <5>2, <6>1
            <6> QED
              BY <6>1, <6>2, <6>3, Numbers
          <5> QED
            BY <2>0, <4>0, <4>2, <5>1, <5>2, Numbers
        <4> QED
          BY <4>1, <4>2
      <3> QED
        BY <2>2, <2>3, <3>3, <3>4 DEF LimitInv
    <2> QED
      BY <2>4, <2>5
  <1>7. CASE Tick
    <2>1. clock' = clock + 1 /\ UNCHANGED <<hits, pc, now, admitted, met, mixed>>
      BY <1>7 DEF Tick, history
    <2>2. SoloInv' /\ SeenInv'
      BY <2>1 DEF LimitInv, SoloInv, SeenInv, Solo, Busy, Expired, Full
    <2>3. GoneInv'
      <3>1. \A i \in 1..Len(admitted) : mixed < i /\ i <= Popped =>
              admitted[i].time + Window < clock + 1
        BY Numbers DEF LimitInv, GoneInv
      <3>2. Popped' = Popped /\ \A t \in Threads : Solo(t)' <=> Solo(t)
        BY <2>1 DEF Popped, Solo, Busy
      <3> QED
        BY <2>1, <3>1, <3>2 DEF LimitInv, GoneInv
    <2>4. WithinLimit'
      BY <2>1 DEF LimitInv, WithinLimit
    <2> QED
      BY <2>2, <2>3, <2>4 DEF LimitInv
  <1>8. CASE UNCHANGED vars
    <2>1. UNCHANGED <<clock, hits, pc, now, admitted, met, mixed>>
      BY <1>8 DEF vars, history
    <2> QED
      BY <2>1 DEF LimitInv, SoloInv, SeenInv, GoneInv, WithinLimit, Solo, Busy, Expired, Full,
                  Popped
  <1> QED
    BY <1>1, <1>2, <1>3, <1>4, <1>5, <1>6, <1>7, <1>8 DEF Next, Check

LEMMA LimitInvariant == Spec => []LimitInv
  <1>1. Init => LimitInv
    <2> SUFFICES ASSUME Init PROVE LimitInv
      OBVIOUS
    <2>1. Len(admitted) = 0 /\ mixed = 0 /\ \A t \in Threads : ~Busy(t)
      BY DEF Init, Busy
    <2> QED
      BY <2>1 DEF LimitInv, SoloInv, SeenInv, GoneInv, WithinLimit, Solo
  <1>2. TypeOK /\ TypeOK' /\ RefusalInv /\ LimitInv /\ [Next]_vars => LimitInv'
    BY LimitStep
  <1> QED
    BY <1>1, <1>2, RefusalInvariant, Types, PTL DEF Spec

\* Of the hits admitted since two checks that overlapped last changed the deque
\* (security.py:41-48), at most max_requests fall into any window of that length,
\* both ends included, whichever threads the checks run in.
THEOREM LimitHoldsAgain == Spec => []WithinLimit
  <1>1. LimitInv => WithinLimit
    BY DEF LimitInv
  <1> QED
    BY <1>1, LimitInvariant, PTL

=============================================================================
