---------------------------- MODULE FoldSteps ----------------------------
(***************************************************************************)
(* A fold over a sequence, one element after the other, for any operator.  *)
(* A module that proves about a fold instantiates this one with the        *)
(* operator it folds with.                                                 *)
(***************************************************************************)
EXTENDS Integers, FiniteSets, SequencesExt, FiniteSetTheorems, TLAPS

CONSTANT Op(_, _)

\* A nonempty set of numbers has a least one: 0..x shrinks with x.
THEOREM LeastNumber ==
    ASSUME NEW T \in SUBSET Nat, T # {}
    PROVE  \E x \in T : \A y \in T : x <= y
  <1> DEFINE U == {0..x : x \in T}
             R == StrictSubsetOrdering(Nat)
  <1>1. U \subseteq FiniteSubsetsOf(Nat) /\ U # {}
    <2>1. \A x \in T : 0..x \subseteq Nat /\ IsFiniteSet(0..x)
      BY FS_Interval, 0 \in Int, Nat \subseteq Int
    <2> QED
      BY <2>1 DEF FiniteSubsetsOf
  <1>2. IsWellFoundedOn(R, FiniteSubsetsOf(Nat))
    BY FS_StrictSubsetOrderingWellFounded
  <1>3. \E s \in U : \A t \in U : <<t, s>> \notin R
    <2> HIDE DEF U, R
    <2> QED
      BY <1>1, <1>2, WFMin
  <1>4. PICK x \in T : \A y \in T : <<0..y, 0..x>> \notin R
    BY <1>3
  <1>5. ASSUME NEW y \in T, y < x PROVE FALSE
    <2>1. 0..y \subseteq 0..x /\ x \in 0..x /\ x \notin 0..y
      BY <1>5
    <2>2. <<0..y, 0..x>> \in (SUBSET Nat) \X (SUBSET Nat)
      OBVIOUS
    <2> QED
      BY <1>4, <2>1, <2>2 DEF StrictSubsetOrdering
  <1> QED
    BY <1>5

\* Induction up to n: a set that holds 0, and k with k - 1, holds every number.
THEOREM UpTo ==
    ASSUME NEW n \in Nat, NEW Holds \in SUBSET (0..n), 0 \in Holds,
           \A k \in 1..n : k - 1 \in Holds => k \in Holds
    PROVE  Holds = 0..n
  <1> DEFINE Fails == (0..n) \ Holds
  <1>1. CASE Fails # {}
    <2>1. PICK x \in Fails : \A y \in Fails : x <= y
      <3>1. Fails \in SUBSET Nat
        OBVIOUS
      <3> HIDE DEF Fails
      <3> QED
        BY <1>1, <3>1, LeastNumber
    <2>2. x \in 1..n /\ x - 1 \in Holds
      BY <2>1
    <2> QED
      BY <2>1, <2>2
  <1> QED
    BY <1>1

LEMMA MaxIs ==
    ASSUME NEW S \in SUBSET Int, NEW k \in S, \A y \in S : y <= k
    PROVE  Max(S) = k
  <1>1. \A x \in S : (\A y \in S : x >= y) => x = k
    OBVIOUS
  <1>2. \A y \in S : k >= y
    OBVIOUS
  <1> QED
    BY <1>1, <1>2 DEF Max

\* The recursion by which the library defines a fold of the elements at 1..n.
IsFold(iter, n, base, seq) ==
    iter = [s \in SUBSET (1..n) |->
              IF s = {} THEN base ELSE Op(iter[s \ {Max(s)}], seq[Max(s)])]

LEMMA FoldDefined ==
    ASSUME NEW n \in Nat, NEW base, NEW seq
    PROVE  \E iter : IsFold(iter, n, base, seq)
  <1> DEFINE IsIter(f, k) == IsFold(f, k, base, seq)
             Holds == {k \in 0..n : \E f : IsIter(f, k)}
  <1>1. 0 \in Holds
    <2> USE DEF IsFold
    <2>1. SUBSET (1..0) = {{}}
      OBVIOUS
    <2>2. IsIter([s \in SUBSET (1..0) |-> base], 0)
      BY <2>1
    <2> QED
      BY <2>2
  <1>2. ASSUME NEW k \in 1..n, k - 1 \in Holds PROVE k \in Holds
    <2> USE DEF IsFold
    <2>1. PICK f : IsIter(f, k - 1)
      BY <1>2
    <2> DEFINE g == [s \in SUBSET (1..k) |->
                        IF k \notin s THEN f[s] ELSE Op(f[s \ {k}], seq[k])]
    <2>2. ASSUME NEW s \in SUBSET (1..k), s # {}
          PROVE  g[s] = Op(g[s \ {Max(s)}], seq[Max(s)])
      <3>1. CASE k \in s
        <4>1. Max(s) = k
          BY <3>1, MaxIs
        <4>2. s \ {k} \in SUBSET (1..k) /\ k \notin s \ {k}
          OBVIOUS
        <4> QED
          BY <3>1, <4>1, <4>2
      <3>2. CASE k \notin s
        <4>1. s \in SUBSET (1..k - 1)
          BY <3>2
        <4>2. g[s] = Op(f[s \ {Max(s)}], seq[Max(s)])
          BY <2>1, <2>2, <3>2, <4>1
        <4>3. s \ {Max(s)} \in SUBSET (1..k) /\ k \notin s \ {Max(s)}
          BY <3>2
        <4> QED
          BY <4>2, <4>3
      <3> QED
        BY <3>1, <3>2
    <2>3. g[{}] = base
      BY <2>1
    <2>4. IsIter(g, k)
      <3> HIDE DEF g
      <3>1. g = [s \in SUBSET (1..k) |-> g[s]]
        BY DEF g
      <3> QED
        BY <2>2, <2>3, <3>1
    <2> HIDE DEF IsIter, g
    <2> QED
      BY <2>4
  <1>3. Holds = 0..n
    <2> HIDE DEF Holds
    <2>1. Holds \in SUBSET (0..n)
      BY DEF Holds
    <2> QED
      BY <1>1, <1>2, <2>1, UpTo
  <1>4. n \in Holds
    <2> HIDE DEF Holds
    <2> QED
      BY <1>3
  <1>5. \E f : IsIter(f, n)
    <2> HIDE DEF IsIter
    <2> QED
      BY <1>4
  <1> QED
    BY <1>5, Zenon

Fold(base, seq) == FoldLeft(Op, base, seq)

\* FoldLeft runs from its base through the elements, in their order.
THEOREM FoldLeftSteps ==
    ASSUME NEW n \in Nat, NEW base, NEW seq, DOMAIN seq = 1..n
    PROVE  \E state :
             /\ state[0] = base
             /\ \A k \in 1..n : state[k] = Op(state[k - 1], seq[k])
             /\ state[n] = Fold(base, seq)
  <1> DEFINE iter == CHOOSE f : IsFold(f, n, base, seq)
             state == [k \in 0..n |-> iter[1..k]]
  <1>1. Fold(base, seq) = iter[1..n]
    BY DEF Fold, FoldLeft, MapThenFoldSet, IsFold
  <1>2. IsFold(iter, n, base, seq)
    BY FoldDefined
  <1> HIDE DEF iter
  <1>3. iter[1..0] = base
    <2>1. 1..0 = {} /\ {} \in SUBSET (1..n)
      OBVIOUS
    <2> QED
      BY <1>2, <2>1 DEF IsFold
  <1>4. ASSUME NEW k \in 1..n PROVE iter[1..k] = Op(iter[1..k - 1], seq[k])
    <2>1. 1..k \in SUBSET (1..n) /\ 1..k # {} /\ (1..k) \ {k} = 1..k - 1
      OBVIOUS
    <2>2. Max(1..k) = k
      <3>1. 1..k \in SUBSET Int /\ k \in 1..k /\ \A y \in 1..k : y <= k
        OBVIOUS
      <3> QED
        BY <3>1, MaxIs
    <2> QED
      BY <1>2, <2>1, <2>2 DEF IsFold
  <1>5. /\ state[0] = base
        /\ \A k \in 1..n : state[k] = Op(state[k - 1], seq[k])
        /\ state[n] = Fold(base, seq)
    BY <1>1, <1>3, <1>4
  <1> QED
    BY <1>5

=============================================================================
