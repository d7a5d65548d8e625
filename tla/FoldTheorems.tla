---------------------------- MODULE FoldTheorems ----------------------------
(***************************************************************************)
(* What a left fold over a sequence computes, for every sequence: the loops *)
(* over options, rows and series that the specifications write as FoldLeft. *)
(*                                                                          *)
(* A lemma cannot take the folded operator as a parameter, so op is a       *)
(* constant of this module, and a proof about a loop instantiates it by     *)
(* that loop's step.  The first argument of op is what the step reads of    *)
(* its surroundings; then come what is folded so far, and the next element. *)
(***************************************************************************)
EXTENDS SequencesExt, SequenceTheorems, WellFoundedInduction, TLAPS

CONSTANT op(_, _, _)

-----------------------------------------------------------------------------
(* Induction without an operator for the formula: over a set of numbers.    *)

\* The numbers are well founded by their order.
LEMMA NatOrder ==
    \E R : /\ IsWellFoundedOn(R, Nat)
           /\ \A x, y \in Nat : <<y, x>> \in R <=> y < x
<1> DEFINE R == OpToRel(<, Nat)
<1>1. IsWellFoundedOn(R, Nat)
  BY NatLessThanWellFounded
<1>2. \A x, y \in Nat : <<y, x>> \in R <=> y < x
  BY DEF OpToRel
<1> HIDE DEF R
<1> QED
  BY <1>1, <1>2

\* A set of numbers that has a member has a least one.
LEMMA Least ==
    ASSUME NEW T, T \subseteq Nat, T # {}
    PROVE  \E x \in T : \A y \in T : x <= y
<1>1. PICK R : IsWellFoundedOn(R, Nat) /\ \A x, y \in Nat : <<y, x>> \in R <=> y < x
  BY NatOrder
<1>2. PICK x \in T : \A y \in T : ~ (<<y, x>> \in R)
  BY <1>1, WFMin
<1>3. ASSUME NEW y \in T PROVE x <= y
  <2>1. ~ (y < x)
    BY <1>1, <1>2
  <2> QED
    BY <2>1
<1> QED
  BY <1>3

\* Induction up to n: a set that holds 0, and i of every i - 1 in it, holds every
\* number up to n.
LEMMA Induction ==
    ASSUME NEW n \in Nat, NEW T, 0 \in T,
           \A i \in 1..n : i - 1 \in T => i \in T
    PROVE  \A i \in 0..n : i \in T
<1> DEFINE Missing == {i \in 0..n : i \notin T}
<1>1. SUFFICES ASSUME Missing # {} PROVE FALSE
  OBVIOUS
<1>2. PICK i \in Missing : \A j \in Missing : i <= j
  <2>1. Missing \subseteq Nat
    OBVIOUS
  <2> HIDE DEF Missing
  <2> QED
    BY <1>1, <2>1, Least
<1>3. i # 0 /\ i \in 1..n
  BY <1>2
<1>4. i - 1 \notin T
  BY <1>2, <1>3
<1>5. i - 1 \in Missing
  BY <1>3, <1>4
<1> QED
  BY <1>2, <1>3, <1>5

\* Max of some indices is the greatest of them.
LEMMA MaxOfIndices ==
    ASSUME NEW n \in Nat, NEW s \in SUBSET (1..n), s # {}
    PROVE  Max(s) \in s /\ \A i \in s : i <= Max(s)
<1> DEFINE T == {n - i : i \in s}
<1>i. \A i \in s : i \in 1..n
  OBVIOUS
<1>1. PICK d \in T : \A e \in T : d <= e
  <2>1. T \subseteq Nat
    BY <1>i
  <2>2. T # {}
    OBVIOUS
  <2> HIDE DEF T
  <2> QED
    BY <2>1, <2>2, Least
<1>2. PICK m \in s : d = n - m
  BY <1>1
<1>3. \A i \in s : m >= i
  <2> TAKE i \in s
  <2>1. n - i \in T
    OBVIOUS
  <2> QED
    BY <1>i, <1>1, <1>2, <2>1
<1>4. \E x \in s : \A y \in s : x >= y
  BY <1>3
<1>5. Max(s) \in s /\ \A y \in s : Max(s) >= y
  BY <1>4 DEF Max
<1> QED
  BY <1>5

-----------------------------------------------------------------------------
(* Folds.                                                                   *)

\* g folds seq over every set of its first k indices, the greatest of them last.
Folds(c, base, seq, k, g) ==
    \A s \in SUBSET (1..k) :
        g[s] = IF s = {} THEN base ELSE op(c, g[s \ {Max(s)}], seq[Max(s)])

\* A sequence can be folded over any of its indices, and never leaves B.
LEMMA FoldOfIndices ==
    ASSUME NEW c, NEW X, NEW B, NEW base \in B, NEW seq \in Seq(X),
           \A b \in B, x \in X : op(c, b, x) \in B
    PROVE  \E g \in [SUBSET (1..Len(seq)) -> B] : Folds(c, base, seq, Len(seq), g)
<1> DEFINE n == Len(seq)
           T == {k \in 0..n : \E g \in [SUBSET (1..k) -> B] : Folds(c, base, seq, k, g)}
<1>n. n \in Nat /\ seq \in [1..n -> X]
  BY LenProperties
<1> HIDE DEF n
<1>1. 0 \in T
  <2>1. [s \in SUBSET (1..0) |-> base] \in [SUBSET (1..0) -> B]
    OBVIOUS
  <2>2. Folds(c, base, seq, 0, [s \in SUBSET (1..0) |-> base])
    BY DEF Folds
  <2> QED
    BY <1>n, <2>1, <2>2, 0 \in 0..n
<1>2. ASSUME NEW k \in 1..n, k - 1 \in T PROVE k \in T
  <2>1. PICK g \in [SUBSET (1..(k - 1)) -> B] : Folds(c, base, seq, k - 1, g)
    BY <1>2
  <2> DEFINE h == [s \in SUBSET (1..k) |->
                     IF k \in s THEN op(c, g[s \ {k}], seq[k]) ELSE g[s]]
  <2>2. \A s \in SUBSET (1..k) : /\ k \notin s => s \in SUBSET (1..(k - 1))
                                 /\ s \ {k} \in SUBSET (1..(k - 1))
    BY <1>n
  <2>3. h \in [SUBSET (1..k) -> B]
    BY <1>n, <2>2
  <2>4. ASSUME NEW s \in SUBSET (1..k)
        PROVE  h[s] = IF s = {} THEN base ELSE op(c, h[s \ {Max(s)}], seq[Max(s)])
    <3>1. CASE k \in s
      <4>1. Max(s) = k
        <5>1. Max(s) \in s /\ k <= Max(s)
          BY <3>1, k \in Nat, MaxOfIndices
        <5>2. Max(s) \in 1..k
          BY <5>1
        <5> QED
          BY <1>n, <5>1, <5>2
      <4>2. h[s \ {k}] = g[s \ {k}]
        BY <1>n, <2>2
      <4> QED
        BY <3>1, <4>1, <4>2
    <3>2. CASE k \notin s
      <4>1. s \in SUBSET (1..(k - 1)) /\ h[s] = g[s]
        BY <3>2, <2>2
      <4>2. h[s \ {Max(s)}] = g[s \ {Max(s)}]
        BY <4>1, <3>2
      <4>3. g[s] = IF s = {} THEN base ELSE op(c, g[s \ {Max(s)}], seq[Max(s)])
        BY <2>1, <4>1 DEF Folds
      <4> HIDE DEF h
      <4> QED
        BY <4>1, <4>2, <4>3
    <3> QED
      BY <3>1, <3>2
  <2>5. Folds(c, base, seq, k, h)
    BY <2>4 DEF Folds
  <2>6. k \in 0..n
    BY <1>n
  <2> HIDE DEF h
  <2> QED
    BY <2>3, <2>5, <2>6
<1>3. n \in T
  <2>1. \A i \in 0..n : i \in T
    <3> HIDE DEF T
    <3> QED
      BY <1>1, <1>2, <1>n, Induction
  <2>2. n \in 0..n
    BY <1>n
  <2> HIDE DEF T
  <2> QED
    BY <2>1, <2>2
<1>4. PICK g \in [SUBSET (1..n) -> B] : Folds(c, base, seq, n, g)
  BY <1>3
<1> QED
  BY <1>4 DEF n

\* The fold that FoldSteps is about.
Fold(c, base, seq) == FoldLeft(LAMBDA b, x : op(c, b, x), base, seq)

\* f is what is folded after each of the first elements.
Steps(c, base, seq, f) ==
    f[0] = base /\ \A i \in 1..Len(seq) : f[i] = op(c, f[i - 1], seq[i])

\* The result is reached in steps that stay in B.
InSteps(c, B, base, seq, result) ==
    \E f \in [0..Len(seq) -> B] : Steps(c, base, seq, f) /\ result = f[Len(seq)]

\* FoldLeft goes through the sequence in order: from base, one op for each element,
\* and every value on the way is in B if op keeps B.  What a loop does to any sequence
\* follows from this by Induction.
LEMMA FoldSteps ==
    ASSUME NEW c, NEW X, NEW B, NEW base \in B, NEW seq \in Seq(X),
           \A b \in B, x \in X : op(c, b, x) \in B
    PROVE  InSteps(c, B, base, seq, Fold(c, base, seq))
<1> DEFINE n == Len(seq)
           rec(g) == [s \in SUBSET (1..n) |->
                        IF s = {} THEN base ELSE op(c, g[s \ {Max(s)}], seq[Max(s)])]
           iter == CHOOSE g : g = rec(g)
           f == [i \in 0..n |-> iter[1..i]]
<1>n. n \in Nat /\ DOMAIN seq = 1..n
  BY LenProperties
<1>1. \E g \in [SUBSET (1..n) -> B] : g = rec(g)
  <2>1. PICK g \in [SUBSET (1..Len(seq)) -> B] : Folds(c, base, seq, Len(seq), g)
    BY FoldOfIndices
  <2>2. g = rec(g)
    BY <2>1 DEF Folds
  <2> QED
    BY <2>2
<1>2. iter = rec(iter)
  <2> HIDE DEF rec
  <2> QED
    BY <1>1
<1>3. Fold(c, base, seq) = iter[1..n]
  BY <1>n DEF Fold, FoldLeft, MapThenFoldSet
<1> HIDE DEF iter, n
<1>4. iter[1..0] = base
  BY <1>2, <1>n
<1>5. ASSUME NEW i \in 1..n PROVE iter[1..i] = op(c, iter[1..(i - 1)], seq[i])
  <2>1. Max(1..i) = i
    <3>1. Max(1..i) \in 1..i /\ i <= Max(1..i)
      <4>1. i \in Nat /\ 1..i \in SUBSET (1..i) /\ i \in 1..i
        BY <1>n
      <4> QED
        BY <4>1, MaxOfIndices
    <3> QED
      BY <1>n, <3>1
  <2>2. i \in 1..i /\ 1..i \in SUBSET (1..n) /\ i \in Int
    BY <1>n
  <2>3. (1..i) \ {i} = 1..(i - 1)
    BY <2>2
  <2> QED
    BY <1>2, <2>1, <2>2, <2>3
<1>6. \A i \in 0..n : f[i] \in B
  <2> DEFINE T == {i \in 0..n : f[i] \in B}
  <2>1. 0 \in T
    BY <1>4, <1>n
  <2>2. ASSUME NEW i \in 1..n, i - 1 \in T PROVE i \in T
    <3>1. seq[i] \in X
      BY ElementOfSeq DEF n
    <3>2. f[i - 1] \in B /\ f[i - 1] = iter[1..(i - 1)]
      BY <2>2, <1>n
    <3> QED
      BY <1>5, <3>1, <3>2, <1>n
  <2>3. \A i \in 0..n : i \in T
    <3> HIDE DEF T
    <3> QED
      BY <2>1, <2>2, <1>n, Induction
  <2> QED
    BY <2>3
<1>7. f \in [0..n -> B] /\ f[0] = base /\ f[n] = iter[1..n]
  BY <1>4, <1>6, <1>n
<1>8. \A i \in 1..n : f[i] = op(c, f[i - 1], seq[i])
  BY <1>5, <1>n
<1> HIDE DEF f
<1> QED
  BY <1>3, <1>7, <1>8 DEF n, Steps, InSteps
=============================================================================
