------------------------------ MODULE FoldLaws ------------------------------
(***************************************************************************)
(* What a loop of the models computes, for every sequence. The loops are   *)
(* FoldLeft over a step operator; this module is instantiated with that    *)
(* operator as Step, and a proof of a loop invariant starts from           *)
(* FoldSteps. What the proofs here rest on is LOCAL, so that an instance   *)
(* brings no more than the laws.                                           *)
(***************************************************************************)
EXTENDS Folds
LOCAL INSTANCE Integers
LOCAL INSTANCE Sequences
LOCAL INSTANCE NaturalsInduction
LOCAL INSTANCE WellFoundedInduction
LOCAL INSTANCE TLAPS

CONSTANT Step(_, _, _)    \* what the loop reads, its state, the element of the turn

\* The greatest element, as FiniteSetsExt!Max has it.
Greatest(S) == CHOOSE x \in S : \A y \in S : x >= y

\* FoldLeft with the operator of the module, in the terms that SequencesExt
\* defines it with: p is what the loop reads, base the state before its first
\* turn, s the elements of its turns.
Fold(p, base, s) ==
  MapThenFoldSet(LAMBDA x, acc : Step(p, acc, x), base, LAMBDA i : s[i], LAMBDA S : Greatest(S), DOMAIN s)

-----------------------------------------------------------------------------
(***************************************************************************)
(* Induction over the natural numbers in terms of sets: the theorems of    *)
(* NaturalsInduction take an operator as a parameter, these take the set   *)
(* of the numbers for which a claim holds.                                 *)
(***************************************************************************)
\* The order of the natural numbers as a relation.
Before == {pair \in Nat \X Nat : pair[1] < pair[2]}

\* A set of natural numbers that is not empty has a least element.
LEMMA LeastNat ==
  ASSUME NEW T, T \subseteq Nat, T # {}
  PROVE  \E m \in T : \A n \in T : m <= n
<1>1. IsWellFoundedOn(Before, Nat)
  BY NatLessThanWellFounded, Zenon DEF OpToRel, Before
<1>2. PICK m \in T : \A y \in T : ~(<<y, m>> \in Before)
  BY <1>1, WFMin, Zenon
<1>3. \A y \in T : ~(y < m)
  BY <1>2 DEF Before
<1>4. QED
  BY <1>3

\* A set that holds 0 and the successor of each number it holds has all of
\* them.
LEMMA NatSetInduction ==
  ASSUME NEW T, 0 \in T, \A n \in Nat : n \in T => n + 1 \in T
  PROVE  Nat \subseteq T
<1> DEFINE Out == Nat \ T
<1>1. SUFFICES ASSUME Out # {} PROVE FALSE
  OBVIOUS
<1>2. PICK m \in Out : \A n \in Out : m <= n
  <2>1. Out \subseteq Nat
    OBVIOUS
  <2> HIDE DEF Out
  <2>2. QED
    BY <1>1, <2>1, LeastNat
<1>3. m \in Nat /\ m # 0 /\ m \notin T
  OBVIOUS
<1>4. m - 1 \in Nat /\ m - 1 \in T
  BY <1>2, <1>3
<1>5. QED
  BY <1>3, <1>4

\* Greatest chooses the greatest element of a bounded set.
LEMMA GreatestProperties ==
  ASSUME NEW N \in Nat, NEW T, T \subseteq 0 .. N, T # {}
  PROVE  Greatest(T) \in T /\ \A y \in T : y <= Greatest(T)
<1> DEFINE R == {N - y : y \in T}
<1>1. R \subseteq Nat /\ R # {}
  <2>1. \A y \in T : N - y \in Nat
    <3>1. TAKE y \in T
    <3>2. y \in 0 .. N
      OBVIOUS
    <3>3. QED
      BY <3>2
  <2>2. QED
    BY <2>1
<1>2. PICK m \in R : \A n \in R : m <= n
  <2> HIDE DEF R
  <2>1. QED
    BY <1>1, LeastNat
<1>3. PICK x \in T : m = N - x
  OBVIOUS
<1>4. \A y \in T : y <= x
  <2>1. TAKE y \in T
  <2>2. m <= N - y
    BY <1>2
  <2>3. QED
    BY <1>3, <2>2
<1>5. QED
  BY <1>3, <1>4 DEF Greatest

-----------------------------------------------------------------------------
(***************************************************************************)
(* A fold is the last state of a loop.                                     *)
(***************************************************************************)
\* g is the function that FoldLeft computes on the sets of indices up to n: the
\* state after the turns of a set, its greatest index last.
Iterates(p, base, s, n, g) ==
  g = [t \in SUBSET (1 .. n) |->
         IF t = {} THEN base ELSE Step(p, g[t \ {Greatest(t)}], s[Greatest(t)])]

\* The recursive function inside FoldLeft exists, so its CHOOSE is that
\* function.
LEMMA IterExists ==
  ASSUME NEW p, NEW base, NEW s
  PROVE  \A n \in Nat : \E g : Iterates(p, base, s, n, g)
<1> DEFINE Is(g, n) == g = [t \in SUBSET (1 .. n) |->
                          IF t = {} THEN base ELSE Step(p, g[t \ {Greatest(t)}], s[Greatest(t)])]
           Good == {n \in Nat : \E g : Is(g, n)}
<1>1. 0 \in Good
  <2> DEFINE g == [t \in SUBSET (1 .. 0) |-> base]
  <2>1. \A t \in SUBSET (1 .. 0) : t = {}
    OBVIOUS
  <2>2. g = [t \in SUBSET (1 .. 0) |->
               IF t = {} THEN base ELSE Step(p, g[t \ {Greatest(t)}], s[Greatest(t)])]
    BY <2>1
  <2>3. QED
    BY <2>2
<1>2. ASSUME NEW n \in Nat, n \in Good
      PROVE  n + 1 \in Good
  <2>1. PICK g : Is(g, n)
    BY <1>2
  <2> DEFINE h == [t \in SUBSET (1 .. n + 1) |->
                     IF n + 1 \in t THEN Step(p, g[t \ {n + 1}], s[n + 1]) ELSE g[t]]
             hh == [t \in SUBSET (1 .. n + 1) |->
                     IF t = {} THEN base ELSE Step(p, h[t \ {Greatest(t)}], s[Greatest(t)])]
  <2>2. ASSUME NEW t \in SUBSET (1 .. n + 1), n + 1 \in t
        PROVE  h[t] = hh[t]
    <3>1. Greatest(t) = n + 1
      <4>1. Greatest(t) \in t /\ \A y \in t : y <= Greatest(t)
        <5>1. t \subseteq 0 .. n + 1 /\ t # {} /\ n + 1 \in Nat
          BY <2>2
        <5>2. QED
          BY <5>1, GreatestProperties
      <4>2. Greatest(t) \in 1 .. n + 1 /\ n + 1 <= Greatest(t)
        BY <2>2, <4>1, Zenon
      <4>3. QED
        BY <4>2
    <3>2. t \ {n + 1} \in SUBSET (1 .. n) /\ t \ {n + 1} \in SUBSET (1 .. n + 1)
      OBVIOUS
    <3>3. h[t \ {n + 1}] = g[t \ {n + 1}]
      BY <3>2
    <3>4. QED
      BY <2>2, <3>1, <3>3
  <2>3. ASSUME NEW t \in SUBSET (1 .. n + 1), n + 1 \notin t
        PROVE  h[t] = hh[t]
    <3>1. t \in SUBSET (1 .. n)
      BY <2>3
    <3>2. h[t] = g[t]
      BY <2>3
    <3>3. CASE t = {}
      BY <2>1, <3>1, <3>2, <3>3
    <3>4. CASE t # {}
      <4>1. Greatest(t) \in t
        <5>1. t \subseteq 0 .. n /\ t # {}
          BY <3>1, <3>4
        <5>2. QED
          BY <5>1, GreatestProperties
      <4>2. t \ {Greatest(t)} \in SUBSET (1 .. n) /\ t \ {Greatest(t)} \in SUBSET (1 .. n + 1)
        BY <3>1
      <4>3. h[t \ {Greatest(t)}] = g[t \ {Greatest(t)}]
        BY <4>2, <2>3
      <4>4. g[t] = Step(p, g[t \ {Greatest(t)}], s[Greatest(t)])
        BY <2>1, <3>1, <3>4
      <4>5. hh[t] = Step(p, h[t \ {Greatest(t)}], s[Greatest(t)])
        BY <3>4
      <4>6. QED
        BY <3>2, <4>3, <4>4, <4>5
    <3>5. QED
      BY <3>3, <3>4
  <2>4. h = hh
    BY <2>2, <2>3
  <2>5. Is(h, n + 1)
    BY <2>4
  <2>6. \E x : Is(x, n + 1)
    <3> HIDE DEF h, Is
    <3>1. QED
      BY <2>5
  <2>7. n + 1 \in Nat
    OBVIOUS
  <2> HIDE DEF Is
  <2>8. QED
    BY <2>6, <2>7
<1>3. Nat \subseteq Good
  <2> HIDE DEF Good
  <2>1. QED
    BY <1>1, <1>2, NatSetInduction
<1>4. QED
  BY <1>3 DEF Iterates

\* FoldLeft visits the elements of a sequence in order: there is a history f
\* that begins with the base, takes one Step for each element and ends in the
\* fold. The loops of the allocator and of the cache are folds, and their
\* invariants are proved along f.
THEOREM FoldSteps ==
  ASSUME NEW p, NEW base, NEW S, NEW s \in Seq(S)
  PROVE  \E f : /\ f[0] = base
                /\ \A n \in 1 .. Len(s) : f[n] = Step(p, f[n - 1], s[n])
                /\ Fold(p, base, s) = f[Len(s)]
<1> DEFINE N == Len(s)
           g == CHOOSE g : g = [t \in SUBSET (1 .. N) |->
                  IF t = {} THEN base ELSE Step(p, g[t \ {Greatest(t)}], s[Greatest(t)])]
           f == [n \in 0 .. N |-> g[1 .. n]]
<1>1. N \in Nat /\ DOMAIN s = 1 .. N
  OBVIOUS
<1>2. g = [t \in SUBSET (1 .. N) |->
             IF t = {} THEN base ELSE Step(p, g[t \ {Greatest(t)}], s[Greatest(t)])]
  <2>1. \E h : Iterates(p, base, s, N, h)
    BY <1>1, IterExists
  <2>2. QED
    BY <2>1 DEF Iterates
<1> HIDE DEF g
<1>3. f[0] = base
  <2>1. 1 .. 0 = {} /\ 1 .. 0 \in SUBSET (1 .. N)
    BY <1>1
  <2>2. g[1 .. 0] = base
    BY <1>2, <2>1
  <2>3. QED
    BY <1>1, <2>2
<1>4. ASSUME NEW n \in 1 .. N
      PROVE  f[n] = Step(p, f[n - 1], s[n])
  <2>1. 1 .. n \in SUBSET (1 .. N) /\ 1 .. n # {} /\ 1 .. n \subseteq 0 .. N
    <3>1. n \in 1 .. n /\ \A i \in 1 .. n : i \in 1 .. N /\ i \in 0 .. N
      BY <1>1
    <3>2. QED
      BY <3>1, Zenon
  <2>2. Greatest(1 .. n) = n
    <3>1. Greatest(1 .. n) \in 1 .. n /\ \A y \in 1 .. n : y <= Greatest(1 .. n)
      BY <1>1, <2>1, GreatestProperties
    <3>2. QED
      BY <1>1, <3>1
  <2>3. (1 .. n) \ {n} = 1 .. n - 1
    BY <1>1
  <2>4. g[1 .. n] = Step(p, g[1 .. n - 1], s[n])
    BY <1>2, <2>1, <2>2, <2>3
  <2>5. QED
    BY <1>1, <2>4
<1>5. Fold(p, base, s) = g[DOMAIN s]
  BY <1>1 DEF Fold, MapThenFoldSet, g
<1>6. f[N] = g[1 .. N]
  BY <1>1
<1>7. QED
  BY <1>1, <1>3, <1>4, <1>5, <1>6
=============================================================================
