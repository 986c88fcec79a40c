--------------------------- MODULE WatcherProofs ----------------------------
(***************************************************************************)
(* Proofs about the operators that the dependency graph is built from, for *)
(* every list, every set of pools and fields and every number of nodes:    *)
(* the interval lists with their binary search, Replace and Update, the    *)
(* memory watcher with its flush and its observations, the fragment        *)
(* watcher and the forward watcher. DependencyGraphProofs builds the       *)
(* invariant of the graph from these.                                      *)
(***************************************************************************)
EXTENDS DependencyGraph, SequenceTheorems, FiniteSetTheorems, TLAPS

-----------------------------------------------------------------------------
(***************************************************************************)
(* Interval lists. What a list says is ValuesAt; Tiles is the form in      *)
(* which a loop that builds a list piece by piece keeps it.                *)
(***************************************************************************)
\* The loop of the binary search.
SearchFold == INSTANCE FoldLaws WITH Step <- Halve

\* A turn of the loop of Update, which reads p: the end of the span and F.
UpdateTurn(p, b, x) == UpdateOne(b, x, p[1], p[2])

\* The loop of Update over the elements it meets.
UpdateFold == INSTANCE FoldLaws WITH Step <- UpdateTurn

\* Lists with values of V.
Elems(V) == [start : Nat, end : Nat, val : V]

\* The search is a fold.
LEMMA SearchIsFold ==
  ASSUME NEW l, NEW T
  PROVE  Search(l, T) = SearchFold!Fold(T, [i |-> 0, j |-> Len(l)], l).i
  BY DEF Search, FoldLeft, MapThenFoldSet, Max, SearchFold!Fold, SearchFold!MapThenFoldSet, SearchFold!Greatest

\* b is the state of the search in a list of length n, with left turns to go.
Searching(T, n, left, b) ==
  /\ b = [i |-> b.i, j |-> b.j]
  /\ b.i \in 0 .. n /\ b.j \in 0 .. n /\ b.i <= b.j /\ b.j - b.i <= left
  /\ \A k \in 1 .. b.i : ~T[k]
  /\ \A k \in b.j + 1 .. n : T[k]

\* A turn of the binary search halves what is left.
LEMMA HalveKeeps ==
  ASSUME NEW T, NEW n \in Nat, NEW left \in Nat, NEW b, NEW turn, Searching(T, n, left + 1, b),
         \A k \in 1 .. n : T[k] \in BOOLEAN,
         \A k, m \in 1 .. n : k <= m /\ T[k] => T[m]
  PROVE  Searching(T, n, left, Halve(T, b, turn))
<1>1. PICK i \in 0 .. n, j \in 0 .. n : b = [i |-> i, j |-> j] /\ b.i = i /\ b.j = j
  BY Zenon DEF Searching
<1>2. /\ i <= j /\ j - i <= left + 1
      /\ \A k \in 1 .. i : ~T[k]
      /\ \A k \in j + 1 .. n : T[k]
  BY <1>1 DEF Searching
<1>3. CASE i >= j
  <2>1. Halve(T, b, turn) = b
    BY <1>1, <1>3 DEF Halve
  <2>2. QED
    BY <1>1, <1>2, <1>3, <2>1 DEF Searching
<1>4. CASE ~(i >= j)
  <2>1. PICK h \in Nat : h = i + (j - i) \div 2 /\ i <= h /\ h < j
    BY <1>4
  <2>2. CASE T[h + 1]
    <3>1. Halve(T, b, turn) = [i |-> i, j |-> h]
      BY <1>1, <1>4, <2>1, <2>2 DEF Halve
    <3>2. \A k \in h + 1 .. n : T[k]
      BY <2>1, <2>2
    <3>3. QED
      BY <1>2, <2>1, <3>1, <3>2 DEF Searching
  <2>3. CASE ~T[h + 1]
    <3>1. Halve(T, b, turn) = [i |-> h + 1, j |-> j]
      BY <1>1, <1>4, <2>1, <2>3 DEF Halve
    <3>2. \A k \in 1 .. h + 1 : ~T[k]
      BY <2>1, <2>3
    <3>3. QED
      BY <1>2, <2>1, <3>1, <3>2 DEF Searching
  <2>4. QED
    BY <2>2, <2>3
<1>5. QED
  BY <1>3, <1>4

\* The search finds the first element whose test is true.
THEOREM SearchFinds ==
  ASSUME NEW S, NEW l \in Seq(S), NEW T, \A k \in 1 .. Len(l) : T[k] \in BOOLEAN,
         \A k, m \in 1 .. Len(l) : k <= m /\ T[k] => T[m]
  PROVE  /\ Search(l, T) \in 0 .. Len(l)
         /\ \A k \in 1 .. Search(l, T) : ~T[k]
         /\ \A k \in Search(l, T) + 1 .. Len(l) : T[k]
<1>1. PICK n \in Nat : n = Len(l)
  OBVIOUS
<1>2. PICK f : /\ f[0] = [i |-> 0, j |-> n]
               /\ \A k \in 1 .. n : f[k] = Halve(T, f[k - 1], l[k])
               /\ SearchFold!Fold(T, [i |-> 0, j |-> n], l) = f[n]
  BY <1>1, SearchFold!FoldSteps
<1> DEFINE Good == {k \in Nat : k <= n => Searching(T, n, n - k, f[k])}
<1>3. 0 \in Good
  BY <1>2 DEF Searching
<1>4. ASSUME NEW k \in Nat, k \in Good PROVE k + 1 \in Good
  <2>1. CASE ~(k + 1 <= n)
    BY <2>1
  <2>2. CASE k + 1 <= n
    <3>1. PICK left \in Nat : left = n - (k + 1)
      BY <2>2
    <3>2. Searching(T, n, left + 1, f[k])
      BY <1>4, <2>2, <3>1
    <3>3. Searching(T, n, left, Halve(T, f[k], l[k + 1]))
      BY <1>1, <3>2, HalveKeeps
    <3>4. f[k + 1] = Halve(T, f[k], l[k + 1])
      <4>1. k + 1 \in 1 .. n /\ (k + 1) - 1 = k
        BY <2>2
      <4>2. QED
        BY <1>2, <4>1
    <3>5. QED
      BY <3>1, <3>3, <3>4
  <2>3. QED
    BY <2>1, <2>2
<1>5. Searching(T, n, 0, f[n])
  <2>1. Nat \subseteq Good
    <3> HIDE DEF Good
    <3>1. QED
      BY <1>3, <1>4, SearchFold!NatSetInduction
  <2>2. QED
    BY <2>1
<1>6. Search(l, T) = f[n].i
  BY <1>1, <1>2, SearchIsFold
<1>7. f[n].i = f[n].j
  BY <1>5 DEF Searching
<1>8. QED
  BY <1>1, <1>5, <1>6, <1>7 DEF Searching

\* The shape of a list, as the proofs use it.
LEMMA ListShape ==
  ASSUME NEW V, NEW l \in Seq(Elems(V))
  PROVE  /\ Len(l) \in Nat /\ DOMAIN l = 1 .. Len(l)
         /\ \A i \in 1 .. Len(l) : /\ l[i] \in Elems(V)
                                 /\ l[i].start \in Nat /\ l[i].end \in Nat /\ l[i].val \in V
                                 /\ l[i] = Elem(l[i].start, l[i].end, l[i].val)
<1>1. Len(l) \in Nat /\ DOMAIN l = 1 .. Len(l)
  OBVIOUS
<1>2. \A i \in 1 .. Len(l) : l[i] \in Elems(V)
  OBVIOUS
<1>3. \A x \in Elems(V) : /\ x.start \in Nat /\ x.end \in Nat /\ x.val \in V
                          /\ x = Elem(x.start, x.end, x.val)
  BY DEF Elems, Elem
<1>4. QED
  BY <1>1, <1>2, <1>3

\* In a sorted list an element ends before every later one starts.
LEMMA SortedOrder ==
  ASSUME NEW V, NEW l \in Seq(Elems(V)), Sorted(l)
  PROVE  \A i, j \in 1 .. Len(l) : i < j => l[i].end <= l[j].start
<1>1. PICK n \in Nat : n = Len(l) /\ DOMAIN l = 1 .. n
  BY ListShape
<1>2. \A i \in 1 .. n : l[i].start \in Nat /\ l[i].end \in Nat
  BY <1>1, ListShape
<1>3. /\ \A i \in 1 .. n : l[i].start <= l[i].end
      /\ \A i \in 1 .. n - 1 : l[i].end <= l[i + 1].start
  BY <1>1 DEF Sorted
<1> DEFINE Good == {j \in Nat : j <= n => \A i \in 1 .. j - 1 : l[i].end <= l[j].start}
<1>4. 0 \in Good
  OBVIOUS
<1>5. ASSUME NEW j \in Nat, j \in Good PROVE j + 1 \in Good
  <2>1. SUFFICES ASSUME j + 1 <= n, NEW i \in 1 .. j PROVE l[i].end <= l[j + 1].start
    OBVIOUS
  <2>2. l[j].end <= l[j + 1].start
    BY <1>3, <2>1
  <2>3. CASE i = j
    BY <2>2, <2>3
  <2>4. CASE i # j
    <3>1. l[i].end <= l[j].start
      BY <1>5, <2>1, <2>4
    <3>2. l[j].start <= l[j].end
      BY <1>3, <2>1
    <3>3. /\ l[i].end \in Nat /\ l[j].start \in Nat /\ l[j].end \in Nat
          /\ l[j + 1].start \in Nat
      BY <1>2, <2>1
    <3>4. QED
      BY <2>2, <3>1, <3>2, <3>3
  <2>5. QED
    BY <2>3, <2>4
<1>6. Nat \subseteq Good
  <2> HIDE DEF Good
  <2>1. QED
    BY <1>4, <1>5, SearchFold!NatSetInduction
<1>7. QED
  BY <1>1, <1>6

\* The smaller and the greater of two numbers.
LEMMA MinMaxPair ==
  ASSUME NEW a \in Int, NEW b \in Int
  PROVE  /\ Min({a, b}) = IF a <= b THEN a ELSE b
         /\ Max({a, b}) = IF a <= b THEN b ELSE a
<1>1. (\E m \in {a, b} : \A y \in {a, b} : m <= y) /\ \E m \in {a, b} : \A y \in {a, b} : m >= y
  <2>1. CASE a <= b
    BY <2>1
  <2>2. CASE b <= a
    BY <2>2
  <2>3. QED
    BY <2>1, <2>2
<1>2. Min({a, b}) \in {a, b} /\ \A y \in {a, b} : Min({a, b}) <= y
  BY <1>1, Zenon DEF Min
<1>3. Max({a, b}) \in {a, b} /\ \A y \in {a, b} : Max({a, b}) >= y
  BY <1>1, Zenon DEF Max
<1>4. QED
  BY <1>2, <1>3

\* How many elements lie before the address s, and how many start before e.
LEMMA BeforeIs ==
  ASSUME NEW V, NEW l \in Seq(Elems(V)), Sorted(l), NEW s \in Nat
  PROVE  LET k == Search(l, [j \in DOMAIN l |-> s < l[j].end])
         IN  /\ k \in 0 .. Len(l)
             /\ \A j \in 1 .. k : l[j].end <= s
             /\ \A j \in k + 1 .. Len(l) : s < l[j].end
<1> DEFINE T == [j \in DOMAIN l |-> s < l[j].end]
<1>1. PICK n \in Nat : n = Len(l) /\ DOMAIN l = 1 .. n
  BY ListShape
<1>2. \A i \in 1 .. n : l[i].start \in Nat /\ l[i].end \in Nat /\ l[i].start <= l[i].end
  BY <1>1, ListShape DEF Sorted
<1>3. \A i, j \in 1 .. n : i < j => l[i].end <= l[j].start
  BY <1>1, SortedOrder
<1>4. \A j \in 1 .. n : T[j] <=> s < l[j].end
  BY <1>1
<1>5. ASSUME NEW j \in 1 .. n, NEW m \in 1 .. n, j <= m, T[j] PROVE T[m]
  <2>1. s < l[j].end
    BY <1>4, <1>5
  <2>2. l[j].end <= l[m].end
    <3>1. CASE j = m
      BY <1>2, <3>1
    <3>2. CASE j < m
      <4>1. l[j].end <= l[m].start /\ l[m].start <= l[m].end
        BY <1>2, <1>3, <3>2
      <4>2. QED
        BY <1>2, <4>1
    <3>3. QED
      BY <1>5, <3>1, <3>2
  <2>3. s < l[m].end
    BY <1>2, <2>1, <2>2
  <2>4. QED
    BY <1>4, <2>3
<1>6. PICK k : k = Search(l, T)
  OBVIOUS
<1>7. /\ k \in 0 .. n
      /\ \A j \in 1 .. k : ~T[j]
      /\ \A j \in k + 1 .. n : T[j]
  <2>1. \A j \in 1 .. Len(l) : T[j] \in BOOLEAN
    BY <1>1
  <2>2. \A j, m \in 1 .. Len(l) : j <= m /\ T[j] => T[m]
    BY <1>1, <1>5
  <2> HIDE DEF T
  <2>3. QED
    BY <1>1, <1>6, <2>1, <2>2, SearchFinds
<1>8. /\ \A j \in 1 .. k : l[j].end <= s
      /\ \A j \in k + 1 .. n : s < l[j].end
  <2>1. ASSUME NEW j \in 1 .. k PROVE l[j].end <= s
    <3>1. j \in 1 .. n /\ ~T[j]
      <4> HIDE DEF T
      <4>1. QED
        BY <1>7
    <3>2. ~(s < l[j].end)
      BY <1>4, <3>1
    <3>3. QED
      BY <1>2, <3>1, <3>2
  <2>2. ASSUME NEW j \in k + 1 .. n PROVE s < l[j].end
    <3>1. j \in 1 .. n /\ T[j]
      BY <1>7
    <3>2. QED
      BY <1>4, <3>1
  <2>3. QED
    BY <2>1, <2>2
<1>9. QED
  BY <1>1, <1>6, <1>7, <1>8

\* The search by start finds where the elements after e begin.
LEMMA AfterIs ==
  ASSUME NEW V, NEW l \in Seq(Elems(V)), Sorted(l), NEW e \in Nat
  PROVE  LET k == Search(l, [j \in DOMAIN l |-> e <= l[j].start])
         IN  /\ k \in 0 .. Len(l)
             /\ \A j \in 1 .. k : l[j].start < e
             /\ \A j \in k + 1 .. Len(l) : e <= l[j].start
<1> DEFINE T == [j \in DOMAIN l |-> e <= l[j].start]
<1>1. PICK n \in Nat : n = Len(l) /\ DOMAIN l = 1 .. n
  BY ListShape
<1>2. \A i \in 1 .. n : l[i].start \in Nat /\ l[i].end \in Nat /\ l[i].start <= l[i].end
  BY <1>1, ListShape DEF Sorted
<1>3. \A i, j \in 1 .. n : i < j => l[i].end <= l[j].start
  BY <1>1, SortedOrder
<1>4. \A j \in 1 .. n : T[j] <=> e <= l[j].start
  BY <1>1
<1>5. ASSUME NEW j \in 1 .. n, NEW m \in 1 .. n, j <= m, T[j] PROVE T[m]
  <2>1. e <= l[j].start
    BY <1>4, <1>5
  <2>2. l[j].start <= l[m].start
    <3>1. CASE j = m
      BY <1>2, <3>1
    <3>2. CASE j < m
      <4>1. l[j].start <= l[j].end /\ l[j].end <= l[m].start
        BY <1>2, <1>3, <3>2
      <4>2. QED
        BY <1>2, <4>1
    <3>3. QED
      BY <1>5, <3>1, <3>2
  <2>3. e <= l[m].start
    BY <1>2, <2>1, <2>2
  <2>4. QED
    BY <1>4, <2>3
<1>6. PICK k : k = Search(l, T)
  OBVIOUS
<1>7. /\ k \in 0 .. n
      /\ \A j \in 1 .. k : ~T[j]
      /\ \A j \in k + 1 .. n : T[j]
  <2>1. \A j \in 1 .. Len(l) : T[j] \in BOOLEAN
    BY <1>1
  <2>2. \A j, m \in 1 .. Len(l) : j <= m /\ T[j] => T[m]
    BY <1>1, <1>5
  <2> HIDE DEF T
  <2>3. QED
    BY <1>1, <1>6, <2>1, <2>2, SearchFinds
<1>8. /\ \A j \in 1 .. k : l[j].start < e
      /\ \A j \in k + 1 .. n : e <= l[j].start
  <2>1. ASSUME NEW j \in 1 .. k PROVE l[j].start < e
    <3>1. j \in 1 .. n /\ ~T[j]
      <4> HIDE DEF T
      <4>1. QED
        BY <1>7
    <3>2. ~(e <= l[j].start)
      BY <1>4, <3>1
    <3>3. QED
      BY <1>2, <3>1, <3>2
  <2>2. ASSUME NEW j \in k + 1 .. n PROVE e <= l[j].start
    <3>1. j \in 1 .. n /\ T[j]
      BY <1>7
    <3>2. QED
      BY <1>4, <3>1
  <2>3. QED
    BY <2>1, <2>2
<1>9. QED
  BY <1>1, <1>6, <1>7, <1>8

\* What an intersection says of a list: the elements up to low lie before the
\* span, those behind high lie behind it, and the ones between meet it, or are
\* empty where the span is.
Meets(l, s, e, x, low, high) ==
  /\ low \in 0 .. Len(l) /\ high \in 0 .. Len(l) /\ low <= high
  /\ x.lowIndex = low /\ x.overlap = high - low
  /\ x.intersectsLow <=> low < high /\ l[low + 1].start < s
  /\ x.intersectsHigh <=> low < high /\ e < l[high].end
  /\ \A j \in 1 .. low : l[j].end <= s
  /\ \A j \in high + 1 .. Len(l) : e <= l[j].start
  /\ \/ \A j \in low + 1 .. high : s < l[j].end /\ l[j].start < e
     \/ \A j \in low + 1 .. high : l[j].start = s /\ l[j].end = s /\ e = s

\* What Intersection reports is what the interval meets.
LEMMA IntersectionMeets ==
  ASSUME NEW V, NEW l \in Seq(Elems(V)), Sorted(l), NEW s \in Nat, NEW e \in Nat, s <= e
  PROVE  \E low, high : Meets(l, s, e, Intersection(l, s, e), low, high)
<1>1. PICK n \in Nat : n = Len(l) /\ DOMAIN l = 1 .. n
  BY ListShape
<1>2. \A i \in 1 .. n : l[i].start \in Nat /\ l[i].end \in Nat /\ l[i].start <= l[i].end
  BY <1>1, ListShape DEF Sorted
<1>3. PICK b \in 0 .. n : /\ b = Search(l, [j \in DOMAIN l |-> s < l[j].end])
                          /\ \A j \in 1 .. b : l[j].end <= s
                          /\ \A j \in b + 1 .. n : s < l[j].end
  BY <1>1, BeforeIs
<1>4. PICK a \in 0 .. n : /\ a = Search(l, [j \in DOMAIN l |-> e <= l[j].start])
                          /\ \A j \in 1 .. a : l[j].start < e
                          /\ \A j \in a + 1 .. n : e <= l[j].start
  BY <1>1, AfterIs
<1>5. PICK low \in 0 .. n, high \in 0 .. n :
        /\ low = Min({b, a}) /\ high = Max({b, a})
        /\ low = (IF b <= a THEN b ELSE a) /\ high = (IF b <= a THEN a ELSE b)
  <2>1. Min({b, a}) = (IF b <= a THEN b ELSE a) /\ Max({b, a}) = (IF b <= a THEN a ELSE b)
    BY MinMaxPair
  <2>2. QED
    BY <2>1
<1>6. Intersection(l, s, e) =
        [lowIndex |-> low, overlap |-> high - low,
         intersectsLow  |-> high - low > 0 /\ l[low + 1].start < s,
         intersectsHigh |-> high - low > 0 /\ e < l[low + (high - low)].end]
  BY <1>3, <1>4, <1>5, Zenon DEF Intersection
<1>7. low <= high /\ low + (high - low) = high /\ (high - low > 0 <=> low < high)
  BY <1>5
<1>8. PICK x : x = Intersection(l, s, e)
  OBVIOUS
<1>9. /\ x.lowIndex = low /\ x.overlap = high - low
      /\ x.intersectsLow <=> low < high /\ l[low + 1].start < s
      /\ x.intersectsHigh <=> low < high /\ e < l[high].end
  <2>1. /\ x.lowIndex = low /\ x.overlap = high - low
        /\ x.intersectsLow <=> high - low > 0 /\ l[low + 1].start < s
        /\ x.intersectsHigh <=> high - low > 0 /\ e < l[low + (high - low)].end
    <3>1. PICK P \in BOOLEAN : P = (high - low > 0 /\ l[low + 1].start < s)
      OBVIOUS
    <3>2. PICK Q \in BOOLEAN : Q = (high - low > 0 /\ e < l[low + (high - low)].end)
      OBVIOUS
    <3>3. x = [lowIndex |-> low, overlap |-> high - low,
               intersectsLow |-> P, intersectsHigh |-> Q]
      BY <1>6, <1>8, <3>1, <3>2, Zenon
    <3>4. /\ x.lowIndex = low /\ x.overlap = high - low
          /\ x.intersectsLow = P /\ x.intersectsHigh = Q
      BY <3>3
    <3>5. QED
      BY <3>1, <3>2, <3>4, Zenon
  <2>2. QED
    BY <1>7, <2>1
<1>10. /\ \A j \in 1 .. low : l[j].end <= s
       /\ \A j \in high + 1 .. n : e <= l[j].start
  <2>1. \A j \in 1 .. low : j \in 1 .. b
    BY <1>5
  <2>2. \A j \in high + 1 .. n : j \in a + 1 .. n
    BY <1>5
  <2>3. QED
    BY <1>3, <1>4, <2>1, <2>2, Zenon
<1>11. CASE b <= a
  <2>1. \A j \in low + 1 .. high : s < l[j].end /\ l[j].start < e
    BY <1>3, <1>4, <1>5, <1>11
  <2>2. QED
    BY <1>1, <1>7, <1>8, <1>9, <1>10, <2>1 DEF Meets
<1>12. CASE ~(b <= a)
  <2>1. \A j \in low + 1 .. high : l[j].end <= s /\ e <= l[j].start
    BY <1>3, <1>4, <1>5, <1>12
  <2>2. ASSUME NEW j \in low + 1 .. high
        PROVE  l[j].start = s /\ l[j].end = s /\ e = s
    <3>1. l[j].end <= s /\ e <= l[j].start
      BY <2>1
    <3>2. l[j].start \in Nat /\ l[j].end \in Nat /\ l[j].start <= l[j].end
      BY <1>2
    <3>3. QED
      BY <3>1, <3>2
  <2>3. QED
    BY <1>1, <1>7, <1>8, <1>9, <1>10, <2>2 DEF Meets
<1>13. QED
  BY <1>11, <1>12

\* r is l with the span [s, e) of value v in the place of the elements from
\* low + 1 to high, of which lo and hi say whether a part is left.
Spliced(l, r, s, e, v, low, high, lo, hi) ==
  /\ low \in 0 .. Len(l) /\ high \in 0 .. Len(l) /\ low <= high
  /\ lo \in {0, 1} /\ hi \in {0, 1}
  /\ lo = 1 <=> low < high /\ l[low + 1].start < s
  /\ hi = 1 <=> low < high /\ e < l[high].end
  /\ DOMAIN r = 1 .. low + lo + 1 + hi + (Len(l) - high) /\ r = [i \in DOMAIN r |-> r[i]]
  /\ \A i \in 1 .. low : r[i] = l[i]
  /\ lo = 1 => low < high /\ r[low + 1] = Elem(l[low + 1].start, s, l[low + 1].val)
  /\ r[low + lo + 1] = Elem(s, e, v)
  /\ hi = 1 => low < high /\ r[low + lo + 2] = Elem(e, l[high].end, l[high].val)
  /\ \A i \in high + 1 .. Len(l) : r[i - high + low + lo + 1 + hi] = l[i]

\* moved is l with room for delta elements made (or taken) at position at.
Adjusted(l, n, at, delta, moved) ==
  /\ DOMAIN moved = 1 .. n + delta
  /\ \A i \in 1 .. n + delta : i <= at /\ i <= n => moved[i] = l[i]
  /\ \A i \in 1 .. n + delta : i > at /\ i > delta /\ i - delta <= n => moved[i] = l[i - delta]

\* adjustSlice keeps what is before and after the hole.
LEMMA AdjustIs ==
  ASSUME NEW l, NEW n \in Nat, n = Len(l), NEW at \in Nat, NEW delta \in Int
  PROVE  Adjusted(l, n, at, delta, Adjust(l, at, delta))
<1>1. PICK to \in Int : /\ to = Max({at, delta}) /\ at <= to /\ to \in {at, delta}
  <2>1. Max({at, delta}) = IF at <= delta THEN delta ELSE at
    <3>1. at \in Int
      OBVIOUS
    <3>2. QED
      BY <3>1, MinMaxPair, Zenon
  <2>2. CASE at <= delta
    BY <2>1, <2>2
  <2>3. CASE ~(at <= delta)
    BY <2>1, <2>3
  <2>4. QED
    BY <2>2, <2>3
<1>2. Adjust(l, at, delta) =
        [i \in 1 .. n + delta |->
           IF delta # 0 /\ i > to THEN l[i - delta]
           ELSE IF i <= n THEN l[i] ELSE Elem(0, 0, NoValue)]
  BY <1>1 DEF Adjust
<1>3. ASSUME NEW i \in 1 .. n + delta, i <= at, i <= n
      PROVE  Adjust(l, at, delta)[i] = l[i]
  BY <1>1, <1>2, <1>3
<1>4. ASSUME NEW i \in 1 .. n + delta, i > at, i > delta, i - delta <= n
      PROVE  Adjust(l, at, delta)[i] = l[i - delta]
  <2>1. CASE delta # 0
    BY <1>1, <1>2, <1>4, <2>1
  <2>2. CASE delta = 0
    <3>1. i - delta = i /\ i <= n
      BY <1>4, <2>2
    <3>2. QED
      BY <1>2, <2>2, <3>1
  <2>3. QED
    BY <2>1, <2>2
<1>5. QED
  BY <1>2, <1>3, <1>4 DEF Adjusted

\* What Hole gives: the list with the slot still to be filled.
Holed(l, s, e, x, at, new, moved, low, high, hole) ==
  /\ hole.index = at
  /\ hole.list = [i \in DOMAIN moved |->
                    IF x.intersectsHigh /\ i = low + new
                    THEN Elem(e, l[high].end, moved[i].val)
                    ELSE IF x.intersectsLow /\ i = low + 1
                    THEN [moved[i] EXCEPT !.end = s]
                    ELSE moved[i]]

\* The hole that Replace makes.
LEMMA HoleIs ==
  ASSUME NEW l, NEW s, NEW e, NEW x, NEW at, NEW new, NEW moved, NEW low, NEW high,
         moved = Adjust(l, at, new - x.overlap), x.lowIndex = low, low + x.overlap = high
  PROVE  Holed(l, s, e, x, at, new, moved, low, high, Hole(l, s, e, x, at, new))
  BY Zenon DEF Hole, Holed

\* An element with a new end.
LEMMA ElemEnds ==
  ASSUME NEW V, NEW x \in Elems(V), NEW s
  PROVE  [x EXCEPT !.end = s] = Elem(x.start, s, x.val)
  BY DEF Elems, Elem

\* Replace is the list with the span spliced in where the intersection says.
LEMMA ReplaceSplices ==
  ASSUME NEW V, NEW l \in Seq(Elems(V)), NEW s \in Nat, NEW e \in Nat, NEW v,
         NEW low, NEW high, Meets(l, s, e, Intersection(l, s, e), low, high)
  PROVE  \E lo, hi : Spliced(l, Replace(l, s, e, v), s, e, v, low, high, lo, hi)
<1>1. PICK n \in Nat : n = Len(l) /\ DOMAIN l = 1 .. n
  BY ListShape
<1>2. \A i \in 1 .. n : l[i] \in Elems(V) /\ l[i] = Elem(l[i].start, l[i].end, l[i].val)
  BY <1>1, ListShape
<1>3. PICK x : x = Intersection(l, s, e)
  OBVIOUS
<1>4. /\ low \in 0 .. n /\ high \in 0 .. n /\ low <= high
      /\ x.lowIndex = low /\ x.overlap = high - low
      /\ x.intersectsLow <=> low < high /\ l[low + 1].start < s
      /\ x.intersectsHigh <=> low < high /\ e < l[high].end
  BY <1>1, <1>3 DEF Meets
<1>5. PICK lo \in {0, 1} : lo = IF x.intersectsLow THEN 1 ELSE 0
  OBVIOUS
<1>6. PICK hi \in {0, 1} : hi = IF x.intersectsHigh THEN 1 ELSE 0
  OBVIOUS
<1>7. /\ lo = 1 <=> x.intersectsLow
      /\ hi = 1 <=> x.intersectsHigh
  BY <1>5, <1>6
<1>8. PICK at \in Nat, new \in Nat, delta \in Int :
        /\ at = low + lo /\ new = 1 + lo + hi /\ delta = new - (high - low)
  BY <1>4
<1>9. PICK moved : moved = Adjust(l, at, delta)
  OBVIOUS
<1>10. n + delta >= 0 /\ n + delta = low + lo + 1 + hi + (n - high)
  BY <1>4, <1>8
<1>11. /\ DOMAIN moved = 1 .. n + delta
       /\ \A i \in 1 .. n + delta : i <= at /\ i <= n => moved[i] = l[i]
       /\ \A i \in 1 .. n + delta :
            i > at /\ i > delta /\ i - delta <= n => moved[i] = l[i - delta]
  <2>1. Adjusted(l, n, at, delta, moved)
    BY <1>1, <1>9, AdjustIs
  <2>2. QED
    BY <2>1 DEF Adjusted
<1>12. PICK hole : hole = Hole(l, s, e, x, at, new)
  OBVIOUS
<1>13. Cut(l, s, e) = hole
  <2>1. Cutting(l, s, e, x) = Hole(l, s, e, x, x.lowIndex + (IF x.intersectsLow THEN 1 ELSE 0),
                                   1 + (IF x.intersectsLow THEN 1 ELSE 0)
                                     + (IF x.intersectsHigh THEN 1 ELSE 0))
    BY Zenon DEF Cutting
  <2>2. Cutting(l, s, e, x) = hole
    BY <1>4, <1>5, <1>6, <1>8, <1>12, <2>1
  <2>3. QED
    BY <1>3, <2>2 DEF Cut
<1>14. /\ hole.index = at
       /\ hole.list = [i \in 1 .. n + delta |->
                         IF x.intersectsHigh /\ i = low + new
                         THEN Elem(e, l[high].end, moved[i].val)
                         ELSE IF x.intersectsLow /\ i = low + 1
                         THEN [moved[i] EXCEPT !.end = s]
                         ELSE moved[i]]
  <2>1. new - x.overlap = delta /\ low + (high - low) = high
    BY <1>4, <1>8
  <2>2. QED
    <3>1. moved = Adjust(l, at, new - x.overlap) /\ low + x.overlap = high
      BY <1>4, <1>9, <2>1
    <3>2. Holed(l, s, e, x, at, new, moved, low, high, hole)
      BY <1>4, <1>12, <3>1, HoleIs
    <3>3. QED
      BY <1>11, <3>2, Zenon DEF Holed
<1>15. PICK r : r = Replace(l, s, e, v)
  OBVIOUS
<1>16. /\ DOMAIN r = 1 .. n + delta /\ r = [i \in DOMAIN r |-> r[i]]
       /\ r[at + 1] = Elem(s, e, v)
       /\ \A i \in 1 .. n + delta : i # at + 1 => r[i] = hole.list[i]
  <2>1. r = [hole.list EXCEPT ![at + 1] = Elem(s, e, v)]
    BY <1>13, <1>14, <1>15 DEF Replace, Filled
  <2>2. DOMAIN hole.list = 1 .. n + delta
    BY <1>14
  <2>3. at + 1 \in 1 .. n + delta
    BY <1>4, <1>8
  <2>4. QED
    BY <2>1, <2>2, <2>3
<1>17. ASSUME NEW i \in 1 .. low PROVE r[i] = l[i]
  <2>1. i \in 1 .. n + delta /\ i <= at /\ i <= n /\ i # at + 1 /\ i # low + new /\ i # low + 1
    <3>1. low \in 0 .. n /\ high \in 0 .. n /\ low <= high /\ lo \in {0, 1} /\ hi \in {0, 1}
      BY <1>4
    <3>2. QED
      BY <1>8, <3>1
  <2>2. moved[i] = l[i]
    BY <1>11, <2>1
  <2>3. hole.list[i] = moved[i]
    BY <1>14, <2>1
  <2>4. QED
    BY <1>16, <2>1, <2>2, <2>3
<1>18. ASSUME lo = 1 PROVE low < high /\ r[low + 1] = Elem(l[low + 1].start, s, l[low + 1].val)
  <2>1. low < high /\ x.intersectsLow
    BY <1>4, <1>7, <1>18
  <2>2. PICK i : i = low + 1
    OBVIOUS
  <2>3. i \in 1 .. n + delta /\ i <= at /\ i <= n /\ i # at + 1 /\ i # low + new /\ i \in 1 .. n
    BY <1>4, <1>8, <1>18, <2>1, <2>2
  <2>4. moved[i] = l[i]
    BY <1>11, <2>3
  <2>5. hole.list[i] = [moved[i] EXCEPT !.end = s]
    BY <1>14, <2>1, <2>2, <2>3
  <2>6. r[i] = [l[i] EXCEPT !.end = s]
    BY <1>16, <2>3, <2>4, <2>5
  <2>7. [l[i] EXCEPT !.end = s] = Elem(l[i].start, s, l[i].val)
    <3>1. l[i] \in Elems(V)
      BY <1>2, <2>3
    <3>2. QED
      BY <3>1, ElemEnds
  <2>8. QED
    BY <2>1, <2>2, <2>6, <2>7
<1>19. ASSUME hi = 1 PROVE low < high /\ r[low + lo + 2] = Elem(e, l[high].end, l[high].val)
  <2>1. low < high /\ x.intersectsHigh
    BY <1>4, <1>7, <1>19
  <2>2. PICK i : i = low + lo + 2
    OBVIOUS
  <2>3. /\ i \in 1 .. n + delta /\ i > at /\ i > delta /\ i - delta <= n /\ i # at + 1
        /\ i = low + new /\ i - delta = high
    BY <1>4, <1>8, <1>19, <2>1, <2>2
  <2>4. moved[i] = l[high]
    BY <1>11, <2>3
  <2>5. hole.list[i] = Elem(e, l[high].end, moved[i].val)
    BY <1>14, <2>1, <2>3
  <2>6. QED
    BY <1>16, <2>1, <2>2, <2>3, <2>4, <2>5
<1>20. ASSUME NEW j \in high + 1 .. n PROVE r[j - high + low + lo + 1 + hi] = l[j]
  <2>1. PICK i : i = j - high + low + lo + 1 + hi
    OBVIOUS
  <2>2. /\ i \in 1 .. n + delta /\ i > at /\ i > delta /\ i - delta <= n /\ i # at + 1
        /\ i # low + new /\ i # low + 1 /\ i - delta = j
    BY <1>4, <1>8, <2>1
  <2>3. moved[i] = l[j]
    BY <1>11, <2>2
  <2>4. hole.list[i] = moved[i]
    BY <1>14, <2>2
  <2>5. QED
    BY <1>16, <2>1, <2>2, <2>3, <2>4
<1>21. Spliced(l, r, s, e, v, low, high, lo, hi)
  <2>1. DOMAIN r = 1 .. low + lo + 1 + hi + (n - high)
    BY <1>10, <1>16
  <2>2. r[low + lo + 1] = Elem(s, e, v)
    BY <1>8, <1>16
  <2>3. QED
    BY <1>1, <1>4, <1>7, <1>16, <1>17, <1>18, <1>19, <1>20, <2>1, <2>2 DEF Spliced
<1>22. QED
  BY <1>15, <1>21

\* The parts of an element.
LEMMA ElemFields ==
  ASSUME NEW s, NEW e, NEW v
  PROVE  Elem(s, e, v).start = s /\ Elem(s, e, v).end = e /\ Elem(s, e, v).val = v
  BY DEF Elem

\* What a list says of an address, element by element.
LEMMA ValuesAtIs ==
  ASSUME NEW l, NEW n, DOMAIN l = 1 .. n, NEW b, NEW y
  PROVE  y \in ValuesAt(l, b) <=> \E i \in 1 .. n : l[i].start <= b /\ b < l[i].end /\ y \in l[i].val
  BY DEF ValuesAt

\* A function on 1 .. N with values in S is a sequence over S.
LEMMA IsSequence ==
  ASSUME NEW S, NEW N \in Nat, NEW r, DOMAIN r = 1 .. N, r = [i \in DOMAIN r |-> r[i]],
         \A i \in 1 .. N : r[i] \in S
  PROVE  r \in Seq(S) /\ Len(r) = N
<1>1. r = [i \in 1 .. N |-> r[i]]
  OBVIOUS
<1>2. r \in [1 .. N -> S]
  BY <1>1
<1>3. QED
  BY <1>2, SeqDef

\* The elements of a spliced list, zone by zone: behind its new part, which
\* ends at m, come the last elements of l.
Zones(l, r, s, e, v, n, low, high, lo, hi, m, i) ==
  \/ i \in 1 .. low /\ r[i] = l[i]
  \/ lo = 1 /\ i = low + 1 /\ low < high /\ r[i] = Elem(l[low + 1].start, s, l[low + 1].val)
  \/ i = low + lo + 1 /\ r[i] = Elem(s, e, v)
  \/ hi = 1 /\ i = low + lo + 2 /\ low < high /\ r[i] = Elem(e, l[high].end, l[high].val)
  \/ \E j \in high + 1 .. n : i = j - high + m /\ r[i] = l[j]

\* Every place of the list after a Replace is of one of five zones.
LEMMA SplicedZones ==
  ASSUME NEW n \in Nat, NEW l, NEW r, NEW s, NEW e, NEW v, NEW low \in 0 .. n, NEW high \in 0 .. n,
         NEW lo \in {0, 1}, NEW hi \in {0, 1}, NEW m, m = low + lo + 1 + hi,
         n = Len(l), Spliced(l, r, s, e, v, low, high, lo, hi),
         NEW i \in 1 .. m + (n - high)
  PROVE  Zones(l, r, s, e, v, n, low, high, lo, hi, m, i)
<1>1. CASE i <= low
  BY <1>1 DEF Spliced, Zones
<1>2. CASE lo = 1 /\ i = low + 1
  BY <1>2 DEF Spliced, Zones
<1>3. CASE i = low + lo + 1
  BY <1>3 DEF Spliced, Zones
<1>4. CASE hi = 1 /\ i = low + lo + 2
  BY <1>4 DEF Spliced, Zones
<1>5. CASE i > low + lo + 1 + hi
  <2>1. PICK j \in high + 1 .. n : j = i - m + high
    BY <1>5
  <2>2. i = j - high + m /\ i = j - high + low + lo + 1 + hi
    BY <2>1
  <2>3. r[i] = l[j]
    BY <2>1, <2>2 DEF Spliced
  <2>4. QED
    BY <2>2, <2>3 DEF Zones
<1>6. i <= low \/ (lo = 1 /\ i = low + 1) \/ i = low + lo + 1 \/ (hi = 1 /\ i = low + lo + 2)
      \/ i > low + lo + 1 + hi
  OBVIOUS
<1>7. QED
  BY <1>1, <1>2, <1>3, <1>4, <1>5, <1>6

\* Replace keeps the list sorted, and says v for the span and what the list
\* said for every other address.
THEOREM ReplaceExact ==
  ASSUME NEW V, NEW l \in Seq(Elems(V)), Sorted(l), NEW s \in Nat, NEW e \in Nat, s <= e, NEW v \in V
  PROVE  /\ Replace(l, s, e, v) \in Seq(Elems(V)) /\ Sorted(Replace(l, s, e, v))
         /\ \A b \in Nat : ValuesAt(Replace(l, s, e, v), b) =
                             IF s <= b /\ b < e THEN v ELSE ValuesAt(l, b)
<1>1. PICK n \in Nat : n = Len(l) /\ DOMAIN l = 1 .. n
  BY ListShape
<1>2. \A i \in 1 .. n : /\ l[i].start \in Nat /\ l[i].end \in Nat /\ l[i].start <= l[i].end
                        /\ l[i] \in Elems(V) /\ l[i].val \in V
  BY <1>1, ListShape DEF Sorted
<1>3. \A i, j \in 1 .. n : i < j => l[i].end <= l[j].start
  BY <1>1, SortedOrder
<1>4. PICK low, high : Meets(l, s, e, Intersection(l, s, e), low, high)
  BY IntersectionMeets
<1>5. /\ low \in 0 .. n /\ high \in 0 .. n /\ low <= high
      /\ \A j \in 1 .. low : l[j].end <= s
      /\ \A j \in high + 1 .. n : e <= l[j].start
      /\ \/ \A j \in low + 1 .. high : s < l[j].end /\ l[j].start < e
         \/ \A j \in low + 1 .. high : l[j].start = s /\ l[j].end = s /\ e = s
  BY <1>1, <1>4 DEF Meets
<1>6. PICK r : r = Replace(l, s, e, v)
  OBVIOUS
<1>7. PICK lo, hi : Spliced(l, r, s, e, v, low, high, lo, hi)
  BY <1>4, <1>6, ReplaceSplices
<1>8. /\ lo \in {0, 1} /\ hi \in {0, 1}
      /\ lo = 1 <=> low < high /\ l[low + 1].start < s
      /\ hi = 1 <=> low < high /\ e < l[high].end
  BY <1>7 DEF Spliced
<1>9a. low \in 0 .. n /\ high \in 0 .. n /\ low <= high /\ lo \in {0, 1} /\ hi \in {0, 1}
  BY <1>5, <1>8, Zenon
<1>9. PICK m \in Nat, N \in Nat : m = low + lo + 1 + hi /\ N = m + (n - high)
  <2>1. low + lo + 1 + hi \in Nat /\ low + lo + 1 + hi + (n - high) \in Nat
    BY <1>9a
  <2>2. QED
    BY <2>1, Zenon
<1>10. DOMAIN r = 1 .. N
  BY <1>1, <1>7, <1>9 DEF Spliced
<1>11. ASSUME NEW i \in 1 .. N PROVE Zones(l, r, s, e, v, n, low, high, lo, hi, m, i)
  <2>1. i \in 1 .. m + (n - high)
    BY <1>9
  <2>2. QED
    <3>1. low \in 0 .. n /\ high \in 0 .. n /\ lo \in {0, 1} /\ hi \in {0, 1}
      BY <1>5, <1>8
    <3>2. QED
      BY <1>1, <1>7, <1>9, <2>1, <3>1, SplicedZones
<1>12. r \in Seq(Elems(V)) /\ Len(r) = N
  <2>1. ASSUME NEW i \in 1 .. N PROVE r[i] \in Elems(V)
    <3>1. \A a \in Nat, c \in Nat, u \in V : Elem(a, c, u) \in Elems(V)
      BY DEF Elem, Elems
    <3>2. \A j \in 1 .. n : l[j] \in Elems(V) /\ l[j].start \in Nat /\ l[j].end \in Nat /\ l[j].val \in V
      BY <1>2
    <3>3. low < high => low + 1 \in 1 .. n /\ high \in 1 .. n
      BY <1>5
    <3>4. (\A j \in 1 .. low : j \in 1 .. n) /\ \A j \in high + 1 .. n : j \in 1 .. n
      BY <1>5
    <3>5. Zones(l, r, s, e, v, n, low, high, lo, hi, m, i)
      BY <1>11
    <3>6. QED
      BY <3>1, <3>2, <3>3, <3>4, <3>5 DEF Zones
  <2>2. r = [i \in DOMAIN r |-> r[i]]
    BY <1>7 DEF Spliced
  <2>3. QED
    BY <1>10, <2>1, <2>2, IsSequence
<1>13. Sorted(r)
  <2>1. ASSUME NEW i \in 1 .. N PROVE r[i].start <= r[i].end
    <3>1. CASE \E j \in 1 .. n : r[i] = l[j]
      BY <1>2, <3>1
    <3>2. CASE lo = 1 /\ r[i] = Elem(l[low + 1].start, s, l[low + 1].val)
      <4>1. l[low + 1].start <= s
        BY <1>2, <1>5, <1>8, <3>2
      <4>2. QED
        BY <3>2, <4>1, ElemFields
    <3>3. CASE r[i] = Elem(s, e, v)
      BY <3>3, ElemFields
    <3>4. CASE hi = 1 /\ r[i] = Elem(e, l[high].end, l[high].val)
      <4>1. e <= l[high].end
        BY <1>2, <1>5, <1>8, <3>4
      <4>2. QED
        BY <3>4, <4>1, ElemFields
    <3>5. QED
      <4>1. (\A j \in 1 .. low : j \in 1 .. n) /\ \A j \in high + 1 .. n : j \in 1 .. n
        BY <1>5
      <4>2. QED
        BY <1>11, <3>1, <3>2, <3>3, <3>4, <4>1 DEF Zones
  <2>2. ASSUME NEW i \in 1 .. N - 1 PROVE r[i].end <= r[i + 1].start
    <3>1. /\ Zones(l, r, s, e, v, n, low, high, lo, hi, m, i)
          /\ Zones(l, r, s, e, v, n, low, high, lo, hi, m, i + 1)
      BY <1>11
    <3>2. CASE i \in 1 .. low /\ r[i] = l[i]
      <4>1. i + 1 <= low + 1 /\ l[i].end <= s /\ i \in 1 .. n
        BY <1>5, <3>2
      <4>2. CASE i + 1 \in 1 .. low /\ r[i + 1] = l[i + 1]
        BY <1>3, <1>5, <3>2, <4>2
      <4>3. CASE lo = 1 /\ i + 1 = low + 1 /\ r[i + 1] = Elem(l[low + 1].start, s, l[low + 1].val)
        <5>1. low + 1 \in 1 .. n /\ i < low + 1
          BY <1>5, <1>8, <4>3
        <5>2. l[i].end <= l[low + 1].start
          BY <1>3, <4>1, <5>1
        <5>3. QED
          BY <3>2, <4>3, <5>2, ElemFields
      <4>4. CASE r[i + 1] = Elem(s, e, v)
        BY <3>2, <4>1, <4>4, ElemFields
      <4>5. QED
        BY <1>5, <1>8, <1>9, <3>1, <4>1, <4>2, <4>3, <4>4 DEF Zones
    <3>3. CASE lo = 1 /\ i = low + 1 /\ r[i] = Elem(l[low + 1].start, s, l[low + 1].val)
      <4>1. i + 1 = low + lo + 1
        BY <3>3
      <4>2. r[i + 1] = Elem(s, e, v)
        BY <1>7, <4>1 DEF Spliced
      <4>3. QED
        BY <3>3, <4>2, ElemFields
    <3>4. CASE i = low + lo + 1 /\ r[i] = Elem(s, e, v)
      <4>1. CASE hi = 1
        <5>1. r[i + 1] = Elem(e, l[high].end, l[high].val)
          <6>1. i + 1 = low + lo + 2
            BY <1>5, <1>8, <3>4
          <6>2. QED
            BY <1>7, <4>1, <6>1 DEF Spliced
        <5>2. QED
          BY <3>4, <5>1, ElemFields
      <4>2. CASE hi = 0
        <5>1. PICK j \in high + 1 .. n : r[i + 1] = l[j]
          BY <1>5, <1>8, <1>9, <3>1, <3>4, <4>2 DEF Zones
        <5>2. e <= l[j].start
          BY <1>5
        <5>3. QED
          BY <3>4, <5>1, <5>2, ElemFields
      <4>3. QED
        BY <1>8, <4>1, <4>2
    <3>5. CASE hi = 1 /\ i = low + lo + 2 /\ low < high /\ r[i] = Elem(e, l[high].end, l[high].val)
      <4>1. PICK j \in high + 1 .. n : r[i + 1] = l[j]
        BY <1>5, <1>8, <1>9, <3>1, <3>5 DEF Zones
      <4>2. l[high].end <= l[j].start
        BY <1>3, <1>5, <3>5
      <4>3. QED
        BY <3>5, <4>1, <4>2, ElemFields
    <3>6. CASE \E j \in high + 1 .. n : i = j - high + m /\ r[i] = l[j]
      <4>1. PICK j \in high + 1 .. n : i = j - high + m /\ r[i] = l[j]
        BY <3>6
      <4>2. PICK k \in high + 1 .. n : i + 1 = k - high + m /\ r[i + 1] = l[k]
        BY <1>5, <1>8, <1>9, <3>1, <4>1 DEF Zones
      <4>3. j \in 1 .. n /\ k \in 1 .. n /\ j < k
        <5>1. high \in 0 .. n /\ i = j - high + m /\ i + 1 = k - high + m
          BY <1>5, <4>1, <4>2
        <5>2. QED
          BY <5>1
      <4>4. QED
        BY <1>3, <4>1, <4>2, <4>3
    <3>7. QED
      BY <3>1, <3>2, <3>3, <3>4, <3>5, <3>6 DEF Zones
  <2>3. QED
    BY <1>10, <1>12, <2>1, <2>2 DEF Sorted
<1>14. ASSUME NEW b \in Nat PROVE ValuesAt(r, b) = IF s <= b /\ b < e THEN v ELSE ValuesAt(l, b)
  <2> DEFINE At(x) == x.start <= b /\ b < x.end
  <2>1. \A y : y \in ValuesAt(r, b) <=> \E i \in 1 .. N : At(r[i]) /\ y \in r[i].val
    BY <1>10, ValuesAtIs
  <2>2. \A y : y \in ValuesAt(l, b) <=> \E i \in 1 .. n : At(l[i]) /\ y \in l[i].val
    BY <1>1, ValuesAtIs
  <2>3. low + lo + 1 \in 1 .. N /\ r[low + lo + 1] = Elem(s, e, v)
    <3>1. r[low + lo + 1] = Elem(s, e, v)
      BY <1>7 DEF Spliced
    <3>2. QED
      BY <1>5, <1>8, <1>9, <3>1
  <2>4. CASE s <= b /\ b < e
    <3>1. At(r[low + lo + 1]) /\ r[low + lo + 1].val = v
      BY <2>3, <2>4, ElemFields
    <3>2. ASSUME NEW i \in 1 .. N, At(r[i]) PROVE r[i].val = v
      <4>1. Zones(l, r, s, e, v, n, low, high, lo, hi, m, i)
        BY <1>11
      <4>2. CASE i \in 1 .. low /\ r[i] = l[i]
        <5>1. l[i].end <= s /\ l[i].end \in Nat
          BY <1>2, <1>5, <4>2
        <5>2. QED
          BY <2>4, <3>2, <4>2, <5>1
      <4>3. CASE r[i] = Elem(l[low + 1].start, s, l[low + 1].val)
        BY <2>4, <3>2, <4>3, ElemFields
      <4>4. CASE r[i] = Elem(s, e, v)
        BY <4>4, ElemFields
      <4>5. CASE r[i] = Elem(e, l[high].end, l[high].val)
        BY <2>4, <3>2, <4>5, ElemFields
      <4>6. CASE \E j \in high + 1 .. n : r[i] = l[j]
        <5>1. PICK j \in high + 1 .. n : r[i] = l[j]
          BY <4>6
        <5>2. e <= l[j].start /\ l[j].start \in Nat
          BY <1>2, <1>5
        <5>3. QED
          BY <2>4, <3>2, <5>1, <5>2
      <4>7. QED
        BY <4>1, <4>2, <4>3, <4>4, <4>5, <4>6 DEF Zones
    <3> HIDE DEF At
    <3>3. \A y : y \in ValuesAt(r, b) <=> y \in v
      BY <2>1, <2>3, <3>1, <3>2
    <3>4. QED
      BY <2>4, <3>3
  <2>5. CASE ~(s <= b /\ b < e)
    <3>1. ASSUME NEW i \in 1 .. N, At(r[i]) PROVE \E j \in 1 .. n : At(l[j]) /\ l[j].val = r[i].val
      <4>1. Zones(l, r, s, e, v, n, low, high, lo, hi, m, i)
        BY <1>11
      <4>2. CASE \E j \in 1 .. n : r[i] = l[j]
        BY <3>1, <4>2
      <4>3. CASE low < high /\ r[i] = Elem(l[low + 1].start, s, l[low + 1].val)
        <5>1. low + 1 \in 1 .. n /\ l[low + 1].start <= b /\ b < s
          BY <1>5, <3>1, <4>3, ElemFields
        <5>2. s <= l[low + 1].end /\ l[low + 1].end \in Nat
          BY <1>2, <1>5, <4>3, <5>1
        <5>3. At(l[low + 1])
          BY <5>1, <5>2
        <5>4. QED
          BY <4>3, <5>1, <5>3, ElemFields
      <4>4. CASE r[i] = Elem(s, e, v)
        BY <2>5, <3>1, <4>4, ElemFields
      <4>5. CASE low < high /\ r[i] = Elem(e, l[high].end, l[high].val)
        <5>1. high \in 1 .. n /\ e <= b /\ b < l[high].end
          BY <1>5, <3>1, <4>5, ElemFields
        <5>2. l[high].start <= e /\ l[high].start \in Nat
          BY <1>2, <1>5, <4>5, <5>1
        <5>3. At(l[high])
          BY <5>1, <5>2
        <5>4. QED
          BY <4>5, <5>1, <5>3, ElemFields
      <4>6. QED
        <5>1. (\A j \in 1 .. low : j \in 1 .. n) /\ \A j \in high + 1 .. n : j \in 1 .. n
          BY <1>5
        <5>2. QED
          BY <4>1, <4>2, <4>3, <4>4, <4>5, <5>1 DEF Zones
    <3>2. ASSUME NEW j \in 1 .. n, At(l[j]) PROVE \E i \in 1 .. N : At(r[i]) /\ l[j].val = r[i].val
      <4>1. CASE j \in 1 .. low
        <5>1. j \in 1 .. N /\ r[j] = l[j]
          <6>1. r[j] = l[j]
            BY <1>7, <4>1 DEF Spliced
          <6>2. j \in 1 .. N
            BY <1>9, <1>9a, <4>1
          <6>3. QED
            BY <6>1, <6>2
        <5>2. QED
          BY <3>2, <5>1
      <4>2. CASE j \in high + 1 .. n
        <5>1. PICK i : i = j - high + low + lo + 1 + hi
          OBVIOUS
        <5>2. r[i] = l[j]
          BY <1>1, <1>7, <4>2, <5>1 DEF Spliced
        <5>3. i \in 1 .. N
          BY <1>9, <1>9a, <4>2, <5>1
        <5>4. QED
          BY <3>2, <5>2, <5>3
      <4>3. CASE j \in low + 1 .. high
        <5>1. s < l[j].end /\ l[j].start < e
          <6>1. ~(l[j].start = s /\ l[j].end = s)
            BY <3>2
          <6>2. QED
            BY <1>5, <4>3, <6>1
        <5>2. low < high /\ s < l[low + 1].end /\ l[high].start < e /\ low + 1 \in 1 .. n /\ high \in 1 .. n
          BY <1>5, <4>3, <5>1
        <5>3. CASE b < s
          <6>1. j = low + 1
            <7>1. ASSUME low + 1 < j PROVE FALSE
              <8>1. l[low + 1].end <= l[j].start
                BY <1>3, <5>2, <7>1
              <8>2. l[low + 1].end \in Nat /\ l[j].start \in Nat
                BY <1>2, <5>2
              <8>3. QED
                BY <3>2, <5>2, <5>3, <8>1, <8>2
            <7>2. QED
              BY <1>5, <4>3, <7>1
          <6>2. lo = 1
            <7>1. l[low + 1].start < s
              <8>1. l[low + 1].start \in Nat /\ l[low + 1].start <= b
                BY <1>2, <3>2, <5>2, <6>1
              <8>2. QED
                BY <5>3, <8>1
            <7>2. QED
              BY <1>8, <5>2, <7>1
          <6>3. r[low + 1] = Elem(l[low + 1].start, s, l[low + 1].val)
            BY <1>7, <6>2 DEF Spliced
          <6>4. low + 1 \in 1 .. N
            BY <1>9, <1>9a, <6>2
          <6>5. At(r[low + 1]) /\ r[low + 1].val = l[j].val
            BY <3>2, <5>3, <6>1, <6>3, ElemFields
          <6>6. QED
            BY <6>4, <6>5
        <5>4. CASE ~(b < s)
          <6>1. e <= b
            BY <2>5, <5>4
          <6>2. j = high
            <7>1. ASSUME j < high PROVE FALSE
              <8>1. l[j].end <= l[high].start
                BY <1>3, <5>2, <7>1
              <8>2. l[j].end \in Nat /\ l[high].start \in Nat
                BY <1>2, <5>2
              <8>3. QED
                BY <3>2, <5>2, <6>1, <8>1, <8>2
            <7>2. QED
              BY <1>5, <4>3, <7>1
          <6>3. hi = 1
            <7>1. e < l[high].end
              <8>1. l[high].end \in Nat /\ b < l[high].end
                BY <1>2, <3>2, <5>2, <6>2
              <8>2. QED
                BY <6>1, <8>1
            <7>2. QED
              BY <1>8, <5>2, <7>1
          <6>4. r[low + lo + 2] = Elem(e, l[high].end, l[high].val)
            BY <1>7, <6>3 DEF Spliced
          <6>5. low + lo + 2 \in 1 .. N
            BY <1>9, <1>9a, <6>3
          <6>6. At(r[low + lo + 2]) /\ r[low + lo + 2].val = l[j].val
            BY <3>2, <6>1, <6>2, <6>4, ElemFields
          <6>7. QED
            BY <6>5, <6>6
        <5>5. QED
          BY <5>3, <5>4
      <4>4. QED
        BY <1>5, <4>1, <4>2, <4>3
    <3> HIDE DEF At
    <3>3. \A y : y \in ValuesAt(r, b) <=> y \in ValuesAt(l, b)
      BY <2>1, <2>2, <3>1, <3>2, Zenon
    <3>4. ValuesAt(r, b) = ValuesAt(l, b)
      BY <3>3
    <3>5. QED
      BY <2>5, <3>4
  <2>6. QED
    BY <2>4, <2>5
<1>15. QED
  BY <1>6, <1>12, <1>13, <1>14

\* The elements that an intersection names hold everything that the list says
\* of the span.
LEMMA IntersectionCovers ==
  ASSUME NEW V, NEW l \in Seq(Elems(V)), Sorted(l), NEW s \in Nat, NEW e \in Nat, s <= e,
         NEW x, x = Intersection(l, s, e)
  PROVE  /\ \A b \in Nat : s <= b /\ b < e =>
              ValuesAt(l, b) \subseteq UNION {l[i].val : i \in x.lowIndex + 1 .. x.lowIndex + x.overlap}
         /\ x.lowIndex + 1 .. x.lowIndex + x.overlap \subseteq 1 .. Len(l)
<1>1. PICK n \in Nat : n = Len(l) /\ DOMAIN l = 1 .. n
  BY ListShape
<1>2. \A i \in 1 .. n : l[i].start \in Nat /\ l[i].end \in Nat
  BY <1>1, ListShape
<1>3. PICK low, high : Meets(l, s, e, x, low, high)
  BY IntersectionMeets
<1>4. /\ low \in 0 .. n /\ high \in 0 .. n /\ low <= high
      /\ x.lowIndex = low /\ x.overlap = high - low
      /\ \A j \in 1 .. low : l[j].end <= s
      /\ \A j \in high + 1 .. n : e <= l[j].start
  BY <1>1, <1>3 DEF Meets
<1>5. x.lowIndex + 1 .. x.lowIndex + x.overlap = low + 1 .. high
  BY <1>4
<1>6. ASSUME NEW b \in Nat, s <= b, b < e, NEW y \in ValuesAt(l, b)
      PROVE  \E i \in low + 1 .. high : y \in l[i].val
  <2>1. PICK i \in 1 .. n : l[i].start <= b /\ b < l[i].end /\ y \in l[i].val
    BY <1>1, <1>6, ValuesAtIs
  <2>2. i \notin 1 .. low
    BY <1>2, <1>4, <1>6, <2>1
  <2>3. i \notin high + 1 .. n
    BY <1>2, <1>4, <1>6, <2>1
  <2>4. i \in low + 1 .. high
    BY <1>4, <2>2, <2>3
  <2>5. QED
    BY <2>1, <2>4
<1>7. low + 1 .. high \subseteq 1 .. n
  BY <1>4
<1>8. QED
  BY <1>1, <1>5, <1>6, <1>7

\* l covers the addresses from lo up to hi, and says G[c] of the address c.
Tiles(V, l, lo, hi, G) ==
  /\ l \in Seq(Elems(V)) /\ Sorted(l)
  /\ \A i \in 1 .. Len(l) : lo <= l[i].start /\ l[i].end <= hi
  /\ \A c \in Nat : ValuesAt(l, c) = IF lo <= c /\ c < hi THEN G[c] ELSE {}

\* All but the last element of a sequence.
LEMMA FrontIs ==
  ASSUME NEW S, NEW a \in Seq(S), NEW n \in Nat, n = Len(a), n > 0
  PROVE  /\ Front(a) \in Seq(S) /\ Len(Front(a)) = n - 1
         /\ \A i \in 1 .. n - 1 : Front(a)[i] = a[i]
<1>1. \A i \in 1 .. n - 1 : a[i] \in S
  OBVIOUS
<1>2. /\ SubSeq(a, 1, n - 1) \in Seq(S)
      /\ Len(SubSeq(a, 1, n - 1)) = IF 1 <= n - 1 THEN (n - 1) - 1 + 1 ELSE 0
      /\ \A i \in 1 .. (n - 1) - 1 + 1 : SubSeq(a, 1, n - 1)[i] = a[1 + i - 1]
  BY <1>1, SubSeqProperties
<1>3. QED
  BY <1>2 DEF Front

\* Three parts of a sequence.
Parts(r, f, x, g, n, m, S) ==
  /\ r \in Seq(S) /\ Len(r) = n + 1 + m
  /\ \A i \in 1 .. n : r[i] = f[i]
  /\ r[n + 1] = x
  /\ \A i \in 1 .. m : r[n + 1 + i] = g[i]

\* A sequence put together from a sequence, an element and a sequence.
LEMMA ThreeParts ==
  ASSUME NEW S, NEW f \in Seq(S), NEW x \in S, NEW g \in Seq(S), NEW r, r = f \o <<x>> \o g,
         NEW n \in Nat, n = Len(f), NEW m \in Nat, m = Len(g)
  PROVE  Parts(r, f, x, g, n, m, S)
<1>1. PICK h \in Seq(S) : h = f \o <<x>>
  <2>1. <<x>> \in Seq(S)
    OBVIOUS
  <2>2. f \o <<x>> \in Seq(S)
    BY <2>1, ConcatProperties
  <2>3. QED
    BY <2>2, Zenon
<1>2. Len(h) = n + 1 /\ h[n + 1] = x /\ \A i \in 1 .. n : h[i] = f[i]
  BY <1>1
<1>3. r = h \o g
  BY <1>1
<1>4. r \in Seq(S) /\ Len(r) = n + 1 + m
  BY <1>2, <1>3
<1>5. ASSUME NEW i \in 1 .. n + 1 PROVE r[i] = h[i]
  BY <1>2, <1>3
<1>6. ASSUME NEW i \in 1 .. m PROVE r[n + 1 + i] = g[i]
  <2>1. /\ n + 1 + i \in 1 .. Len(h) + Len(g) /\ ~(n + 1 + i <= Len(h))
        /\ (n + 1 + i) - Len(h) = i
    BY <1>2
  <2>2. QED
    BY <1>3, <2>1, ConcatProperties
<1>7. QED
  BY <1>2, <1>4, <1>5, <1>6 DEF Parts

\* What Joined gives: the elements of a and b, the last of a and the first of b
\* as one element where they meet.
Concats(a, b, r, n, m) ==
  /\ Len(r) = n + m
  /\ \A i \in 1 .. n : r[i] = a[i]
  /\ \A i \in n + 1 .. n + m : r[i] = b[i - n]

\* r is a and b, with the last of a and the first of b made one.
Merges(a, b, r, n, m) ==
  /\ n > 0 /\ m > 0 /\ a[n].end = b[1].start /\ a[n].val = b[1].val
  /\ Len(r) = n + m - 1
  /\ \A i \in 1 .. n - 1 : r[i] = a[i]
  /\ r[n] = Elem(a[n].start, b[1].end, b[1].val)
  /\ \A i \in n + 1 .. n + m - 1 : r[i] = b[i - n + 1]

\* Joining two lists concatenates them or merges the elements that touch.
LEMMA JoinedIs ==
  ASSUME NEW V, NEW a \in Seq(Elems(V)), NEW b \in Seq(Elems(V)),
         NEW r, r = Joined(a, b), NEW n \in Nat, n = Len(a), NEW m \in Nat, m = Len(b)
  PROVE  /\ r \in Seq(Elems(V))
         /\ Concats(a, b, r, n, m) \/ Merges(a, b, r, n, m)
<1>1. CASE r = a \o b
  <2>1. r \in Seq(Elems(V)) /\ Len(r) = n + m
    BY <1>1
  <2>2. \A i \in 1 .. n : r[i] = a[i]
    BY <1>1
  <2>3. \A i \in n + 1 .. n + m : r[i] = b[i - n]
    BY <1>1
  <2>4. QED
    BY <2>1, <2>2, <2>3 DEF Concats
<1>2. CASE /\ a # <<>> /\ b # <<>> /\ Last(a).end = Head(b).start /\ Last(a).val = Head(b).val
           /\ r = Front(a) \o <<Elem(Last(a).start, Head(b).end, Head(b).val)>> \o Tail(b)
  <2>1. n > 0 /\ m > 0
    BY <1>2, EmptySeq
  <2>2. Last(a) = a[n] /\ Head(b) = b[1]
    BY <2>1 DEF Last
  <2>3. PICK x \in Elems(V) : x = Elem(a[n].start, b[1].end, b[1].val)
    <3>1. a[n].start \in Nat /\ b[1].end \in Nat /\ b[1].val \in V
      BY <2>1, ListShape
    <3>2. QED
      BY <3>1 DEF Elem, Elems
  <2>4. PICK f \in Seq(Elems(V)) : f = Front(a) /\ Len(f) = n - 1 /\ \A i \in 1 .. n - 1 : f[i] = a[i]
    BY <2>1, FrontIs
  <2>5. PICK g \in Seq(Elems(V)) : g = Tail(b) /\ Len(g) = m - 1 /\ \A i \in 1 .. m - 1 : g[i] = b[i + 1]
    <3>1. b # <<>>
      BY <1>2
    <3>2. /\ Tail(b) \in Seq(Elems(V)) /\ Len(Tail(b)) = m - 1
          /\ \A i \in 1 .. Len(Tail(b)) : Tail(b)[i] = b[i + 1]
      BY <3>1, HeadTailProperties
    <3>3. QED
      BY <3>2, Zenon
  <2>6. r = f \o <<x>> \o g
    BY <1>2, <2>2, <2>3, <2>4, <2>5
  <2>7. PICK n1 \in Nat, m1 \in Nat : n1 = n - 1 /\ m1 = m - 1
    <3>1. n - 1 \in Nat /\ m - 1 \in Nat
      BY <2>1
    <3>2. QED
      BY <3>1, Zenon
  <2>8. /\ r \in Seq(Elems(V)) /\ Len(r) = n1 + 1 + m1
        /\ \A i \in 1 .. n1 : r[i] = f[i]
        /\ r[n1 + 1] = x
        /\ \A i \in 1 .. m1 : r[n1 + 1 + i] = g[i]
    <3>1. n1 = Len(f) /\ m1 = Len(g)
      BY <2>4, <2>5, <2>7
    <3>2. Parts(r, f, x, g, n1, m1, Elems(V))
      BY <2>6, <3>1, ThreeParts
    <3>3. QED
      BY <3>2 DEF Parts
  <2>9. Len(r) = n + m - 1 /\ r[n] = x
    BY <2>7, <2>8
  <2>10. ASSUME NEW i \in n + 1 .. n + m - 1 PROVE r[i] = b[i - n + 1]
    <3>1. i - n \in 1 .. m1 /\ n1 + 1 + (i - n) = i
      BY <2>7
    <3>2. r[i] = g[i - n]
      BY <2>8, <3>1
    <3>3. g[i - n] = b[i - n + 1]
      BY <2>5, <2>7, <3>1
    <3>4. QED
      BY <3>2, <3>3
  <2>11. \A i \in 1 .. n - 1 : r[i] = a[i]
    BY <2>4, <2>7, <2>8
  <2>12. QED
    BY <1>2, <2>1, <2>2, <2>3, <2>8, <2>9, <2>10, <2>11 DEF Merges
<1>3. QED
  BY <1>1, <1>2 DEF Joined

\* Lists that say G on intervals that touch say it together.
LEMMA JoinTiles ==
  ASSUME NEW V, NEW G, NEW lo \in Nat, NEW mid \in Nat, NEW hi \in Nat, lo <= mid, mid <= hi,
         NEW a, NEW b, Tiles(V, a, lo, mid, G), Tiles(V, b, mid, hi, G)
  PROVE  Tiles(V, Joined(a, b), lo, hi, G)
<1>1. a \in Seq(Elems(V)) /\ b \in Seq(Elems(V)) /\ Sorted(a) /\ Sorted(b)
  BY DEF Tiles
<1>2. PICK n \in Nat : n = Len(a) /\ DOMAIN a = 1 .. n
  BY <1>1, ListShape
<1>3. PICK m \in Nat : m = Len(b) /\ DOMAIN b = 1 .. m
  BY <1>1, ListShape
<1>4. \A i \in 1 .. n : /\ a[i].start \in Nat /\ a[i].end \in Nat /\ a[i].start <= a[i].end
                        /\ lo <= a[i].start /\ a[i].end <= mid
  BY <1>1, <1>2, ListShape DEF Tiles, Sorted
<1>5. \A i \in 1 .. m : /\ b[i].start \in Nat /\ b[i].end \in Nat /\ b[i].start <= b[i].end
                        /\ mid <= b[i].start /\ b[i].end <= hi
  BY <1>1, <1>3, ListShape DEF Tiles, Sorted
<1>6. \A i \in 1 .. n - 1 : a[i].end <= a[i + 1].start
  BY <1>1, <1>2 DEF Sorted
<1>7. \A i \in 1 .. m - 1 : b[i].end <= b[i + 1].start
  BY <1>1, <1>3 DEF Sorted
<1>8. PICK r : r = Joined(a, b)
  OBVIOUS
<1>9. r \in Seq(Elems(V)) /\ (Concats(a, b, r, n, m) \/ Merges(a, b, r, n, m))
  BY <1>1, <1>2, <1>3, <1>8, JoinedIs
<1>10. PICK N \in Nat : N = Len(r) /\ DOMAIN r = 1 .. N
  BY <1>9, ListShape
<1> DEFINE At(x, c) == x.start <= c /\ c < x.end
<1>11. /\ Sorted(r)
       /\ \A i \in 1 .. N : lo <= r[i].start /\ r[i].end <= hi
       /\ \A c \in Nat : \A y :
            (\E i \in 1 .. N : At(r[i], c) /\ y \in r[i].val) <=>
              (\E i \in 1 .. n : At(a[i], c) /\ y \in a[i].val) \/
              (\E i \in 1 .. m : At(b[i], c) /\ y \in b[i].val)
  <2>1. CASE Concats(a, b, r, n, m)
    <3>1. N = n + m /\ (\A i \in 1 .. n : r[i] = a[i]) /\ \A i \in 1 .. m : r[n + i] = b[i]
      <4>1. \A i \in 1 .. m : n + i \in n + 1 .. n + m /\ (n + i) - n = i
        OBVIOUS
      <4>2. QED
        BY <1>10, <2>1, <4>1 DEF Concats
    <3>2. \A i \in 1 .. N : (i \in 1 .. n /\ r[i] = a[i]) \/ (\E j \in 1 .. m : i = n + j /\ r[i] = b[j])
      <4>1. \A i \in 1 .. N : i \in 1 .. n \/ (i - n \in 1 .. m /\ i = n + (i - n))
        BY <3>1
      <4>2. QED
        BY <3>1, <4>1
    <3>3. \A i \in 1 .. N : lo <= r[i].start /\ r[i].start <= r[i].end /\ r[i].end <= hi
      BY <1>4, <1>5, <3>2
    <3>4. ASSUME NEW i \in 1 .. N - 1 PROVE r[i].end <= r[i + 1].start
      <4>1. CASE i < n
        BY <1>6, <3>1, <4>1
      <4>2. CASE i = n
        <5>1. r[i] = a[n] /\ r[i + 1] = b[1] /\ 1 \in 1 .. m /\ n \in 1 .. n
          BY <3>1, <4>2
        <5>2. a[n].end <= mid /\ mid <= b[1].start /\ a[n].end \in Nat /\ b[1].start \in Nat
          BY <1>4, <1>5, <5>1
        <5>3. QED
          BY <5>1, <5>2
      <4>3. CASE i > n
        <5>1. i - n \in 1 .. m - 1 /\ n + (i - n) = i /\ n + ((i - n) + 1) = i + 1
          BY <3>1, <4>3
        <5>2. r[i] = b[i - n] /\ r[i + 1] = b[(i - n) + 1]
          BY <3>1, <5>1
        <5>3. QED
          BY <1>7, <5>1, <5>2
      <4>4. QED
        BY <4>1, <4>2, <4>3
    <3>5. Sorted(r)
      BY <1>10, <3>3, <3>4 DEF Sorted
    <3>6. ASSUME NEW c \in Nat, NEW y
          PROVE  (\E i \in 1 .. N : At(r[i], c) /\ y \in r[i].val) <=>
                   (\E i \in 1 .. n : At(a[i], c) /\ y \in a[i].val) \/
                   (\E i \in 1 .. m : At(b[i], c) /\ y \in b[i].val)
      <4> HIDE DEF At
      <4>1. (\A i \in 1 .. n : i \in 1 .. N) /\ \A i \in 1 .. m : n + i \in 1 .. N
        BY <3>1
      <4>2. QED
        BY <3>1, <3>2, <4>1, Zenon
    <3>7. QED
      BY <3>3, <3>5, <3>6
  <2>2. CASE Merges(a, b, r, n, m)
    <3>1. /\ n > 0 /\ m > 0 /\ N = n + m - 1
          /\ \A i \in 1 .. n - 1 : r[i] = a[i]
          /\ \A i \in 2 .. m : r[n + i - 1] = b[i]
      <4>1. \A i \in 2 .. m : n + i - 1 \in n + 1 .. n + m - 1 /\ (n + i - 1) - n + 1 = i
        OBVIOUS
      <4>2. QED
        BY <1>10, <2>2, <4>1 DEF Merges
    <3>2. /\ n \in 1 .. n /\ 1 \in 1 .. m /\ n \in 1 .. N
          /\ r[n].start = a[n].start /\ r[n].end = b[1].end
          /\ r[n].val = a[n].val /\ r[n].val = b[1].val /\ a[n].end = b[1].start
      BY <2>2, <3>1, ElemFields DEF Merges
    <3>3. \A i \in 1 .. N : \/ i \in 1 .. n - 1 /\ r[i] = a[i]
                            \/ i = n
                            \/ \E j \in 2 .. m : i = n + j - 1 /\ r[i] = b[j]
      <4>1. \A i \in 1 .. N : \/ i \in 1 .. n - 1
                              \/ i = n
                              \/ i - n + 1 \in 2 .. m /\ i = n + (i - n + 1) - 1
        BY <3>1
      <4>2. QED
        BY <3>1, <4>1
    <3>4. \A i \in 1 .. N : lo <= r[i].start /\ r[i].start <= r[i].end /\ r[i].end <= hi
      <4>1. lo <= r[n].start /\ r[n].start <= r[n].end /\ r[n].end <= hi
        BY <1>4, <1>5, <3>2
      <4>2. \A i \in 1 .. n - 1 : i \in 1 .. n /\ lo <= a[i].start /\ a[i].start <= a[i].end /\ a[i].end <= hi
        BY <1>4
      <4>3. \A i \in 2 .. m : i \in 1 .. m /\ lo <= b[i].start /\ b[i].start <= b[i].end /\ b[i].end <= hi
        BY <1>5
      <4>4. QED
        BY <3>3, <4>1, <4>2, <4>3
    <3>5. ASSUME NEW i \in 1 .. N - 1 PROVE r[i].end <= r[i + 1].start
      <4>1. CASE i < n
        <5>1. r[i] = a[i] /\ a[i].end <= a[i + 1].start
          BY <1>6, <3>1, <4>1
        <5>2. r[i + 1].start = a[i + 1].start
          BY <3>1, <3>2, <4>1
        <5>3. QED
          BY <5>1, <5>2
      <4>2. CASE i = n
        <5>1. r[i + 1] = b[2] /\ 1 \in 1 .. m - 1 /\ 1 + 1 = 2
          <6>1. 2 \in 2 .. m /\ n + 2 - 1 = i + 1
            BY <3>1, <4>2
          <6>2. QED
            BY <3>1, <6>1
        <5>2. b[1].end <= b[2].start
          BY <1>7, <5>1
        <5>3. QED
          BY <3>2, <4>2, <5>1, <5>2
      <4>3. CASE i > n
        <5>1. PICK j \in 2 .. m - 1 : j = i - n + 1
          BY <3>1, <4>3
        <5>2. j \in 2 .. m /\ j + 1 \in 2 .. m /\ n + j - 1 = i /\ n + (j + 1) - 1 = i + 1 /\ j \in 1 .. m - 1
          BY <5>1
        <5>3. r[i] = b[j] /\ r[i + 1] = b[j + 1]
          BY <3>1, <5>2
        <5>4. QED
          BY <1>7, <5>2, <5>3
      <4>4. QED
        BY <4>1, <4>2, <4>3
    <3>6. Sorted(r)
      BY <1>10, <3>4, <3>5 DEF Sorted
    <3>7. ASSUME NEW c \in Nat, NEW y
          PROVE  (\E i \in 1 .. N : At(r[i], c) /\ y \in r[i].val) <=>
                   (\E i \in 1 .. n : At(a[i], c) /\ y \in a[i].val) \/
                   (\E i \in 1 .. m : At(b[i], c) /\ y \in b[i].val)
      <4>1. At(r[n], c) <=> At(a[n], c) \/ At(b[1], c)
        BY <1>4, <1>5, <3>2
      <4> HIDE DEF At
      <4>2. /\ \A i \in 1 .. n - 1 : i \in 1 .. N /\ i \in 1 .. n
            /\ \A i \in 2 .. m : n + i - 1 \in 1 .. N /\ i \in 1 .. m
            /\ \A i \in 1 .. n : i \in 1 .. n - 1 \/ i = n
            /\ \A i \in 1 .. m : i \in 2 .. m \/ i = 1
        BY <3>1
      <4>3. ASSUME NEW i \in 1 .. N, At(r[i], c), y \in r[i].val
            PROVE  (\E j \in 1 .. n : At(a[j], c) /\ y \in a[j].val) \/
                   (\E j \in 1 .. m : At(b[j], c) /\ y \in b[j].val)
        <5>1. CASE i \in 1 .. n - 1 /\ r[i] = a[i]
          BY <4>2, <4>3, <5>1, Zenon
        <5>2. CASE i = n
          BY <3>2, <4>1, <4>3, <5>2, Zenon
        <5>3. CASE \E j \in 2 .. m : i = n + j - 1 /\ r[i] = b[j]
          BY <4>2, <4>3, <5>3, Zenon
        <5>4. QED
          BY <3>3, <5>1, <5>2, <5>3, Zenon
      <4>4. ASSUME NEW i \in 1 .. n, At(a[i], c), y \in a[i].val
            PROVE  \E j \in 1 .. N : At(r[j], c) /\ y \in r[j].val
        <5>1. CASE i \in 1 .. n - 1
          BY <3>1, <4>2, <4>4, <5>1, Zenon
        <5>2. CASE i = n
          BY <3>2, <4>1, <4>4, <5>2, Zenon
        <5>3. QED
          BY <4>2, <5>1, <5>2, Zenon
      <4>5. ASSUME NEW i \in 1 .. m, At(b[i], c), y \in b[i].val
            PROVE  \E j \in 1 .. N : At(r[j], c) /\ y \in r[j].val
        <5>1. CASE i \in 2 .. m
          BY <3>1, <4>2, <4>5, <5>1, Zenon
        <5>2. CASE i = 1
          BY <3>2, <4>1, <4>5, <5>2, Zenon
        <5>3. QED
          BY <4>2, <5>1, <5>2, Zenon
      <4>6. QED
        BY <4>3, <4>4, <4>5, Zenon
    <3>8. QED
      BY <3>4, <3>6, <3>7
  <2>3. QED
    BY <1>9, <2>1, <2>2
<1>12. ASSUME NEW c \in Nat
       PROVE  ValuesAt(r, c) = IF lo <= c /\ c < hi THEN G[c] ELSE {}
  <2>1. ValuesAt(r, c) = ValuesAt(a, c) \cup ValuesAt(b, c)
    <3>1. \A y : y \in ValuesAt(r, c) <=> y \in ValuesAt(a, c) \/ y \in ValuesAt(b, c)
      <4>1. \A y : y \in ValuesAt(r, c) <=> \E i \in 1 .. N : At(r[i], c) /\ y \in r[i].val
        BY <1>10, ValuesAtIs
      <4>2. \A y : y \in ValuesAt(a, c) <=> \E i \in 1 .. n : At(a[i], c) /\ y \in a[i].val
        BY <1>2, ValuesAtIs
      <4>3. \A y : y \in ValuesAt(b, c) <=> \E i \in 1 .. m : At(b[i], c) /\ y \in b[i].val
        BY <1>3, ValuesAtIs
      <4> HIDE DEF At
      <4>4. QED
        BY <1>11, <4>1, <4>2, <4>3, Zenon
    <3>2. QED
      BY <3>1
  <2>2. /\ ValuesAt(a, c) = IF lo <= c /\ c < mid THEN G[c] ELSE {}
        /\ ValuesAt(b, c) = IF mid <= c /\ c < hi THEN G[c] ELSE {}
    BY DEF Tiles
  <2>3. QED
    BY <2>1, <2>2
<1>13. QED
  BY <1>8, <1>9, <1>10, <1>11, <1>12 DEF Tiles

\* The empty list says that nothing has a value.
LEMMA EmptyTiles ==
  ASSUME NEW V, NEW G, NEW lo \in Nat, NEW hi \in Nat, \A c \in Nat : lo <= c /\ c < hi => G[c] = {}
  PROVE  Tiles(V, <<>>, lo, hi, G)
<1>1. <<>> \in Seq(Elems(V)) /\ Len(<<>>) = 0 /\ DOMAIN <<>> = {}
  OBVIOUS
<1>2. Sorted(<<>>) /\ \A c \in Nat : ValuesAt(<<>>, c) = {}
  BY <1>1 DEF Sorted, ValuesAt
<1>3. \A c \in Nat : ValuesAt(<<>>, c) = IF lo <= c /\ c < hi THEN G[c] ELSE {}
  BY <1>2
<1>4. \A i \in 1 .. Len(<<>>) : lo <= <<>>[i].start /\ <<>>[i].end <= hi
  BY <1>1
<1>5. QED
  BY <1>1, <1>2, <1>3, <1>4, Zenon DEF Tiles

\* One element says one value.
LEMMA OneTiles ==
  ASSUME NEW V, NEW G, NEW lo \in Nat, NEW hi \in Nat, lo < hi, NEW v \in V,
         \A c \in Nat : lo <= c /\ c < hi => G[c] = v
  PROVE  Tiles(V, <<Elem(lo, hi, v)>>, lo, hi, G)
<1>1. PICK x \in Elems(V) : x = Elem(lo, hi, v)
  BY DEF Elem, Elems
<1>2. x.start = lo /\ x.end = hi /\ x.val = v
  BY <1>1, ElemFields
<1>3. PICK l : l = <<x>>
  OBVIOUS
<1>4. l \in Seq(Elems(V)) /\ Len(l) = 1 /\ DOMAIN l = 1 .. 1 /\ l[1] = x
  BY <1>3
<1>5. Sorted(l)
  BY <1>2, <1>4 DEF Sorted
<1>6. ASSUME NEW c \in Nat PROVE ValuesAt(l, c) = IF lo <= c /\ c < hi THEN G[c] ELSE {}
  <2>1. \A y : y \in ValuesAt(l, c) <=> \E i \in 1 .. 1 : l[i].start <= c /\ c < l[i].end /\ y \in l[i].val
    BY <1>4, ValuesAtIs
  <2>2. \A y : y \in ValuesAt(l, c) <=> lo <= c /\ c < hi /\ y \in v
    <3>1. 1 \in 1 .. 1 /\ \A i \in 1 .. 1 : i = 1
      OBVIOUS
    <3>2. QED
      BY <1>2, <1>4, <2>1, <3>1
  <2>3. QED
    BY <2>2
<1>7. \A i \in 1 .. 1 : lo <= l[i].start /\ l[i].end <= hi
  BY <1>2, <1>4
<1>8. Tiles(V, l, lo, hi, G)
  BY <1>4, <1>5, <1>6, <1>7 DEF Tiles
<1>9. QED
  BY <1>1, <1>3, <1>8

\* The gap before the first or behind the last element.
LEMMA PadTiles ==
  ASSUME NEW V, NEW G, NEW lo \in Nat, NEW hi \in Nat, NEW l, Tiles(V, l, lo, hi, G),
         NEW lo2 \in Nat, NEW hi2 \in Nat, lo2 <= lo, hi <= hi2,
         \A c \in Nat : (lo2 <= c /\ c < lo) \/ (hi <= c /\ c < hi2) => G[c] = {}
  PROVE  Tiles(V, l, lo2, hi2, G)
<1>1. l \in Seq(Elems(V)) /\ Sorted(l)
  BY DEF Tiles
<1>2. \A i \in 1 .. Len(l) : lo2 <= l[i].start /\ l[i].end <= hi2
  BY <1>1, ListShape DEF Tiles
<1>3. ASSUME NEW c \in Nat PROVE ValuesAt(l, c) = IF lo2 <= c /\ c < hi2 THEN G[c] ELSE {}
  <2>1. ValuesAt(l, c) = IF lo <= c /\ c < hi THEN G[c] ELSE {}
    BY DEF Tiles
  <2>2. QED
    BY <2>1
<1>4. QED
  BY <1>1, <1>2, <1>3 DEF Tiles

\* What a sorted list says inside and between its elements.
LEMMA SortedSays ==
  ASSUME NEW V, NEW l \in Seq(Elems(V)), Sorted(l), NEW n \in Nat, n = Len(l), NEW c \in Nat
  PROVE  /\ \A i \in 1 .. n : l[i].start <= c /\ c < l[i].end => ValuesAt(l, c) = l[i].val
         /\ (\A i \in 1 .. n : l[i].end <= c \/ c < l[i].start) => ValuesAt(l, c) = {}
<1>1. DOMAIN l = 1 .. n
  BY ListShape
<1>2. \A i \in 1 .. n : l[i].start \in Nat /\ l[i].end \in Nat
  BY ListShape
<1>3. \A y : y \in ValuesAt(l, c) <=> \E i \in 1 .. n : l[i].start <= c /\ c < l[i].end /\ y \in l[i].val
  BY <1>1, ValuesAtIs
<1>4. ASSUME NEW i \in 1 .. n, l[i].start <= c, c < l[i].end PROVE ValuesAt(l, c) = l[i].val
  <2>1. ASSUME NEW j \in 1 .. n, l[j].start <= c, c < l[j].end PROVE i = j
    <3>1. \A a, b \in 1 .. n : a < b => l[a].end <= l[b].start
      BY SortedOrder
    <3>2. ~(i < j) /\ ~(j < i)
      BY <1>2, <1>4, <2>1, <3>1
    <3>3. QED
      BY <3>2
  <2>2. \A y : y \in ValuesAt(l, c) <=> y \in l[i].val
    BY <1>3, <1>4, <2>1, Zenon
  <2>3. QED
    BY <2>2
<1>5. ASSUME \A i \in 1 .. n : l[i].end <= c \/ c < l[i].start PROVE ValuesAt(l, c) = {}
  <2>1. \A i \in 1 .. n : ~(l[i].start <= c /\ c < l[i].end)
    BY <1>2, <1>5
  <2>2. QED
    BY <1>3, <2>1
<1>6. QED
  BY <1>4, <1>5

\* G has the value v from s up to e.
Says(G, s, e, v) == \A c \in Nat : s <= c /\ c < e => G[c] = v

\* What Update has built so far says what it should up to its start.
Built(V, b, lo, p, G) == b.start = p /\ Tiles(V, b.elems, lo, p, G)

\* add of Update extends what the new elements say up to e.
LEMMA AddTiles ==
  ASSUME NEW V, {} \notin V, NEW G, NEW lo \in Nat, NEW s \in Nat, lo <= s, NEW b,
         Built(V, b, lo, s, G), NEW e \in Nat, NEW v \in V, Says(G, s, e, v),
         NEW r, r = AddElem(b, v, s, e), NEW p, p = IF s < e THEN e ELSE s
  PROVE  Built(V, r, lo, p, G)
<1>1. CASE s < e
  <2>1. r = [start |-> e, elems |-> Joined(b.elems, <<Elem(s, e, v)>>)]
    BY <1>1 DEF AddElem, NoValue
  <2>2. r.start = e /\ r.elems = Joined(b.elems, <<Elem(s, e, v)>>)
    BY <2>1
  <2>3. Tiles(V, <<Elem(s, e, v)>>, s, e, G)
    BY <1>1, OneTiles DEF Says
  <2>4. Tiles(V, Joined(b.elems, <<Elem(s, e, v)>>), lo, e, G)
    BY <1>1, <2>3, JoinTiles DEF Built
  <2>5. QED
    BY <1>1, <2>2, <2>4 DEF Built
<1>2. CASE ~(s < e)
  <2>1. r = b
    BY <1>2 DEF AddElem
  <2>2. QED
    BY <1>2, <2>1
<1>3. QED
  BY <1>1, <1>2

\* What the list says of an address after an update.
NewSays(l, s, e, F) ==
  [c \in Nat |-> IF s <= c /\ c < e THEN F[ValuesAt(l, c)] ELSE ValuesAt(l, c)]

\* F takes the values of V, and no value, to values of V.
Updater(V, F) == {} \notin V /\ F[{}] \in V /\ \A v \in V : F[v] \in V

\* One turn of Update: the gap before the element, and the part of it in the
\* interval.
LEMMA OneUpdated ==
  ASSUME NEW V, NEW F, Updater(V, F), NEW l \in Seq(Elems(V)), Sorted(l), NEW s \in Nat, NEW e \in Nat,
         s <= e, NEW G, G = NewSays(l, s, e, F), NEW j \in 1 .. Len(l), NEW x, x = l[j],
         s < x.end, x.start < e, NEW lo \in Nat, NEW p \in Nat, lo <= p, s <= p, p <= e, p <= x.end,
         \A i \in 1 .. j - 1 : l[i].end <= p,
         NEW b, Built(V, b, lo, p, G), NEW r, r = UpdateOne(b, x, e, F)
  PROVE  Built(V, r, lo, x.end, G)
<1>1. PICK n \in Nat : n = Len(l)
  BY ListShape
<1>2. \A i \in 1 .. n : l[i].start \in Nat /\ l[i].end \in Nat /\ l[i].start <= l[i].end /\ l[i].val \in V
  BY <1>1, ListShape DEF Sorted
<1>3. \A i, k \in 1 .. n : i < k => l[i].end <= l[k].start
  BY <1>1, SortedOrder
<1>4. PICK xs \in Nat, xe \in Nat, v \in V :
        x.start = xs /\ x.end = xe /\ x.val = v /\ xs <= xe /\ s < xe /\ xs < e /\ p <= xe
  BY <1>1, <1>2
<1>5. \A c \in Nat : G[c] = IF s <= c /\ c < e THEN F[ValuesAt(l, c)] ELSE ValuesAt(l, c)
  BY DEF NewSays
<1>6. F[{}] \in V /\ F[v] \in V /\ {} \notin V
  BY <1>4 DEF Updater
<1>7. PICK b1 : b1 = AddElem(b, F[NoValue], b.start, x.start)
  OBVIOUS
<1>8. PICK q \in Nat : q = IF p < xs THEN xs ELSE p
  BY <1>4
<1>9. Built(V, b1, lo, q, G)
  <2>1. ASSUME NEW c \in Nat, p <= c, c < xs PROVE G[c] = F[{}]
    <3>1. ASSUME NEW i \in 1 .. n PROVE l[i].end <= c \/ c < l[i].start
      <4>1. CASE i < j
        BY <1>1, <1>2, <2>1, <4>1
      <4>2. CASE i = j
        BY <1>4, <2>1, <4>2
      <4>3. CASE j < i
        <5>1. xe <= l[i].start
          BY <1>1, <1>3, <1>4, <4>3
        <5>2. QED
          BY <1>2, <1>4, <2>1, <5>1
      <4>4. QED
        BY <1>1, <4>1, <4>2, <4>3
    <3>2. ValuesAt(l, c) = {}
      BY <1>1, <3>1, SortedSays
    <3>3. s <= c /\ c < e
      BY <1>4, <2>1
    <3>4. QED
      BY <1>5, <3>2, <3>3
  <2>2. b1 = AddElem(b, F[{}], p, xs)
    BY <1>4, <1>7 DEF NoValue, Built
  <2>3. Says(G, p, xs, F[{}])
    BY <2>1 DEF Says
  <2>4. QED
    BY <1>6, <1>8, <2>2, <2>3, AddTiles
<1>10. lo <= q /\ xs <= q /\ q <= e /\ q <= xe /\ s <= q
  BY <1>4, <1>8
<1>11. \A c \in Nat : q <= c /\ c < xe => ValuesAt(l, c) = v
  <2>1. \A c \in Nat : q <= c /\ c < xe => xs <= c
    BY <1>10
  <2>2. QED
    BY <1>1, <1>4, <2>1, SortedSays
<1>12. PICK t \in Nat : t = Min({xe, e}) /\ t = IF xe <= e THEN xe ELSE e
  <2>1. xe \in Int /\ e \in Int
    OBVIOUS
  <2>2. Min({xe, e}) = IF xe <= e THEN xe ELSE e
    BY <2>1, MinMaxPair, Zenon
  <2>3. QED
    BY <2>2
<1>13. q <= t /\ t <= e /\ t <= xe /\ (xe <= e => t = xe) /\ (xe > e => t = e)
  BY <1>10, <1>12
<1>14. PICK b2 : b2 = UpdateInner(b1, x, e, F)
  OBVIOUS
<1>15. Built(V, b2, lo, t, G)
  <2>1. b2 = AddElem(b1, F[v], q, t)
    BY <1>4, <1>9, <1>12, <1>14 DEF UpdateInner, Built
  <2>2. ASSUME NEW c \in Nat, q <= c, c < t PROVE G[c] = F[v]
    <3>1. s <= c /\ c < e /\ c < xe
      BY <1>10, <1>13, <2>2
    <3>2. QED
      BY <1>5, <1>11, <2>2, <3>1
  <2>3. Says(G, q, t, F[v])
    BY <2>2 DEF Says
  <2>4. t = IF q < t THEN t ELSE q
    BY <1>13
  <2>5. QED
    BY <1>6, <1>9, <1>10, <2>1, <2>3, <2>4, AddTiles
<1>16. r = AddElem(b2, IF xe > e THEN v ELSE NoValue, e, xe)
  BY <1>4, <1>7, <1>14 DEF UpdateOne
<1>17. CASE xe > e
  <2>1. t = e
    BY <1>13, <1>17
  <2>2. r = AddElem(b2, v, e, xe)
    BY <1>16, <1>17
  <2>3. ASSUME NEW c \in Nat, e <= c, c < xe PROVE G[c] = v
    <3>1. q <= c /\ ~(s <= c /\ c < e)
      BY <1>10, <2>3
    <3>2. QED
      BY <1>5, <1>11, <2>3, <3>1
  <2>4. Says(G, e, xe, v)
    BY <2>3 DEF Says
  <2>5. lo <= e /\ xe = IF e < xe THEN xe ELSE e
    BY <1>10, <1>17
  <2>6. QED
    BY <1>4, <1>6, <1>15, <2>1, <2>2, <2>4, <2>5, AddTiles
<1>18. CASE ~(xe > e)
  <2>1. t = xe
    BY <1>13, <1>18
  <2>2. r = AddElem(b2, NoValue, e, xe)
    BY <1>16, <1>18
  <2>3. r = b2
    BY <2>2 DEF AddElem
  <2>4. QED
    BY <1>4, <1>15, <2>1, <2>3
<1>19. QED
  BY <1>17, <1>18

\* The loop of Update is a fold.
LEMMA UpdatedIsFold ==
  ASSUME NEW e, NEW F, NEW first, NEW xs
  PROVE  FoldLeft(LAMBDA b, x : UpdateOne(b, x, e, F), first, xs) = UpdateFold!Fold(<<e, F>>, first, xs)
<1>1. \A b, x : UpdateTurn(<<e, F>>, b, x) = UpdateOne(b, x, e, F)
  BY DEF UpdateTurn
<1>2. QED
  BY DEF FoldLeft, MapThenFoldSet, Max, UpdateFold!Fold, UpdateFold!MapThenFoldSet, UpdateFold!Greatest, UpdateTurn

\* f has the states of the loop of Update after each turn.
UpdateRuns(q, base, xs, m, f) ==
  /\ f[0] = base
  /\ \A j \in 1 .. m : f[j] = UpdateTurn(q, f[j - 1], xs[j])
  /\ UpdateFold!Fold(q, base, xs) = f[m]

\* The states of the loop of Update exist.
LEMMA UpdateSteps ==
  ASSUME NEW q, NEW base, NEW S, NEW xs \in Seq(S), NEW m \in Nat, m = Len(xs)
  PROVE  \E f : UpdateRuns(q, base, xs, m, f)
  BY UpdateFold!FoldSteps DEF UpdateRuns

\* k and i are the bounds that Update finds: what lies before the span, and
\* what starts before its end.
Bounds(l, s, e, n, k, i) ==
  /\ k \in 0 .. n /\ i \in k .. n
  /\ \A j \in 1 .. k : l[j].end <= s
  /\ \A j \in k + 1 .. n : s < l[j].end
  /\ \A j \in k + 1 .. i : l[j].start < e
  /\ \A j \in i + 1 .. n : e <= l[j].start

\* Where the new elements start, and where the loop of Update is after the
\* element j.
FirstAt(l, k) == IF k = 0 THEN 0 ELSE l[k].end

\* How far the loop of Update is after the element j.
DoneAt(l, s, k, j) == IF j = k THEN s ELSE l[j].end

\* The parts of the loop's state.
LEMMA BuiltFields ==
  ASSUME NEW b, NEW s, NEW y, b = [start |-> s, elems |-> y]
  PROVE  b.start = s /\ b.elems = y
  OBVIOUS

\* The state before the first turn: the part of an element that starts before
\* the interval.
LEMMA FirstBuilt ==
  ASSUME NEW V, NEW F, Updater(V, F), NEW l \in Seq(Elems(V)), Sorted(l), NEW s \in Nat, NEW e \in Nat,
         s <= e, NEW G, G = NewSays(l, s, e, F), NEW n \in Nat, n = Len(l), NEW k, NEW i,
         Bounds(l, s, e, n, k, i), NEW none, none = [start |-> s, elems |-> <<>>], NEW first,
         first = IF k < Len(l) THEN AddElem(none, l[k + 1].val, l[k + 1].start, s) ELSE none
  PROVE  Built(V, first, FirstAt(l, k), s, G) /\ FirstAt(l, k) \in 0 .. s
<1>1. \A j \in 1 .. n : l[j].start \in Nat /\ l[j].end \in Nat /\ l[j].start <= l[j].end /\ l[j].val \in V
  BY ListShape DEF Sorted
<1>2. \A a, b \in 1 .. n : a < b => l[a].end <= l[b].start
  BY SortedOrder
<1>3. k \in 0 .. n /\ (\A j \in 1 .. k : l[j].end <= s) /\ \A j \in k + 1 .. n : s < l[j].end
  BY DEF Bounds
<1>4. PICK lo \in Nat : lo = FirstAt(l, k) /\ lo <= s
  BY <1>1, <1>3 DEF FirstAt
<1>5. \A j \in 1 .. k : l[j].end <= lo
  <2>1. ASSUME NEW j \in 1 .. k PROVE l[j].end <= l[k].end
    <3>1. j \in 1 .. n /\ k \in 1 .. n
      BY <1>3
    <3>2. CASE j = k
      BY <1>1, <3>1, <3>2
    <3>3. CASE j < k
      <4>1. l[j].end <= l[k].start /\ l[k].start <= l[k].end
        BY <1>1, <1>2, <3>1, <3>3
      <4>2. QED
        BY <1>1, <3>1, <4>1
    <3>4. QED
      BY <3>1, <3>2, <3>3
  <2>2. QED
    BY <1>3, <1>4, <2>1 DEF FirstAt
<1>6. \A c \in Nat : c < s => G[c] = ValuesAt(l, c)
  BY DEF NewSays
<1>7. CASE k < n /\ l[k + 1].start < s
  <2>1. PICK xs \in Nat, v \in V : l[k + 1].start = xs /\ l[k + 1].val = v /\ xs < s /\ s < l[k + 1].end
    BY <1>1, <1>3, <1>7
  <2>2. v # {}
    BY DEF Updater
  <2>3. first = [start |-> s, elems |-> Joined(<<>>, <<Elem(xs, s, v)>>)]
    BY <1>7, <2>1, <2>2 DEF AddElem, NoValue
  <2>4. Joined(<<>>, <<Elem(xs, s, v)>>) = <<Elem(xs, s, v)>>
    BY DEF Joined
  <2>5. first.start = s /\ first.elems = <<Elem(xs, s, v)>>
    <3>1. PICK y : y = <<Elem(xs, s, v)>>
      OBVIOUS
    <3>2. first = [start |-> s, elems |-> y]
      BY <2>3, <2>4, <3>1, Zenon
    <3>3. first.start = s /\ first.elems = y
      BY <3>2, BuiltFields
    <3>4. QED
      BY <3>1, <3>3, Zenon
  <2>6. ASSUME NEW c \in Nat, xs <= c, c < s PROVE G[c] = v
    <3>1. c < l[k + 1].end /\ k + 1 \in 1 .. n
      BY <1>1, <1>3, <1>7, <2>1, <2>6
    <3>2. ValuesAt(l, c) = v
      BY <2>1, <2>6, <3>1, SortedSays
    <3>3. QED
      BY <1>6, <2>6, <3>2
  <2>7. Tiles(V, <<Elem(xs, s, v)>>, xs, s, G)
    BY <2>1, <2>6, OneTiles
  <2>8. lo <= xs
    <3>1. CASE k = 0
      BY <1>4, <3>1 DEF FirstAt
    <3>2. CASE k # 0
      <4>1. k \in 1 .. n /\ k + 1 \in 1 .. n /\ k < k + 1
        BY <1>3, <1>7, <3>2
      <4>2. QED
        BY <1>2, <1>4, <2>1, <3>2, <4>1 DEF FirstAt
    <3>3. QED
      BY <3>1, <3>2
  <2>9. ASSUME NEW c \in Nat, lo <= c, c < xs PROVE G[c] = {}
    <3>1. ASSUME NEW j \in 1 .. n PROVE l[j].end <= c \/ c < l[j].start
      <4>1. CASE j <= k
        BY <1>1, <1>5, <2>9, <4>1
      <4>2. CASE j = k + 1
        BY <2>1, <2>9, <4>2
      <4>3. CASE j > k + 1
        <5>1. l[k + 1].end <= l[j].start /\ l[j].start \in Nat
          BY <1>1, <1>2, <1>3, <1>7, <4>3
        <5>2. s < l[j].start
          BY <1>1, <1>3, <1>7, <2>1, <5>1
        <5>3. QED
          BY <2>1, <2>9, <5>1, <5>2
      <4>4. QED
        BY <1>3, <4>1, <4>2, <4>3
    <3>2. ValuesAt(l, c) = {}
      BY <3>1, SortedSays
    <3>3. QED
      BY <1>6, <2>1, <2>9, <3>2
  <2>10. Tiles(V, <<Elem(xs, s, v)>>, lo, s, G)
    <3>1. \A c \in Nat : (lo <= c /\ c < xs) \/ (s <= c /\ c < s) => G[c] = {}
      BY <2>9
    <3>2. QED
      BY <2>7, <2>8, <3>1, PadTiles
  <2>11. Built(V, first, lo, s, G)
    BY <2>5, <2>10, Zenon DEF Built
  <2>12. QED
    BY <1>4, <2>11
<1>8. CASE ~(k < n /\ l[k + 1].start < s)
  <2>1. first = none
    <3>1. CASE ~(k < n)
      BY <3>1
    <3>2. CASE k < n /\ ~(l[k + 1].start < s)
      <4>1. l[k + 1].start >= s
        BY <1>1, <1>3, <3>2
      <4>2. QED
        BY <3>2, <4>1 DEF AddElem
    <3>3. QED
      BY <1>8, <3>1, <3>2
  <2>2. ASSUME NEW c \in Nat, lo <= c, c < s PROVE G[c] = {}
    <3>1. ASSUME NEW j \in 1 .. n PROVE l[j].end <= c \/ c < l[j].start
      <4>1. CASE j <= k
        BY <1>1, <1>5, <2>2, <4>1
      <4>2. CASE j > k
        <5>1. l[k + 1].start <= l[j].start /\ s <= l[k + 1].start /\ k + 1 \in 1 .. n
          <6>1. k + 1 \in 1 .. n /\ s <= l[k + 1].start
            BY <1>1, <1>3, <1>8, <4>2
          <6>2. CASE j = k + 1
            BY <1>1, <6>1, <6>2
          <6>3. CASE j > k + 1
            <7>1. l[k + 1].end <= l[j].start /\ l[k + 1].start <= l[k + 1].end
              BY <1>1, <1>2, <6>1, <6>3
            <7>2. QED
              BY <1>1, <6>1, <7>1
          <6>4. QED
            BY <1>3, <4>2, <6>1, <6>2, <6>3
        <5>2. QED
          BY <1>1, <2>2, <5>1
      <4>3. QED
        BY <1>3, <4>1, <4>2
    <3>2. ValuesAt(l, c) = {}
      BY <3>1, SortedSays
    <3>3. QED
      BY <1>6, <2>2, <3>2
  <2>3. Tiles(V, <<>>, lo, s, G)
    BY <2>2, EmptyTiles
  <2>4. QED
    BY <1>4, <2>1, <2>3 DEF Built
<1>9. QED
  BY <1>7, <1>8

\* The new elements say what they should, from the end of the last element
\* before the span to the end of the span or of the last element in it.
LEMMA UpdatedTiles ==
  ASSUME NEW V, NEW F, Updater(V, F), NEW l \in Seq(Elems(V)), Sorted(l), NEW s \in Nat, NEW e \in Nat,
         s <= e, NEW G, G = NewSays(l, s, e, F), NEW n \in Nat, n = Len(l), NEW k, NEW i,
         Bounds(l, s, e, n, k, i)
  PROVE  \E hi \in Nat : /\ Tiles(V, Updated(l, s, e, k, i, F), FirstAt(l, k), hi, G)
                          /\ hi = IF DoneAt(l, s, k, i) < e THEN e ELSE DoneAt(l, s, k, i)
<1>1. \A j \in 1 .. n : l[j].start \in Nat /\ l[j].end \in Nat /\ l[j].start <= l[j].end /\ l[j].val \in V
  BY ListShape DEF Sorted
<1>2. \A a, b \in 1 .. n : a < b => l[a].end <= l[b].start
  BY SortedOrder
<1>3. /\ k \in 0 .. n /\ i \in k .. n
      /\ \A j \in 1 .. k : l[j].end <= s
      /\ \A j \in k + 1 .. n : s < l[j].end
      /\ \A j \in k + 1 .. i : l[j].start < e
      /\ \A j \in i + 1 .. n : e <= l[j].start
  BY DEF Bounds
<1>4. PICK none, first :
        /\ none = [start |-> s, elems |-> <<>>]
        /\ first = IF k < Len(l) THEN AddElem(none, l[k + 1].val, l[k + 1].start, s) ELSE none
  OBVIOUS
<1>5. PICK lo \in 0 .. s : lo = FirstAt(l, k) /\ Built(V, first, lo, s, G)
  BY <1>4, FirstBuilt
<1>6. PICK m \in Nat : m = i - k
  BY <1>3
<1>7. PICK xs \in Seq(Elems(V)) :
        xs = SubSeq(l, k + 1, i) /\ Len(xs) = m /\ \A j \in 1 .. m : xs[j] = l[k + j]
  <2>1. k + 1 \in Int /\ i \in Int /\ \A j \in k + 1 .. i : l[j] \in Elems(V)
    BY <1>3, ListShape
  <2>2. /\ SubSeq(l, k + 1, i) \in Seq(Elems(V))
        /\ Len(SubSeq(l, k + 1, i)) = IF k + 1 <= i THEN i - (k + 1) + 1 ELSE 0
        /\ \A j \in 1 .. i - (k + 1) + 1 : SubSeq(l, k + 1, i)[j] = l[k + 1 + j - 1]
    BY <2>1, SubSeqProperties
  <2>3. i - (k + 1) + 1 = m /\ (IF k + 1 <= i THEN i - (k + 1) + 1 ELSE 0) = m
        /\ \A j \in 1 .. m : k + 1 + j - 1 = k + j
    BY <1>3, <1>6
  <2>4. \A j \in 1 .. m : SubSeq(l, k + 1, i)[j] = l[k + j]
    <3>1. \A j \in 1 .. m : SubSeq(l, k + 1, i)[j] = l[k + 1 + j - 1]
      BY <2>2, <2>3, Zenon
    <3>2. QED
      BY <2>3, <3>1, Zenon
  <2>5. Len(SubSeq(l, k + 1, i)) = m
    BY <2>2, <2>3, Zenon
  <2>6. QED
    BY <2>2, <2>4, <2>5, Zenon
<1>7a. PICK f : UpdateRuns(<<e, F>>, first, xs, m, f)
  BY <1>7, UpdateSteps
<1>8. /\ f[0] = first
      /\ \A j \in 1 .. m : f[j] = UpdateTurn(<<e, F>>, f[j - 1], xs[j])
      /\ UpdateFold!Fold(<<e, F>>, first, xs) = f[m]
  BY <1>7a DEF UpdateRuns
<1> DEFINE Pos(j) == DoneAt(l, s, k, k + j)
           Good == {j \in Nat : j <= m => Built(V, f[j], lo, Pos(j), G)}
<1>9. 0 \in Good
  <2>1. Pos(0) = s
    BY <1>3 DEF DoneAt
  <2>2. QED
    BY <1>5, <1>8, <2>1
<1>10. ASSUME NEW j \in Nat, j \in Good PROVE j + 1 \in Good
  <2>1. SUFFICES ASSUME j + 1 <= m PROVE Built(V, f[j + 1], lo, Pos(j + 1), G)
    OBVIOUS
  <2>2. j + 1 \in 1 .. m /\ (j + 1) - 1 = j /\ k + (j + 1) \in k + 1 .. i /\ k + (j + 1) \in 1 .. n
    BY <1>3, <1>6, <2>1
  <2>3. Built(V, f[j], lo, Pos(j), G)
    BY <1>10, <2>1
  <2>4. PICK x : x = l[k + (j + 1)]
    OBVIOUS
  <2>5. f[j + 1] = UpdateOne(f[j], x, e, F)
    BY <1>7, <1>8, <2>2, <2>4 DEF UpdateTurn
  <2>6. Pos(j + 1) = x.end
    BY <1>3, <2>2, <2>4 DEF DoneAt
  <2>7. s < x.end /\ x.start < e
    BY <1>3, <2>2, <2>4
  <2>8. /\ Pos(j) \in Nat /\ lo <= Pos(j) /\ s <= Pos(j) /\ Pos(j) <= e /\ Pos(j) <= x.end
        /\ \A a \in 1 .. (k + (j + 1)) - 1 : l[a].end <= Pos(j)
    <3>1. CASE j = 0
      <4>1. Pos(j) = s
        BY <1>3, <3>1 DEF DoneAt
      <4>2. \A a \in 1 .. (k + (j + 1)) - 1 : a \in 1 .. k
        BY <1>3, <3>1
      <4>3. x.end \in Nat
        BY <1>1, <2>2, <2>4
      <4>4. QED
        BY <1>3, <1>5, <2>7, <4>1, <4>2, <4>3
    <3>2. CASE j # 0
      <4>1. PICK p \in 1 .. n : p = k + j /\ p \in k + 1 .. n
        BY <1>3, <2>2, <3>2
      <4>2. Pos(j) = l[p].end
        BY <1>3, <3>2, <4>1 DEF DoneAt
      <4>3. l[p].end <= x.start
        <5>1. p < k + (j + 1)
          BY <1>3, <4>1
        <5>2. QED
          BY <1>2, <2>2, <2>4, <5>1
      <4>4. s < l[p].end
        BY <1>3, <4>1
      <4>5. /\ l[p].end \in Nat /\ x.start \in Nat /\ x.end \in Nat /\ x.start <= x.end
            /\ l[p].start <= l[p].end /\ l[p].start \in Nat
        BY <1>1, <2>2, <2>4
      <4>6. ASSUME NEW a \in 1 .. (k + (j + 1)) - 1 PROVE l[a].end <= l[p].end
        <5>1. a \in 1 .. n /\ a <= p
          BY <1>3, <2>2, <4>1
        <5>2. CASE a = p
          BY <4>5, <5>2
        <5>3. CASE a < p
          <6>1. l[a].end <= l[p].start /\ l[a].end \in Nat
            BY <1>1, <1>2, <5>1, <5>3
          <6>2. QED
            BY <4>5, <6>1
        <5>4. QED
          BY <5>1, <5>2, <5>3
      <4>7. QED
        BY <2>7, <4>2, <4>3, <4>4, <4>5, <4>6
    <3>3. QED
      BY <3>1, <3>2
  <2>9. Built(V, f[j + 1], lo, x.end, G)
    <3> HIDE DEF Pos
    <3>1. lo \in Nat
      OBVIOUS
    <3>2. QED
      BY <2>2, <2>3, <2>4, <2>5, <2>7, <2>8, <3>1, OneUpdated
  <2>10. QED
    BY <2>6, <2>9
<1>11. Built(V, f[m], lo, Pos(m), G)
  <2>1. Nat \subseteq Good
    <3> HIDE DEF Good
    <3>1. QED
      BY <1>9, <1>10, UpdateFold!NatSetInduction
  <2>2. QED
    BY <2>1
<1>12. PICK p \in Nat : p = DoneAt(l, s, k, i) /\ p = Pos(m) /\ lo <= p /\ s <= p
  <2>1. k + m = i
    BY <1>3, <1>6
  <2>2. CASE i = k
    BY <1>5, <2>1, <2>2 DEF DoneAt
  <2>3. CASE i # k
    <3>1. i \in 1 .. n /\ i \in k + 1 .. n
      BY <1>3, <2>3
    <3>2. l[i].end \in Nat /\ s < l[i].end
      BY <1>1, <1>3, <3>1
    <3>3. QED
      BY <1>5, <2>1, <2>3, <3>2 DEF DoneAt
  <2>4. QED
    BY <2>2, <2>3
<1>13. PICK b : b = f[m] /\ Built(V, b, lo, p, G)
  BY <1>11, <1>12
<1>14. Updated(l, s, e, k, i, F) = AddElem(b, F[{}], p, e).elems
  <2>1. Updated(l, s, e, k, i, F) = UpdateRest(b, e, F)
    <3>1. Updated(l, s, e, k, i, F) =
            UpdateRest(FoldLeft(LAMBDA c, x : UpdateOne(c, x, e, F), first, xs), e, F)
      BY <1>4, <1>7, Zenon DEF Updated
    <3>2. FoldLeft(LAMBDA c, x : UpdateOne(c, x, e, F), first, xs) = b
      BY <1>8, <1>13, UpdatedIsFold
    <3>3. QED
      BY <3>1, <3>2, Zenon
  <2>2. QED
    BY <1>13, <2>1 DEF UpdateRest, NoValue, Built
<1>15. Says(G, p, e, F[{}])
  <2>1. ASSUME NEW c \in Nat, p <= c, c < e PROVE G[c] = F[{}]
    <3>1. ASSUME NEW j \in 1 .. n PROVE l[j].end <= c \/ c < l[j].start
      <4>1. CASE j <= k
        <5>1. l[j].end <= s /\ l[j].end \in Nat
          BY <1>1, <1>3, <4>1
        <5>2. QED
          BY <1>12, <2>1, <5>1
      <4>2. CASE j > k /\ j <= i
        <5>1. i \in 1 .. n /\ i # k
          BY <1>3, <4>2
        <5>2. p = l[i].end
          BY <1>12, <5>1 DEF DoneAt
        <5>3. l[j].end <= l[i].end
          <6>1. CASE j = i
            BY <1>1, <6>1
          <6>2. CASE j < i
            <7>1. l[j].end <= l[i].start /\ l[i].start <= l[i].end
              BY <1>1, <1>2, <5>1, <6>2
            <7>2. QED
              BY <1>1, <5>1, <7>1
          <6>3. QED
            BY <1>3, <4>2, <6>1, <6>2
        <5>4. l[j].end \in Nat
          BY <1>1
        <5>5. QED
          BY <2>1, <5>2, <5>3, <5>4
      <4>3. CASE j > i
        <5>1. e <= l[j].start /\ l[j].start \in Nat
          BY <1>1, <1>3, <4>3
        <5>2. QED
          BY <2>1, <5>1
      <4>4. QED
        BY <1>3, <4>1, <4>2, <4>3
    <3>2. ValuesAt(l, c) = {}
      BY <3>1, SortedSays
    <3>3. s <= c
      BY <1>12, <2>1
    <3>4. QED
      BY <2>1, <3>2, <3>3 DEF NewSays
  <2>2. QED
    BY <2>1 DEF Says
<1>16. PICK hi \in Nat : hi = IF p < e THEN e ELSE p
  OBVIOUS
<1>17. Built(V, AddElem(b, F[{}], p, e), lo, hi, G)
  <2>1. {} \notin V /\ F[{}] \in V /\ lo \in Nat /\ lo <= p
    BY <1>12 DEF Updater
  <2>2. QED
    BY <1>13, <1>15, <1>16, <2>1, AddTiles
<1>18. QED
  BY <1>5, <1>12, <1>14, <1>16, <1>17 DEF Built

\* The elements a + 1, ..., b of a list.
LEMMA SubSeqIs ==
  ASSUME NEW S, NEW l \in Seq(S), NEW n \in Nat, n = Len(l), NEW a \in 0 .. n, NEW b \in a .. n,
         NEW m \in Nat, m = b - a
  PROVE  /\ SubSeq(l, a + 1, b) \in Seq(S) /\ Len(SubSeq(l, a + 1, b)) = m
         /\ \A j \in 1 .. m : SubSeq(l, a + 1, b)[j] = l[a + j]
<1>1. a + 1 \in Int /\ b \in Int /\ \A j \in a + 1 .. b : l[j] \in S
  OBVIOUS
<1>2. /\ SubSeq(l, a + 1, b) \in Seq(S)
      /\ Len(SubSeq(l, a + 1, b)) = IF a + 1 <= b THEN b - (a + 1) + 1 ELSE 0
      /\ \A j \in 1 .. b - (a + 1) + 1 : SubSeq(l, a + 1, b)[j] = l[a + 1 + j - 1]
  BY <1>1, SubSeqProperties
<1>3. b - (a + 1) + 1 = m /\ (IF a + 1 <= b THEN b - (a + 1) + 1 ELSE 0) = m
      /\ \A j \in 1 .. m : a + 1 + j - 1 = a + j
  OBVIOUS
<1>4. \A j \in 1 .. m : SubSeq(l, a + 1, b)[j] = l[a + j]
  <2>1. \A j \in 1 .. m : SubSeq(l, a + 1, b)[j] = l[a + 1 + j - 1]
    BY <1>2, <1>3, Zenon
  <2>2. QED
    BY <1>3, <2>1, Zenon
<1>5. QED
  BY <1>2, <1>3, <1>4, Zenon

\* A part of a sorted list says on its interval what the list says.
LEMMA SubTiles ==
  ASSUME NEW V, NEW l \in Seq(Elems(V)), Sorted(l), NEW n \in Nat, n = Len(l),
         NEW a \in 0 .. n, NEW b \in a .. n, NEW lo \in Nat, NEW hi \in Nat, lo <= hi, NEW G,
         \A c \in Nat : lo <= c /\ c < hi => G[c] = ValuesAt(l, c),
         \A j \in 1 .. a : l[j].end <= lo,
         \A j \in a + 1 .. b : lo <= l[j].start /\ l[j].end <= hi,
         \A j \in b + 1 .. n : hi <= l[j].start
  PROVE  Tiles(V, SubSeq(l, a + 1, b), lo, hi, G)
<1>1. \A j \in 1 .. n : l[j].start \in Nat /\ l[j].end \in Nat /\ l[j].start <= l[j].end
  BY ListShape DEF Sorted
<1>2. PICK m \in Nat : m = b - a
  OBVIOUS
<1>3. PICK r \in Seq(Elems(V)) :
        r = SubSeq(l, a + 1, b) /\ Len(r) = m /\ \A j \in 1 .. m : r[j] = l[a + j]
  <2>1. /\ SubSeq(l, a + 1, b) \in Seq(Elems(V)) /\ Len(SubSeq(l, a + 1, b)) = m
        /\ \A j \in 1 .. m : SubSeq(l, a + 1, b)[j] = l[a + j]
    BY <1>2, SubSeqIs
  <2>2. QED
    BY <2>1, Zenon
<1>4. DOMAIN r = 1 .. m
  BY <1>3, ListShape
<1>5. \A j \in 1 .. m : a + j \in a + 1 .. b /\ a + j \in 1 .. n
  BY <1>2
<1>6. Sorted(r)
  <2>1. \A j \in 1 .. m : r[j].start <= r[j].end
    BY <1>1, <1>3, <1>5
  <2>2. ASSUME NEW j \in 1 .. m - 1 PROVE r[j].end <= r[j + 1].start
    <3>1. j \in 1 .. m /\ j + 1 \in 1 .. m /\ a + (j + 1) = (a + j) + 1 /\ a + j \in 1 .. n - 1
      BY <1>2
    <3>2. r[j] = l[a + j] /\ r[j + 1] = l[(a + j) + 1]
      BY <1>3, <3>1
    <3>3. QED
      BY <3>1, <3>2 DEF Sorted
  <2>3. QED
    BY <1>3, <1>4, <2>1, <2>2 DEF Sorted
<1>7. \A j \in 1 .. m : lo <= r[j].start /\ r[j].end <= hi
  BY <1>3, <1>5
<1>8. ASSUME NEW c \in Nat PROVE ValuesAt(r, c) = IF lo <= c /\ c < hi THEN G[c] ELSE {}
  <2>1. \A y : y \in ValuesAt(r, c) <=> \E j \in 1 .. m : r[j].start <= c /\ c < r[j].end /\ y \in r[j].val
    BY <1>4, ValuesAtIs
  <2>2. \A y : y \in ValuesAt(l, c) <=> \E j \in 1 .. n : l[j].start <= c /\ c < l[j].end /\ y \in l[j].val
    BY ListShape, ValuesAtIs
  <2>3. CASE lo <= c /\ c < hi
    <3>1. ASSUME NEW j \in 1 .. n, l[j].start <= c, c < l[j].end PROVE \E i \in 1 .. m : r[i] = l[j]
      <4>1. ~(j <= a)
        BY <1>1, <2>3, <3>1
      <4>2. ~(j > b)
        BY <1>1, <2>3, <3>1
      <4>3. j - a \in 1 .. m /\ a + (j - a) = j
        BY <1>2, <4>1, <4>2
      <4>4. QED
        BY <1>3, <4>3
    <3>2. ASSUME NEW y PROVE y \in ValuesAt(r, c) <=> y \in ValuesAt(l, c)
      <4>1. ASSUME y \in ValuesAt(r, c) PROVE y \in ValuesAt(l, c)
        <5>1. PICK j \in 1 .. m : r[j].start <= c /\ c < r[j].end /\ y \in r[j].val
          BY <2>1, <4>1
        <5>2. a + j \in 1 .. n /\ r[j] = l[a + j]
          BY <1>3, <1>5
        <5>3. QED
          BY <2>2, <5>1, <5>2
      <4>2. ASSUME y \in ValuesAt(l, c) PROVE y \in ValuesAt(r, c)
        <5>1. PICK j \in 1 .. n : l[j].start <= c /\ c < l[j].end /\ y \in l[j].val
          BY <2>2, <4>2
        <5>2. PICK i \in 1 .. m : r[i] = l[j]
          BY <3>1, <5>1
        <5>3. QED
          BY <2>1, <5>1, <5>2
      <4>3. QED
        BY <4>1, <4>2
    <3>3. QED
      BY <2>3, <3>2
  <2>4. CASE ~(lo <= c /\ c < hi)
    <3>1. \A j \in 1 .. m : ~(r[j].start <= c /\ c < r[j].end)
      <4>1. \A j \in 1 .. m : r[j].start \in Nat /\ r[j].end \in Nat
        BY <1>1, <1>3, <1>5
      <4>2. QED
        BY <1>7, <2>4, <4>1
    <3>2. ValuesAt(r, c) = {}
      BY <2>1, <3>1
    <3>3. QED
      BY <2>4, <3>2
  <2>5. QED
    BY <2>3, <2>4
<1>9. QED
  BY <1>3, <1>6, <1>7, <1>8 DEF Tiles

\* The bounds of Update.
LEMMA UpdateBounds ==
  ASSUME NEW V, NEW l \in Seq(Elems(V)), Sorted(l), NEW s \in Nat, NEW e \in Nat, s <= e,
         NEW n \in Nat, n = Len(l), NEW k, k = Search(l, [j \in DOMAIN l |-> s < l[j].end]),
         NEW i, i = Min({Len(l)} \cup {j \in k .. Len(l) - 1 : l[j + 1].start >= e})
  PROVE  Bounds(l, s, e, n, k, i)
<1>1. \A j \in 1 .. n : l[j].start \in Nat /\ l[j].end \in Nat /\ l[j].start <= l[j].end
  BY ListShape DEF Sorted
<1>2. \A a, b \in 1 .. n : a < b => l[a].end <= l[b].start
  BY SortedOrder
<1>3. /\ k \in 0 .. n
      /\ \A j \in 1 .. k : l[j].end <= s
      /\ \A j \in k + 1 .. n : s < l[j].end
  BY BeforeIs
<1> DEFINE T == {n} \cup {j \in k .. n - 1 : l[j + 1].start >= e}
<1>4. T \subseteq Nat /\ T # {} /\ \A j \in T : k <= j /\ j <= n
  <2>1. ASSUME NEW j \in T PROVE j \in Nat /\ k <= j /\ j <= n
    <3>1. j = n \/ j \in k .. n - 1
      OBVIOUS
    <3>2. QED
      BY <1>3, <3>1
  <2>2. n \in T
    OBVIOUS
  <2> HIDE DEF T
  <2>3. QED
    BY <2>1, <2>2
<1>5. i \in T /\ \A j \in T : i <= j
  <2>1. i = Min(T)
    OBVIOUS
  <2> HIDE DEF T
  <2>2. PICK m \in T : \A j \in T : m <= j
    BY <1>4, SearchFold!LeastNat
  <2>3. Min(T) \in T /\ \A j \in T : Min(T) <= j
    BY <2>2, Zenon DEF Min
  <2>4. QED
    BY <2>1, <2>3
<1>6. i \in k .. n
  BY <1>3, <1>4, <1>5
<1>7. ASSUME NEW j \in k + 1 .. i PROVE l[j].start < e
  <2>1. j - 1 \in k .. n - 1 /\ (j - 1) + 1 = j /\ j \in 1 .. n /\ j - 1 < i
    BY <1>3, <1>6
  <2>2. j - 1 \notin T
    <3> HIDE DEF T
    <3>1. ASSUME j - 1 \in T PROVE FALSE
      <4>1. i <= j - 1
        BY <1>5, <3>1
      <4>2. QED
        BY <1>6, <2>1, <4>1
    <3>2. QED
      BY <3>1
  <2>3. ~(l[j].start >= e)
    BY <2>1, <2>2
  <2>4. QED
    BY <1>1, <2>1, <2>3
<1>8. ASSUME NEW j \in i + 1 .. n PROVE e <= l[j].start
  <2>1. i \in k .. n - 1 /\ i + 1 \in 1 .. n /\ j \in 1 .. n
    BY <1>3, <1>6
  <2>2. e <= l[i + 1].start
    BY <1>1, <1>5, <2>1
  <2>3. CASE j = i + 1
    BY <2>2, <2>3
  <2>4. CASE j > i + 1
    <3>1. l[i + 1].end <= l[j].start /\ l[i + 1].start <= l[i + 1].end
      BY <1>1, <1>2, <2>1, <2>4
    <3>2. QED
      BY <1>1, <2>1, <2>2, <3>1
  <2>5. QED
    BY <1>6, <2>3, <2>4
<1>9. QED
  BY <1>3, <1>6, <1>7, <1>8 DEF Bounds

\* r is the list l after an Update of the span [s, e) by F.
UpdatedTo(V, l, s, e, F, r) ==
  /\ r \in Seq(Elems(V)) /\ Sorted(r)
  /\ \A c \in Nat : ValuesAt(r, c) = IF s <= c /\ c < e THEN F[ValuesAt(l, c)] ELSE ValuesAt(l, c)

\* Update changes what the list says in the interval, and nothing else.
LEMMA UpdateSays ==
  ASSUME NEW V, NEW F, Updater(V, F), NEW l \in Seq(Elems(V)), Sorted(l), NEW s \in Nat, NEW e \in Nat,
         s <= e
  PROVE  UpdatedTo(V, l, s, e, F, Update(l, s, e, F))
<1>1. PICK n \in Nat : n = Len(l)
  BY ListShape
<1>2. \A j \in 1 .. n : l[j].start \in Nat /\ l[j].end \in Nat /\ l[j].start <= l[j].end
  BY <1>1, ListShape DEF Sorted
<1>3. \A a, b \in 1 .. n : a < b => l[a].end <= l[b].start
  BY <1>1, SortedOrder
<1>4. PICK k : k = Search(l, [j \in DOMAIN l |-> s < l[j].end])
  OBVIOUS
<1>5. PICK i : i = Min({Len(l)} \cup {j \in k .. Len(l) - 1 : l[j + 1].start >= e})
  OBVIOUS
<1>6. Bounds(l, s, e, n, k, i)
  BY <1>1, <1>4, <1>5, UpdateBounds
<1>7. /\ k \in 0 .. n /\ i \in k .. n
      /\ \A j \in 1 .. k : l[j].end <= s
      /\ \A j \in i + 1 .. n : e <= l[j].start
  BY <1>6 DEF Bounds
<1>8. PICK G : G = NewSays(l, s, e, F)
  OBVIOUS
<1>9. PICK lo \in Nat : lo = FirstAt(l, k) /\ lo <= s
  BY <1>2, <1>7 DEF FirstAt
<1>10. PICK done \in Nat : done = DoneAt(l, s, k, i)
  BY <1>2, <1>7 DEF DoneAt
<1>11. PICK hi \in Nat : /\ Tiles(V, Updated(l, s, e, k, i, F), lo, hi, G)
                          /\ hi = IF done < e THEN e ELSE done
  BY <1>1, <1>6, <1>8, <1>9, <1>10, UpdatedTiles
<1>12. e <= hi /\ done <= hi /\ hi \in {e, done}
  BY <1>11
<1>13. PICK top \in Nat : hi <= top /\ \A j \in 1 .. n : l[j].end <= top
  <2>1. CASE n = 0
    BY <2>1
  <2>2. CASE n # 0
    <3>1. n \in 1 .. n /\ l[n].end \in Nat
      BY <1>2, <2>2
    <3>2. PICK t \in Nat : t = hi + l[n].end
      BY <3>1
    <3>3. ASSUME NEW j \in 1 .. n PROVE l[j].end <= l[n].end
      <4>1. CASE j = n
        BY <3>1, <4>1
      <4>2. CASE j < n
        <5>1. l[j].end <= l[n].start /\ l[n].start <= l[n].end
          BY <1>2, <1>3, <3>1, <4>2
        <5>2. QED
          BY <1>2, <3>1, <5>1
      <4>3. QED
        BY <4>1, <4>2
    <3>4. hi <= t /\ \A j \in 1 .. n : l[j].end <= t
      BY <1>2, <3>1, <3>2, <3>3
    <3>5. QED
      BY <3>4
  <2>3. QED
    BY <2>1, <2>2
<1>14. \A c \in Nat : G[c] = IF s <= c /\ c < e THEN F[ValuesAt(l, c)] ELSE ValuesAt(l, c)
  BY <1>8 DEF NewSays
<1>15. Tiles(V, SubSeq(l, 1, k), 0, lo, G)
  <2>1. \A c \in Nat : 0 <= c /\ c < lo => G[c] = ValuesAt(l, c)
    BY <1>9, <1>14
  <2>2. ASSUME NEW j \in 1 .. k PROVE 0 <= l[j].start /\ l[j].end <= lo
    <3>1. j \in 1 .. n /\ k \in 1 .. n /\ lo = l[k].end
      BY <1>7, <1>9 DEF FirstAt
    <3>2. CASE j = k
      BY <1>2, <3>1, <3>2
    <3>3. CASE j < k
      <4>1. l[j].end <= l[k].start /\ l[k].start <= l[k].end
        BY <1>2, <1>3, <3>1, <3>3
      <4>2. QED
        BY <1>2, <3>1, <4>1
    <3>4. QED
      BY <3>1, <3>2, <3>3
  <2>3. ASSUME NEW j \in k + 1 .. n PROVE lo <= l[j].start
    <3>1. CASE k = 0
      BY <1>2, <1>7, <1>9, <3>1 DEF FirstAt
    <3>2. CASE k # 0
      BY <1>3, <1>7, <1>9, <3>2 DEF FirstAt
    <3>3. QED
      BY <3>1, <3>2
  <2>4. /\ 0 \in 0 .. n /\ k \in 0 .. n /\ 0 + 1 = 1 /\ 0 <= lo
        /\ \A j \in 1 .. 0 : l[j].end <= 0
    BY <1>7
  <2>5. Tiles(V, SubSeq(l, 0 + 1, k), 0, lo, G)
    BY <1>1, <2>1, <2>2, <2>3, <2>4, SubTiles
  <2>6. QED
    BY <2>4, <2>5
<1>16. \A j \in 1 .. i : l[j].end <= hi
  <2>1. ASSUME NEW j \in 1 .. i PROVE l[j].end <= hi
    <3>1. j \in 1 .. n /\ l[j].end \in Nat
      BY <1>2, <1>7
    <3>2. CASE j <= k
      <4>1. l[j].end <= s
        BY <1>7, <3>1, <3>2
      <4>2. QED
        BY <1>12, <3>1, <4>1
    <3>3. CASE j > k
      <4>1. i \in 1 .. n /\ i # k
        BY <1>7, <3>3
      <4>2. done = l[i].end
        BY <1>10, <4>1 DEF DoneAt
      <4>3. CASE j = i
        BY <1>12, <4>2, <4>3
      <4>4. CASE j < i
        <5>1. l[j].end <= l[i].start /\ l[i].start <= l[i].end
          BY <1>2, <1>3, <3>1, <4>1, <4>4
        <5>2. QED
          BY <1>2, <1>12, <3>1, <4>1, <4>2, <5>1
      <4>5. QED
        BY <1>7, <4>3, <4>4
    <3>4. QED
      BY <1>7, <3>2, <3>3
  <2>2. QED
    BY <2>1
<1>17. Tiles(V, SubSeq(l, i + 1, n), hi, top, G)
  <2>1. \A c \in Nat : hi <= c /\ c < top => G[c] = ValuesAt(l, c)
    BY <1>12, <1>14
  <2>2. ASSUME NEW j \in i + 1 .. n PROVE hi <= l[j].start /\ l[j].end <= top
    <3>1. j \in 1 .. n /\ e <= l[j].start
      BY <1>7
    <3>2. done <= l[j].start
      <4>1. CASE i = k
        BY <1>2, <1>10, <3>1, <4>1 DEF DoneAt
      <4>2. CASE i # k
        <5>1. i \in 1 .. n /\ i < j
          BY <1>7, <4>2
        <5>2. QED
          BY <1>3, <1>10, <3>1, <4>2, <5>1 DEF DoneAt
      <4>3. QED
        BY <4>1, <4>2
    <3>3. QED
      BY <1>12, <1>13, <3>1, <3>2
  <2>3. /\ i \in 0 .. n /\ n \in i .. n /\ \A j \in n + 1 .. n : top <= l[j].start
    BY <1>7
  <2>4. QED
    BY <1>1, <1>13, <1>16, <2>1, <2>2, <2>3, SubTiles
<1>18. PICK r : r = Update(l, s, e, F)
  OBVIOUS
<1>19. r = Joined(Joined(SubSeq(l, 1, k), Updated(l, s, e, k, i, F)), SubSeq(l, i + 1, n))
  BY <1>1, <1>4, <1>5, <1>18, Zenon DEF Update
<1>20. Tiles(V, r, 0, top, G)
  <2>1. 0 <= lo /\ lo <= hi
    BY <1>9, <1>12
  <2>2. Tiles(V, Joined(SubSeq(l, 1, k), Updated(l, s, e, k, i, F)), 0, hi, G)
    BY <1>11, <1>15, <2>1, JoinTiles
  <2>3. 0 <= hi
    OBVIOUS
  <2>4. QED
    BY <1>13, <1>17, <1>19, <2>2, <2>3, JoinTiles
<1>21. ASSUME NEW c \in Nat PROVE ValuesAt(r, c) = G[c]
  <2>1. ValuesAt(r, c) = IF 0 <= c /\ c < top THEN G[c] ELSE {}
    BY <1>20 DEF Tiles
  <2>2. CASE c < top
    BY <2>1, <2>2
  <2>3. CASE ~(c < top)
    <3>1. \A j \in 1 .. n : l[j].end <= c
      BY <1>2, <1>13, <2>3
    <3>2. ValuesAt(l, c) = {}
      BY <1>1, <3>1, SortedSays
    <3>3. ~(c < e)
      BY <1>12, <1>13, <2>3
    <3>4. QED
      BY <1>14, <2>1, <2>3, <3>2, <3>3
  <2>4. QED
    BY <2>2, <2>3
<1>22. r \in Seq(Elems(V)) /\ Sorted(r)
  BY <1>20 DEF Tiles
<1>23. QED
  BY <1>14, <1>18, <1>21, <1>22 DEF UpdatedTo

\* Update keeps the list sorted, gives every address of the interval the new
\* value for its old one, and leaves the others as they were.
THEOREM UpdateExact ==
  ASSUME NEW V, NEW F, Updater(V, F), NEW l \in Seq(Elems(V)), Sorted(l), NEW s \in Nat, NEW e \in Nat,
         s <= e
  PROVE  /\ Update(l, s, e, F) \in Seq(Elems(V)) /\ Sorted(Update(l, s, e, F))
         /\ \A c \in Nat : ValuesAt(Update(l, s, e, F), c) =
                             IF s <= c /\ c < e THEN F[ValuesAt(l, c)] ELSE ValuesAt(l, c)
<1>1. UpdatedTo(V, l, s, e, F, Update(l, s, e, F))
  BY UpdateSays
<1>2. QED
  BY <1>1 DEF UpdatedTo

-----------------------------------------------------------------------------
(***************************************************************************)
(* Sequences, Go maps and accesses.                                        *)
(***************************************************************************)
\* What Append appends.
LEMMA AppendIs ==
  ASSUME NEW S, NEW s \in Seq(S), NEW n \in Nat, n = Len(s), NEW x \in S
  PROVE  /\ Append(s, x) \in Seq(S) /\ Len(Append(s, x)) = n + 1
         /\ Append(s, x)[n + 1] = x
         /\ \A i \in 1 .. n : Append(s, x)[i] = s[i]
  OBVIOUS

\* What concatenation has.
LEMMA ConcatIs ==
  ASSUME NEW S, NEW s \in Seq(S), NEW t \in Seq(S), NEW k \in Nat, k = Len(t)
  PROVE  /\ s \o t \in Seq(S) /\ Len(s \o t) = Len(s) + k
         /\ \A i \in 1 .. Len(s) : (s \o t)[i] = s[i]
         /\ \A i \in 1 .. k : (s \o t)[Len(s) + i] = t[i]
  OBVIOUS

\* All but the last element, as a subsequence.
LEMMA ButLastIs ==
  ASSUME NEW S, NEW s \in Seq(S), NEW m \in Nat, m = Len(s), m > 0
  PROVE  /\ SubSeq(s, 1, m - 1) \in Seq(S) /\ Len(SubSeq(s, 1, m - 1)) = m - 1
         /\ \A i \in 1 .. m - 1 : SubSeq(s, 1, m - 1)[i] = s[i]
  OBVIOUS

\* What EXCEPT changes of a sequence.
LEMMA SeqExcept ==
  ASSUME NEW S, NEW s \in Seq(S), NEW n \in 1 .. Len(s), NEW x \in S
  PROVE  /\ [s EXCEPT ![n] = x] \in Seq(S) /\ Len([s EXCEPT ![n] = x]) = Len(s)
         /\ [s EXCEPT ![n] = x][n] = x
         /\ \A m \in 1 .. Len(s) : m # n => [s EXCEPT ![n] = x][m] = s[m]
  OBVIOUS

\* What a Go map holds after an assignment.
LEMMA SetIs ==
  ASSUME NEW m, NEW k, NEW v
  PROVE  /\ DOMAIN Set(m, k, v) = DOMAIN m \cup {k}
         /\ Set(m, k, v)[k] = v
         /\ \A x \in DOMAIN m : x # k => Set(m, k, v)[x] = m[x]
  BY DEF Set

\* A map without a key.
LEMMA WithoutIs ==
  ASSUME NEW f, NEW d
  PROVE  /\ DOMAIN Restrict(f, DOMAIN f \ {d}) = DOMAIN f \ {d}
         /\ \A e \in DOMAIN f \ {d} : Restrict(f, DOMAIN f \ {d})[e] = f[e]
  BY DEF Restrict

\* AddDeps adds the dependencies to one node.
LEMMA DepsOfAdd ==
  ASSUME NEW acc, NEW n, NEW deps, NEW m
  PROVE  DepsOf(AddDeps(acc, n, deps), m) =
           IF m = n THEN DepsOf(acc, n) \cup deps ELSE DepsOf(acc, m)
<1>1. PICK x : x = DepsOf(acc, n) \cup deps
  OBVIOUS
<1>2. PICK r : r = Set(acc, n, x)
  OBVIOUS
<1>3. AddDeps(acc, n, deps) = r
  BY <1>1, <1>2 DEF AddDeps
<1>4. DOMAIN r = DOMAIN acc \cup {n} /\ r[n] = x /\ \A y \in DOMAIN acc : y # n => r[y] = acc[y]
  BY <1>2 DEF Set
<1>5. DepsOf(r, m) = IF m = n THEN x ELSE DepsOf(acc, m)
  BY <1>4 DEF DepsOf
<1>6. QED
  BY <1>1, <1>3, <1>5

\* No node has dependencies at first.
LEMMA DepsOfNone ==
  ASSUME NEW n
  PROVE  DepsOf(NoAccesses, n) = {}
<1>1. DOMAIN NoAccesses = {}
  BY DEF NoAccesses
<1>2. QED
  BY <1>1 DEF DepsOf

-----------------------------------------------------------------------------
(***************************************************************************)
(* The memory watcher: the flush of a pool and of the watcher, the slices  *)
(* that a command accesses, its observations.                              *)
(***************************************************************************)
\* The modes of pending accesses, and the writers of a graph of n nodes.
PendingModes == {{"R"}, {"W"}, {"R", "W"}}

\* The values of a list of writers: one node each.
Writers(n) == {{m} : m \in 1 .. n}

\* A list of pending accesses.
PendingList(l) == l \in Seq(Elems(PendingModes)) /\ Sorted(l)

\* A list of writers among n nodes.
WriteList(l, n) == l \in Seq(Elems(Writers(n))) /\ Sorted(l)

\* The accesses of nodes are dependencies on nodes.
AccType(acc, n) == \A m \in DOMAIN acc : acc[m] \subseteq 1 .. n

\* The memory watcher, with n nodes.
MemType(w, n) ==
  /\ w = [pending |-> w.pending, writes |-> w.writes, fenced |-> w.fenced, acc |-> w.acc]
  /\ DOMAIN w.pending = Pools /\ w.pending = [p \in Pools |-> w.pending[p]]
  /\ DOMAIN w.writes = Pools /\ w.writes = [p \in Pools |-> w.writes[p]]
  /\ \A p \in Pools : PendingList(w.pending[p]) /\ WriteList(w.writes[p], n)
  /\ AccType(w.acc, n)

\* A list of writers stays one when there are more nodes.
LEMMA WritersGrow ==
  ASSUME NEW n \in Nat, NEW k \in Nat, n <= k, NEW l, WriteList(l, n)
  PROVE  WriteList(l, k)
<1>1. Writers(n) \subseteq Writers(k)
  BY DEF Writers
<1>2. Elems(Writers(n)) \subseteq Elems(Writers(k))
  BY <1>1 DEF Elems
<1>3. l \in Seq(Elems(Writers(k)))
  BY <1>2, SeqMonotonic DEF WriteList
<1>4. QED
  BY <1>3 DEF WriteList

\* The memory watcher stays typed when there are more nodes.
LEMMA MemGrow ==
  ASSUME NEW n \in Nat, NEW k \in Nat, n <= k, NEW w, MemType(w, n)
  PROVE  MemType(w, k)
<1>1. \A p \in Pools : WriteList(w.writes[p], k)
  BY WritersGrow DEF MemType
<1>2. AccType(w.acc, k)
  BY DEF MemType, AccType
<1>3. QED
  BY <1>1, <1>2 DEF MemType

\* The dependencies known are nodes.
LEMMA AccDeps ==
  ASSUME NEW n, NEW acc, AccType(acc, n), NEW m
  PROVE  DepsOf(acc, m) \subseteq 1 .. n
  BY DEF AccType, DepsOf

\* They stay nodes when nodes are added.
LEMMA AccAdd ==
  ASSUME NEW n, NEW acc, AccType(acc, n), NEW m, NEW deps, deps \subseteq 1 .. n
  PROVE  AccType(AddDeps(acc, m, deps), n)
<1>1. PICK x : x = DepsOf(acc, m) \cup deps
  OBVIOUS
<1>2. PICK r : r = Set(acc, m, x)
  OBVIOUS
<1>3. AddDeps(acc, m, deps) = r
  BY <1>1, <1>2 DEF AddDeps
<1>4. DOMAIN r = DOMAIN acc \cup {m} /\ r[m] = x /\ \A y \in DOMAIN acc : y # m => r[y] = acc[y]
  BY <1>2 DEF Set
<1>5. x \subseteq 1 .. n
  BY <1>1, AccDeps
<1>6. AccType(r, n)
  BY <1>4, <1>5 DEF AccType
<1>7. QED
  BY <1>3, <1>6

\* A list of one element.
LEMMA OneElement ==
  ASSUME NEW V, NEW s \in Nat, NEW e \in Nat, s <= e, NEW v \in V, NEW l, l = <<Elem(s, e, v)>>
  PROVE  /\ l \in Seq(Elems(V)) /\ Sorted(l)
         /\ \A b \in Nat : ValuesAt(l, b) = IF s <= b /\ b < e THEN v ELSE {}
<1>1. PICK x \in Elems(V) : x = Elem(s, e, v)
  BY DEF Elem, Elems
<1>2. x.start = s /\ x.end = e /\ x.val = v
  BY <1>1, ElemFields
<1>3. l \in Seq(Elems(V)) /\ Len(l) = 1 /\ DOMAIN l = 1 .. 1 /\ l[1] = x
  BY <1>1
<1>4. Sorted(l)
  BY <1>2, <1>3 DEF Sorted
<1>5. ASSUME NEW b \in Nat PROVE ValuesAt(l, b) = IF s <= b /\ b < e THEN v ELSE {}
  <2>1. \A y : y \in ValuesAt(l, b) <=> \E i \in 1 .. 1 : l[i].start <= b /\ b < l[i].end /\ y \in l[i].val
    BY <1>3, ValuesAtIs
  <2>2. \A y : y \in ValuesAt(l, b) <=> s <= b /\ b < e /\ y \in v
    <3>1. 1 \in 1 .. 1 /\ \A i \in 1 .. 1 : i = 1
      OBVIOUS
    <3>2. QED
      BY <1>2, <1>3, <2>1, <3>1
  <2>3. QED
    BY <2>2
<1>6. QED
  BY <1>3, <1>4, <1>5

\* The empty list is sorted and says nothing.
LEMMA NoElement ==
  /\ \A V : <<>> \in Seq(Elems(V))
  /\ Sorted(<<>>) /\ \A b : ValuesAt(<<>>, b) = {}
<1>1. Len(<<>>) = 0 /\ DOMAIN <<>> = {}
  OBVIOUS
<1>2. QED
  BY <1>1 DEF Sorted, ValuesAt

\* What an access adds to the mode of the addresses that it covers.
LEMMA Updaters ==
  /\ Updater(PendingModes, AddRead) /\ Updater(PendingModes, AddWrite)
  /\ \A mode \in PendingModes \cup {{}} :
       /\ AddRead[mode] = IF "W" \in mode THEN mode ELSE {"R"}
       /\ AddWrite[mode] = mode \cup {"W"}
<1>1. PendingModes \cup {{}} \subseteq Modes
  BY DEF PendingModes, Modes
<1>2. \A mode \in PendingModes \cup {{}} :
        /\ AddRead[mode] = IF "W" \in mode THEN mode ELSE {"R"}
        /\ AddWrite[mode] = mode \cup {"W"}
  BY <1>1 DEF AddRead, AddWrite
<1>3. /\ {} \notin PendingModes
      /\ \A mode \in PendingModes \cup {{}} :
           AddRead[mode] \in PendingModes /\ AddWrite[mode] \in PendingModes
  BY <1>2 DEF PendingModes
<1>4. QED
  BY <1>2, <1>3 DEF Updater

\* What is pending at an address.
LEMMA PendingValues ==
  ASSUME NEW l, PendingList(l), NEW b \in Nat
  PROVE  ValuesAt(l, b) \in PendingModes \cup {{}}
<1>1. l \in Seq(Elems(PendingModes)) /\ Sorted(l)
  BY DEF PendingList
<1>2. PICK n \in Nat : n = Len(l)
  BY <1>1, ListShape
<1>3. CASE \E i \in 1 .. n : l[i].start <= b /\ b < l[i].end
  <2>1. PICK i \in 1 .. n : l[i].start <= b /\ b < l[i].end
    BY <1>3
  <2>2. ValuesAt(l, b) = l[i].val
    BY <1>1, <1>2, <2>1, SortedSays
  <2>3. QED
    BY <1>1, <1>2, <2>2, ListShape
<1>4. CASE ~\E i \in 1 .. n : l[i].start <= b /\ b < l[i].end
  <2>1. \A i \in 1 .. n : l[i].start \in Nat /\ l[i].end \in Nat
    BY <1>1, <1>2, ListShape
  <2>2. \A i \in 1 .. n : l[i].end <= b \/ b < l[i].start
    BY <1>4, <2>1
  <2>3. ValuesAt(l, b) = {}
    BY <1>1, <1>2, <2>2, SortedSays
  <2>4. QED
    BY <2>3
<1>5. QED
  BY <1>3, <1>4

\* A read finds the writer of every address that it reads.
LEMMA ReadsCover ==
  ASSUME NEW N \in Nat, NEW l, WriteList(l, N), NEW s \in Nat, NEW e \in Nat, s <= e
  PROVE  /\ ApplyMemRead(l, s, e) \subseteq 1 .. N
         /\ \A b \in Nat : s <= b /\ b < e => ValuesAt(l, b) \subseteq ApplyMemRead(l, s, e)
<1>1. l \in Seq(Elems(Writers(N))) /\ Sorted(l)
  BY DEF WriteList
<1>2. PICK x : x = Intersection(l, s, e)
  OBVIOUS
<1>3. ApplyMemRead(l, s, e) = UNION {l[i].val : i \in x.lowIndex + 1 .. x.lowIndex + x.overlap}
  BY <1>2 DEF ApplyMemRead
<1>4. /\ \A b \in Nat : s <= b /\ b < e =>
           ValuesAt(l, b) \subseteq UNION {l[i].val : i \in x.lowIndex + 1 .. x.lowIndex + x.overlap}
      /\ x.lowIndex + 1 .. x.lowIndex + x.overlap \subseteq 1 .. Len(l)
  BY <1>1, <1>2, IntersectionCovers
<1>5. \A i \in 1 .. Len(l) : l[i].val \in Writers(N)
  BY <1>1, ListShape
<1>6. \A v \in Writers(N) : v \subseteq 1 .. N
  BY DEF Writers
<1>7. QED
  BY <1>3, <1>4, <1>5, <1>6

\* A write makes its node the writer of what it writes.
LEMMA WritesApply ==
  ASSUME NEW N \in Nat, NEW l, WriteList(l, N), NEW s \in Nat, NEW e \in Nat, s <= e, NEW n \in 1 .. N
  PROVE  /\ WriteList(ApplyMemWrite(l, s, e, n), N)
         /\ \A b \in Nat : ValuesAt(ApplyMemWrite(l, s, e, n), b) =
                             IF s <= b /\ b < e THEN {n} ELSE ValuesAt(l, b)
<1>1. l \in Seq(Elems(Writers(N))) /\ Sorted(l)
  BY DEF WriteList
<1>2. {n} \in Writers(N)
  BY DEF Writers
<1>3. CASE l = <<>>
  <2>1. PICK r : r = <<Elem(s, e, {n})>>
    OBVIOUS
  <2>2. ApplyMemWrite(l, s, e, n) = r
    BY <1>3, <2>1 DEF ApplyMemWrite
  <2>3. /\ r \in Seq(Elems(Writers(N))) /\ Sorted(r)
        /\ \A b \in Nat : ValuesAt(r, b) = IF s <= b /\ b < e THEN {n} ELSE {}
    BY <1>2, <2>1, OneElement
  <2>4. \A b \in Nat : ValuesAt(l, b) = {}
    BY <1>3, NoElement
  <2>5. QED
    BY <2>2, <2>3, <2>4 DEF WriteList
<1>4. CASE l # <<>>
  <2>1. PICK v \in Writers(N) : v = {n}
    BY <1>2
  <2>2. PICK r : r = Replace(l, s, e, v)
    OBVIOUS
  <2>3. ApplyMemWrite(l, s, e, n) = r
    BY <1>4, <2>1, <2>2 DEF ApplyMemWrite
  <2>4. /\ r \in Seq(Elems(Writers(N))) /\ Sorted(r)
        /\ \A b \in Nat : ValuesAt(r, b) = IF s <= b /\ b < e THEN v ELSE ValuesAt(l, b)
    <3>1. PICK V : V = Writers(N)
      OBVIOUS
    <3>2. l \in Seq(Elems(V)) /\ v \in V
      BY <1>1, <3>1
    <3>3. /\ Replace(l, s, e, v) \in Seq(Elems(V)) /\ Sorted(Replace(l, s, e, v))
          /\ \A b \in Nat : ValuesAt(Replace(l, s, e, v), b) =
                              IF s <= b /\ b < e THEN v ELSE ValuesAt(l, b)
      BY <1>1, <3>2, ReplaceExact
    <3>4. QED
      BY <2>2, <3>1, <3>3
  <2>5. QED
    BY <2>1, <2>3, <2>4 DEF WriteList
<1>5. QED
  BY <1>3, <1>4

\* A turn of the flush of a pool.
PoolTurn(q, f, a) ==
  [deps |-> f.deps \cup (IF "R" \in a.val THEN ApplyMemRead(f.writes, a.start, a.end) ELSE {}),
   writes |-> IF "W" \in a.val /\ q[1] # 0
              THEN ApplyMemWrite(f.writes, a.start, a.end, q[2]) ELSE f.writes]

\* The loop of the flush of a pool.
PoolFold == INSTANCE FoldLaws WITH Step <- PoolTurn

\* f has the states of that loop after each turn.
PoolRuns(q, base, xs, m, f) ==
  /\ f[0] = base /\ \A j \in 1 .. m : f[j] = PoolTurn(q, f[j - 1], xs[j])
  /\ PoolFold!Fold(q, base, xs) = f[m]

\* They exist.
LEMMA PoolSteps ==
  ASSUME NEW q, NEW base, NEW S, NEW xs \in Seq(S), NEW m \in Nat, m = Len(xs)
  PROVE  \E f : PoolRuns(q, base, xs, m, f)
  BY PoolFold!FoldSteps DEF PoolRuns

\* The flush of a pool is a fold.
LEMMA FlushPoolIsFold ==
  ASSUME NEW writes, NEW p, NEW n, NEW xs
  PROVE  FlushPool(writes, p, n, xs) = PoolFold!Fold(<<p, n>>, [deps |-> {}, writes |-> writes], xs)
  BY DEF FlushPool, FoldLeft, MapThenFoldSet, Max, PoolFold!Fold, PoolFold!MapThenFoldSet, PoolFold!Greatest, PoolTurn

\* An access of the list covers the address with a mode.
Touches(xs, j, b, mode) == \E i \in 1 .. j : xs[i].start <= b /\ b < xs[i].end /\ mode \in xs[i].val

\* What the first j accesses of a list have done.
PoolDone(f, writes, p, n, N, xs, j) ==
  /\ f = [deps |-> f.deps, writes |-> f.writes]
  /\ f.deps \subseteq 1 .. N /\ WriteList(f.writes, N)
  /\ \A b \in Nat : ValuesAt(f.writes, b) =
       IF p # 0 /\ Touches(xs, j, b, "W") THEN {n} ELSE ValuesAt(writes, b)
  /\ \A b \in Nat : Touches(xs, j, b, "R") => ValuesAt(writes, b) \subseteq f.deps

\* One element more touches what it covers.
LEMMA TouchesNext ==
  ASSUME NEW xs, NEW j \in Nat, NEW b, NEW mode
  PROVE  Touches(xs, j + 1, b, mode) <=>
           Touches(xs, j, b, mode) \/ (xs[j + 1].start <= b /\ b < xs[j + 1].end /\ mode \in xs[j + 1].val)
<1>1. \A i : i \in 1 .. j + 1 <=> i \in 1 .. j \/ i = j + 1
  OBVIOUS
<1>2. QED
  BY <1>1, Zenon DEF Touches

\* A turn takes the flush one element further.
LEMMA PoolTurnKeeps ==
  ASSUME NEW N \in Nat, NEW n \in 1 .. N, NEW p, NEW writes, NEW xs, PendingList(xs),
         NEW j \in Nat, j + 1 <= Len(xs), NEW f, PoolDone(f, writes, p, n, N, xs, j)
  PROVE  PoolDone(PoolTurn(<<p, n>>, f, xs[j + 1]), writes, p, n, N, xs, j + 1)
<1>1. xs \in Seq(Elems(PendingModes)) /\ Sorted(xs) /\ j + 1 \in 1 .. Len(xs) /\ Len(xs) \in Nat
  <2>1. xs \in Seq(Elems(PendingModes)) /\ Sorted(xs)
    BY DEF PendingList
  <2>2. Len(xs) \in Nat
    BY <2>1, ListShape
  <2>3. QED
    BY <2>1, <2>2
<1>2. PICK a : a = xs[j + 1]
  OBVIOUS
<1>3. a.start \in Nat /\ a.end \in Nat /\ a.start <= a.end
  <2>1. DOMAIN xs = 1 .. Len(xs) /\ a.start \in Nat /\ a.end \in Nat
    BY <1>1, <1>2, ListShape
  <2>2. QED
    BY <1>1, <1>2, <2>1 DEF Sorted
<1>4. \A i \in 1 .. j : xs[i].end <= a.start
  <2>1. \A i \in 1 .. j : i \in 1 .. Len(xs) /\ i < j + 1
    BY <1>1
  <2>2. QED
    BY <1>1, <1>2, <2>1, SortedOrder
<1>5. WriteList(f.writes, N) /\ f.deps \subseteq 1 .. N
  BY DEF PoolDone
<1>6. PICK r : r = ApplyMemRead(f.writes, a.start, a.end)
  OBVIOUS
<1>7. r \subseteq 1 .. N /\ \A b \in Nat : a.start <= b /\ b < a.end => ValuesAt(f.writes, b) \subseteq r
  BY <1>3, <1>5, <1>6, ReadsCover
<1>8. PICK v : v = ApplyMemWrite(f.writes, a.start, a.end, n)
  OBVIOUS
<1>9. WriteList(v, N) /\ \A b \in Nat : ValuesAt(v, b) =
                             IF a.start <= b /\ b < a.end THEN {n} ELSE ValuesAt(f.writes, b)
  <2>1. PICK l, x, y : l = f.writes /\ x = a.start /\ y = a.end
    OBVIOUS
  <2>2. WriteList(l, N) /\ x \in Nat /\ y \in Nat /\ x <= y
    BY <1>3, <1>5, <2>1
  <2>3. /\ WriteList(ApplyMemWrite(l, x, y, n), N)
        /\ \A b \in Nat : ValuesAt(ApplyMemWrite(l, x, y, n), b) =
                            IF x <= b /\ b < y THEN {n} ELSE ValuesAt(l, b)
    BY <2>2, WritesApply
  <2>4. QED
    BY <1>8, <2>1, <2>3
<1>10. PICK g : g = PoolTurn(<<p, n>>, f, a)
  OBVIOUS
<1>11. /\ g = [deps |-> g.deps, writes |-> g.writes]
       /\ g.deps = f.deps \cup (IF "R" \in a.val THEN r ELSE {})
       /\ g.writes = IF "W" \in a.val /\ p # 0 THEN v ELSE f.writes
  BY <1>6, <1>8, <1>10 DEF PoolTurn
<1>12. \A b \in Nat : Touches(xs, j, b, "W") => ~(a.start <= b /\ b < a.end)
  <2>1. \A i \in 1 .. j : xs[i].start \in Nat /\ xs[i].end \in Nat
    <3>1. \A i \in 1 .. j : i \in 1 .. Len(xs)
      BY <1>1
    <3>2. QED
      BY <1>1, <3>1, ListShape
  <2>2. QED
    BY <1>3, <1>4, <2>1 DEF Touches
<1>13. \A b \in Nat : ValuesAt(g.writes, b) =
         IF p # 0 /\ Touches(xs, j + 1, b, "W") THEN {n} ELSE ValuesAt(writes, b)
  <2>1. TAKE b \in Nat
  <2>2. ValuesAt(f.writes, b) = IF p # 0 /\ Touches(xs, j, b, "W") THEN {n} ELSE ValuesAt(writes, b)
    BY DEF PoolDone
  <2>3. Touches(xs, j + 1, b, "W") <=> Touches(xs, j, b, "W") \/ (a.start <= b /\ b < a.end /\ "W" \in a.val)
    BY <1>2, TouchesNext
  <2>4. ValuesAt(v, b) = IF a.start <= b /\ b < a.end THEN {n} ELSE ValuesAt(f.writes, b)
    BY <1>9
  <2>5. g.writes = IF "W" \in a.val /\ p # 0 THEN v ELSE f.writes
    BY <1>11
  <2>6. QED
    BY <2>2, <2>3, <2>4, <2>5, Zenon
<1>14. \A b \in Nat : Touches(xs, j + 1, b, "R") => ValuesAt(writes, b) \subseteq g.deps
  <2>1. SUFFICES ASSUME NEW b \in Nat, Touches(xs, j + 1, b, "R") PROVE ValuesAt(writes, b) \subseteq g.deps
    OBVIOUS
  <2>2. CASE Touches(xs, j, b, "R")
    <3>1. ValuesAt(writes, b) \subseteq f.deps
      BY <2>2 DEF PoolDone
    <3>2. QED
      BY <1>11, <3>1
  <2>3. CASE a.start <= b /\ b < a.end /\ "R" \in a.val
    <3>1. ~Touches(xs, j, b, "W")
      BY <1>12, <2>3
    <3>2. ValuesAt(f.writes, b) = ValuesAt(writes, b)
      BY <3>1 DEF PoolDone
    <3>3. QED
      BY <1>7, <1>11, <2>3, <3>2
  <2>4. QED
    BY <1>2, <2>1, <2>2, <2>3, TouchesNext
<1>15. g.deps \subseteq 1 .. N /\ WriteList(g.writes, N)
  BY <1>5, <1>7, <1>9, <1>11
<1>16. QED
  BY <1>2, <1>10, <1>11, <1>13, <1>14, <1>15 DEF PoolDone

\* The flush of a pool takes all its pending accesses.
LEMMA FlushPoolDone ==
  ASSUME NEW N \in Nat, NEW n \in 1 .. N, NEW p, NEW writes, WriteList(writes, N),
         NEW xs, PendingList(xs)
  PROVE  PoolDone(FlushPool(writes, p, n, xs), writes, p, n, N, xs, Len(xs))
<1>1. xs \in Seq(Elems(PendingModes))
  BY DEF PendingList
<1>2. PICK m \in Nat : m = Len(xs)
  BY <1>1, ListShape
<1>3. PICK base : base = [deps |-> {}, writes |-> writes]
  OBVIOUS
<1>4. PICK q : q = <<p, n>>
  OBVIOUS
<1>5. PICK f : PoolRuns(q, base, xs, m, f)
  BY <1>1, <1>2, PoolSteps
<1>6. /\ f[0] = base /\ \A j \in 1 .. m : f[j] = PoolTurn(q, f[j - 1], xs[j])
      /\ FlushPool(writes, p, n, xs) = f[m]
  BY <1>3, <1>4, <1>5, FlushPoolIsFold DEF PoolRuns
<1> DEFINE Good == {j \in Nat : j <= m => PoolDone(f[j], writes, p, n, N, xs, j)}
<1>7. 0 \in Good
  <2>1. \A b, mode : ~Touches(xs, 0, b, mode)
    BY DEF Touches
  <2>2. base.deps = {} /\ base.writes = writes /\ base = [deps |-> base.deps, writes |-> base.writes]
    BY <1>3
  <2>3. PoolDone(base, writes, p, n, N, xs, 0)
    BY <2>1, <2>2 DEF PoolDone
  <2>4. QED
    BY <1>6, <2>3
<1>8. ASSUME NEW j \in Nat, j \in Good PROVE j + 1 \in Good
  <2>1. SUFFICES ASSUME j + 1 <= m PROVE PoolDone(f[j + 1], writes, p, n, N, xs, j + 1)
    OBVIOUS
  <2>2. PoolDone(f[j], writes, p, n, N, xs, j)
    BY <1>2, <1>8, <2>1
  <2>3. f[j + 1] = PoolTurn(q, f[j], xs[j + 1])
    <3>1. j + 1 \in 1 .. m /\ (j + 1) - 1 = j
      BY <1>2, <2>1
    <3>2. f[j + 1] = PoolTurn(q, f[(j + 1) - 1], xs[j + 1])
      BY <1>6, <3>1
    <3>3. QED
      BY <3>1, <3>2
  <2>4. QED
    BY <1>2, <1>4, <2>1, <2>2, <2>3, PoolTurnKeeps
<1> HIDE DEF Good
<1>9. Nat \subseteq Good
  BY <1>7, <1>8, PoolFold!NatSetInduction
<1>10. PoolDone(f[m], writes, p, n, N, xs, m)
  BY <1>2, <1>9 DEF Good
<1>11. QED
  BY <1>2, <1>6, <1>10

\* v is watcher w after a flush for node n.
MemFlushed(w, n, v) ==
  /\ v = [pending |-> v.pending, writes |-> v.writes, fenced |-> v.fenced, acc |-> v.acc]
  /\ v.pending = [p \in Pools |-> <<>>]
  /\ \A m : m # n => DepsOf(v.acc, m) = DepsOf(w.acc, m)
  /\ DepsOf(w.acc, n) \subseteq DepsOf(v.acc, n)
  /\ \A p \in Pools, b \in Nat :
       "R" \in ValuesAt(w.pending[p], b) => ValuesAt(w.writes[p], b) \subseteq DepsOf(v.acc, n)
  /\ \A p \in Pools, b \in Nat :
       ValuesAt(v.writes[p], b) =
         IF p # 0 /\ "W" \in ValuesAt(w.pending[p], b) THEN {n} ELSE ValuesAt(w.writes[p], b)

\* An element of the list touches an address when the list says so.
LEMMA TouchesSays ==
  ASSUME NEW xs, PendingList(xs), NEW b, NEW mode
  PROVE  Touches(xs, Len(xs), b, mode) <=> mode \in ValuesAt(xs, b)
<1>1. DOMAIN xs = 1 .. Len(xs)
  BY ListShape DEF PendingList
<1>2. QED
  BY <1>1, ValuesAtIs DEF Touches

\* The flush of the memory watcher.
LEMMA FlushMemIs ==
  ASSUME NEW N \in Nat, NEW n \in 1 .. N, NEW w, MemType(w, N)
  PROVE  /\ MemFlushed(w, n, FlushMem(w, n)) /\ MemType(FlushMem(w, n), N)
         /\ FlushMem(w, n).fenced = w.fenced
<1>1. PICK f : f = [p \in Pools |-> FlushPool(w.writes[p], p, n, w.pending[p])]
  OBVIOUS
<1>2. ASSUME NEW p \in Pools
      PROVE  PoolDone(f[p], w.writes[p], p, n, N, w.pending[p], Len(w.pending[p]))
  <2>1. PendingList(w.pending[p]) /\ WriteList(w.writes[p], N)
    BY DEF MemType
  <2>2. PoolDone(FlushPool(w.writes[p], p, n, w.pending[p]), w.writes[p], p, n, N, w.pending[p], Len(w.pending[p]))
    BY <2>1, FlushPoolDone
  <2>3. f[p] = FlushPool(w.writes[p], p, n, w.pending[p])
    BY <1>1
  <2>4. QED
    BY <2>2, <2>3
<1>3. PICK deps : deps = UNION {f[p].deps : p \in Pools}
  OBVIOUS
<1>4. PICK v : v = FlushMem(w, n)
  OBVIOUS
<1>5. /\ v = [pending |-> [p \in Pools |-> <<>>], writes |-> [p \in Pools |-> f[p].writes],
               fenced |-> w.fenced, acc |-> AddDeps(w.acc, n, deps)]
  <2>1. w = [pending |-> w.pending, writes |-> w.writes, fenced |-> w.fenced, acc |-> w.acc]
    BY DEF MemType
  <2>2. v = [w EXCEPT !.writes = [p \in Pools |-> f[p].writes],
                      !.pending = [p \in Pools |-> <<>>],
                      !.acc = AddDeps(w.acc, n, deps)]
    BY <1>1, <1>3, <1>4 DEF FlushMem
  <2>3. QED
    BY <2>1, <2>2
<1>6. /\ v = [pending |-> v.pending, writes |-> v.writes, fenced |-> v.fenced, acc |-> v.acc]
      /\ v.pending = [p \in Pools |-> <<>>] /\ v.fenced = w.fenced
      /\ v.writes = [p \in Pools |-> f[p].writes] /\ v.acc = AddDeps(w.acc, n, deps)
  BY <1>5
<1>7. \A p \in Pools : v.writes[p] = f[p].writes /\ v.pending[p] = <<>>
  BY <1>6
<1>8. \A m : DepsOf(v.acc, m) = IF m = n THEN DepsOf(w.acc, n) \cup deps ELSE DepsOf(w.acc, m)
  <2>1. PICK acc : acc = w.acc
    OBVIOUS
  <2>2. \A m : DepsOf(AddDeps(acc, n, deps), m) = IF m = n THEN DepsOf(acc, n) \cup deps ELSE DepsOf(acc, m)
    BY DepsOfAdd
  <2>3. QED
    BY <1>6, <2>1, <2>2
<1>9. ASSUME NEW p \in Pools, NEW b \in Nat
      PROVE /\ "R" \in ValuesAt(w.pending[p], b) => ValuesAt(w.writes[p], b) \subseteq deps
            /\ ValuesAt(v.writes[p], b) =
                 IF p # 0 /\ "W" \in ValuesAt(w.pending[p], b) THEN {n} ELSE ValuesAt(w.writes[p], b)
  <2>1. PendingList(w.pending[p])
    BY DEF MemType
  <2>2. \A mode : Touches(w.pending[p], Len(w.pending[p]), b, mode) <=> mode \in ValuesAt(w.pending[p], b)
    BY <2>1, TouchesSays
  <2>3. f[p].deps \subseteq deps
    BY <1>3
  <2>4. /\ ValuesAt(f[p].writes, b) = IF p # 0 /\ Touches(w.pending[p], Len(w.pending[p]), b, "W")
                                      THEN {n} ELSE ValuesAt(w.writes[p], b)
        /\ Touches(w.pending[p], Len(w.pending[p]), b, "R") => ValuesAt(w.writes[p], b) \subseteq f[p].deps
    BY <1>2 DEF PoolDone
  <2>5. QED
    BY <1>7, <2>2, <2>3, <2>4
<1>10. deps \subseteq 1 .. N
  <2>1. \A p \in Pools : f[p].deps \subseteq 1 .. N
    BY <1>2 DEF PoolDone
  <2>2. QED
    BY <1>3, <2>1
<1>11. MemFlushed(w, n, v)
  BY <1>6, <1>8, <1>9 DEF MemFlushed
<1>12. MemType(v, N)
  <2>1. AccType(v.acc, N)
    BY <1>6, <1>10, AccAdd DEF MemType
  <2>2. \A p \in Pools : PendingList(v.pending[p])
    BY <1>7, NoElement DEF PendingList
  <2>3. \A p \in Pools : WriteList(v.writes[p], N)
    BY <1>2, <1>7 DEF PoolDone
  <2>4. /\ DOMAIN v.pending = Pools /\ v.pending = [p \in Pools |-> v.pending[p]]
        /\ DOMAIN v.writes = Pools /\ v.writes = [p \in Pools |-> v.writes[p]]
    BY <1>6
  <2>5. QED
    BY <1>6, <2>1, <2>2, <2>3, <2>4 DEF MemType
<1>13. QED
  BY <1>4, <1>6, <1>11, <1>12

\* v is watcher w after an access of the slice from s up to e of pool p,
\* which changes what is pending by F.
Sliced(w, p, s, e, F, v) ==
  /\ v.writes = w.writes /\ v.fenced = w.fenced /\ v.acc = w.acc
  /\ \A q \in Pools : q # p => v.pending[q] = w.pending[q]
  /\ \A b \in Nat : ValuesAt(v.pending[p], b) =
       IF s <= b /\ b < e THEN F[ValuesAt(w.pending[p], b)] ELSE ValuesAt(w.pending[p], b)

\* An access to a slice makes it pending.
LEMMA OnSliceIs ==
  ASSUME NEW N \in Nat, NEW w, MemType(w, N), NEW p \in Pools, NEW s \in Nat, NEW e \in Nat, s <= e,
         NEW F, Updater(PendingModes, F)
  PROVE  Sliced(w, p, s, e, F, OnSlice(w, p, s, e, F)) /\ MemType(OnSlice(w, p, s, e, F), N)
<1>1. PICK l : l = w.pending[p]
  OBVIOUS
<1>2. PICK r : r = IF l = <<>> THEN <<Elem(s, e, F[NoValue])>> ELSE Update(l, s, e, F)
  OBVIOUS
<1>3. l \in Seq(Elems(PendingModes)) /\ Sorted(l)
  BY <1>1 DEF MemType, PendingList
<1>4. /\ r \in Seq(Elems(PendingModes)) /\ Sorted(r)
      /\ \A b \in Nat : ValuesAt(r, b) = IF s <= b /\ b < e THEN F[ValuesAt(l, b)] ELSE ValuesAt(l, b)
  <2>1. CASE l = <<>>
    <3>1. PICK u : u = F[NoValue]
      OBVIOUS
    <3>2. u \in PendingModes /\ u = F[{}]
      BY <3>1 DEF Updater, NoValue
    <3>3. r = <<Elem(s, e, u)>>
      BY <1>2, <2>1, <3>1
    <3>4. /\ r \in Seq(Elems(PendingModes)) /\ Sorted(r)
          /\ \A b \in Nat : ValuesAt(r, b) = IF s <= b /\ b < e THEN u ELSE {}
      BY <3>2, <3>3, OneElement
    <3>5. \A b \in Nat : ValuesAt(l, b) = {}
      BY <2>1, NoElement
    <3>6. QED
      BY <3>2, <3>4, <3>5
  <2>2. CASE l # <<>>
    <3>1. r = Update(l, s, e, F)
      BY <1>2, <2>2
    <3>2. PICK V : V = PendingModes
      OBVIOUS
    <3>3. l \in Seq(Elems(V)) /\ Updater(V, F) /\ Sorted(l)
      BY <1>3, <3>2
    <3>4. /\ Update(l, s, e, F) \in Seq(Elems(V)) /\ Sorted(Update(l, s, e, F))
          /\ \A b \in Nat : ValuesAt(Update(l, s, e, F), b) =
                              IF s <= b /\ b < e THEN F[ValuesAt(l, b)] ELSE ValuesAt(l, b)
      <4>1. UpdatedTo(V, l, s, e, F, Update(l, s, e, F))
        BY <3>3, UpdateSays
      <4>2. QED
        BY <4>1 DEF UpdatedTo
    <3>5. QED
      BY <3>1, <3>2, <3>4
  <2>3. QED
    BY <2>1, <2>2
<1>5. PICK v : v = OnSlice(w, p, s, e, F)
  OBVIOUS
<1>6. /\ v = [pending |-> [w.pending EXCEPT ![p] = r], writes |-> w.writes, fenced |-> w.fenced, acc |-> w.acc]
  <2>1. w = [pending |-> w.pending, writes |-> w.writes, fenced |-> w.fenced, acc |-> w.acc]
    BY DEF MemType
  <2>2. v = [w EXCEPT !.pending[p] = r]
    BY <1>1, <1>2, <1>5 DEF OnSlice
  <2>3. QED
    BY <2>1, <2>2
<1>7. /\ v = [pending |-> v.pending, writes |-> v.writes, fenced |-> v.fenced, acc |-> v.acc]
      /\ v.writes = w.writes /\ v.fenced = w.fenced /\ v.acc = w.acc
      /\ v.pending = [w.pending EXCEPT ![p] = r]
  BY <1>6
<1>8. DOMAIN w.pending = Pools
  BY DEF MemType
<1>9. /\ DOMAIN v.pending = Pools /\ v.pending = [q \in Pools |-> v.pending[q]]
      /\ v.pending[p] = r /\ \A q \in Pools : q # p => v.pending[q] = w.pending[q]
  BY <1>7, <1>8
<1>10. Sliced(w, p, s, e, F, v)
  BY <1>1, <1>4, <1>7, <1>9 DEF Sliced
<1>11. \A q \in Pools : PendingList(v.pending[q])
  <2>1. TAKE q \in Pools
  <2>2. PendingList(w.pending[q])
    BY DEF MemType
  <2>3. PendingList(r)
    BY <1>4 DEF PendingList
  <2>4. QED
    BY <1>9, <2>2, <2>3
<1>12. MemType(v, N)
  BY <1>7, <1>9, <1>11 DEF MemType
<1>13. QED
  BY <1>5, <1>10, <1>12

\* The i-th of them; q: the current node, the list, isWrite, and the number of
\* nodes before.
ObsTurn(q, w, i) == AddObs(w, q[1], q[2][i][1], q[2][i][2], q[3], q[4] + i)

\* The loop over the observations of a command.
ObsFold == INSTANCE FoldLaws WITH Step <- ObsTurn

\* f has the states of that loop after each turn.
ObsRuns(q, base, xs, m, f) ==
  /\ f[0] = base /\ \A j \in 1 .. m : f[j] = ObsTurn(q, f[j - 1], xs[j])
  /\ ObsFold!Fold(q, base, xs) = f[m]

\* They exist.
LEMMA ObsSteps ==
  ASSUME NEW q, NEW base, NEW S, NEW xs \in Seq(S), NEW m \in Nat, m = Len(xs)
  PROVE  \E f : ObsRuns(q, base, xs, m, f)
  BY ObsFold!FoldSteps DEF ObsRuns

\* The observations are applied by a fold.
LEMMA ObsIsFold ==
  ASSUME NEW node, NEW obs, NEW isWrite, NEW n, NEW w, NEW xs
  PROVE  FoldLeft(LAMBDA v, i : AddObs(v, node, obs[i][1], obs[i][2], isWrite, n + i), w, xs)
           = ObsFold!Fold(<<node, obs, isWrite, n>>, w, xs)
  BY DEF FoldLeft, MapThenFoldSet, Max, ObsFold!Fold, ObsFold!MapThenFoldSet, ObsFold!Greatest, ObsTurn

\* The observations among the first j that cover an address.
Hits(obs, j, b) == {i \in 1 .. j : obs[i][1] <= b /\ b < obs[i][2]}

\* v is w after the first j observations, n nodes being there before.
Observed(w, v, obs, n, j) ==
  /\ v.pending = w.pending /\ v.fenced = w.fenced /\ v.acc = w.acc
  /\ \A p \in Pools \ {0} : v.writes[p] = w.writes[p]
  /\ \A b \in Nat : ValuesAt(v.writes[0], b) =
       IF Hits(obs, j, b) = {} THEN ValuesAt(w.writes[0], b) ELSE {n + Max(Hits(obs, j, b))}

\* One observation more is the last one where it covers.
LEMMA HitsNext ==
  ASSUME NEW obs, NEW j \in Nat, NEW b
  PROVE  /\ obs[j + 1][1] <= b /\ b < obs[j + 1][2] =>
              Hits(obs, j + 1, b) # {} /\ Max(Hits(obs, j + 1, b)) = j + 1
         /\ ~(obs[j + 1][1] <= b /\ b < obs[j + 1][2]) => Hits(obs, j + 1, b) = Hits(obs, j, b)
<1>1. CASE obs[j + 1][1] <= b /\ b < obs[j + 1][2]
  <2>1. PICK T : T = Hits(obs, j + 1, b)
    OBVIOUS
  <2>2. j + 1 \in T /\ T \subseteq 0 .. j + 1
    BY <1>1, <2>1 DEF Hits
  <2>3. Max(T) \in T /\ \A y \in T : y <= Max(T)
    <3>1. T # {} /\ j + 1 \in Nat
      BY <2>2
    <3>2. ObsFold!Greatest(T) \in T /\ \A y \in T : y <= ObsFold!Greatest(T)
      BY <2>2, <3>1, ObsFold!GreatestProperties
    <3>3. Max(T) = ObsFold!Greatest(T)
      BY DEF Max, ObsFold!Greatest
    <3>4. QED
      BY <3>2, <3>3
  <2>4. Max(T) = j + 1
    <3>1. PICK x \in 0 .. j + 1 : x = Max(T)
      BY <2>2, <2>3
    <3>2. j + 1 <= x
      BY <2>2, <2>3, <3>1
    <3>3. QED
      BY <3>1, <3>2
  <2>5. QED
    BY <1>1, <2>1, <2>2, <2>4
<1>2. CASE ~(obs[j + 1][1] <= b /\ b < obs[j + 1][2])
  <2>1. \A i : i \in 1 .. j + 1 <=> i \in 1 .. j \/ i = j + 1
    OBVIOUS
  <2>2. QED
    BY <1>2, <2>1 DEF Hits
<1>3. QED
  BY <1>1, <1>2

\* v is w after observation o of the memory from s up to e.
ObsAdded(w, v, s, e, o) ==
  /\ v.pending = w.pending /\ v.fenced = w.fenced /\ v.acc = w.acc
  /\ \A p \in Pools \ {0} : v.writes[p] = w.writes[p]
  /\ \A b \in Nat : ValuesAt(v.writes[0], b) =
       IF s <= b /\ b < e THEN {o} ELSE ValuesAt(w.writes[0], b)

\* An observation is the writer of what it covers.
LEMMA AddObsKeeps ==
  ASSUME NEW N \in Nat, NEW w, MemType(w, N), NEW node, NEW s \in Nat, NEW e \in Nat, s <= e,
         NEW isWrite \in BOOLEAN, isWrite => w.fenced, NEW o \in 1 .. N, 0 \in Pools,
         NEW v, v = AddObs(w, node, s, e, isWrite, o)
  PROVE  MemType(v, N) /\ ObsAdded(w, v, s, e, o)
<1>1. PICK l : l = w.writes[0]
  OBVIOUS
<1>2. PICK r : r = ApplyMemWrite(l, s, e, o)
  OBVIOUS
<1>3. v = [w EXCEPT !.writes[0] = r]
  BY <1>1, <1>2 DEF AddObs
<1>4. w = [pending |-> w.pending, writes |-> w.writes, fenced |-> w.fenced, acc |-> w.acc]
  BY DEF MemType
<1>5. v = [pending |-> w.pending, writes |-> [w.writes EXCEPT ![0] = r], fenced |-> w.fenced, acc |-> w.acc]
  BY <1>3, <1>4
<1>6. /\ v = [pending |-> v.pending, writes |-> v.writes, fenced |-> v.fenced, acc |-> v.acc]
      /\ v.pending = w.pending /\ v.fenced = w.fenced /\ v.acc = w.acc
      /\ v.writes = [w.writes EXCEPT ![0] = r]
  BY <1>5
<1>7. DOMAIN w.writes = Pools
  BY DEF MemType
<1>8. /\ DOMAIN v.writes = Pools /\ v.writes = [q \in Pools |-> v.writes[q]]
      /\ v.writes[0] = r /\ \A q \in Pools \ {0} : v.writes[q] = w.writes[q]
  BY <1>6, <1>7
<1>9. /\ WriteList(r, N)
      /\ \A b \in Nat : ValuesAt(r, b) = IF s <= b /\ b < e THEN {o} ELSE ValuesAt(l, b)
  <2>1. WriteList(l, N)
    BY <1>1 DEF MemType
  <2>2. /\ WriteList(ApplyMemWrite(l, s, e, o), N)
        /\ \A b \in Nat : ValuesAt(ApplyMemWrite(l, s, e, o), b) =
                            IF s <= b /\ b < e THEN {o} ELSE ValuesAt(l, b)
    BY <2>1, WritesApply
  <2>3. QED
    BY <1>2, <2>2
<1>10. \A q \in Pools : WriteList(v.writes[q], N)
  <2>1. TAKE q \in Pools
  <2>2. WriteList(w.writes[q], N)
    BY DEF MemType
  <2>3. QED
    BY <1>8, <1>9, <2>2
<1>11. MemType(v, N)
  BY <1>6, <1>8, <1>10 DEF MemType
<1>12. ObsAdded(w, v, s, e, o)
  BY <1>1, <1>6, <1>8, <1>9 DEF ObsAdded
<1>13. QED
  BY <1>11, <1>12

\* What the fence does before the first write observation.
LEMMA FenceIs ==
  ASSUME NEW N \in Nat, NEW w, MemType(w, N), NEW n \in 1 .. N, NEW v,
         v = [FlushMem(w, n) EXCEPT !.fenced = TRUE]
  PROVE  MemFlushed(w, n, v) /\ MemType(v, N) /\ v.fenced
<1>1. PICK u : u = FlushMem(w, n)
  OBVIOUS
<1>2. MemFlushed(w, n, u) /\ MemType(u, N)
  BY <1>1, FlushMemIs
<1>3. v = [pending |-> u.pending, writes |-> u.writes, fenced |-> TRUE, acc |-> u.acc]
  <2>1. u = [pending |-> u.pending, writes |-> u.writes, fenced |-> u.fenced, acc |-> u.acc]
    BY <1>2 DEF MemType
  <2>2. v = [u EXCEPT !.fenced = TRUE]
    BY <1>1
  <2>3. QED
    BY <2>1, <2>2
<1>4. /\ v.pending = u.pending /\ v.writes = u.writes /\ v.acc = u.acc /\ v.fenced
      /\ v = [pending |-> v.pending, writes |-> v.writes, fenced |-> v.fenced, acc |-> v.acc]
  <2>1. /\ v.pending = u.pending /\ v.writes = u.writes /\ v.acc = u.acc /\ v.fenced = TRUE
    BY <1>3
  <2>2. v = [pending |-> v.pending, writes |-> v.writes, fenced |-> v.fenced, acc |-> v.acc]
    BY <1>3, <2>1, Zenon
  <2>3. QED
    BY <2>1, <2>2, Zenon
<1>5. MemType(v, N)
  BY <1>2, <1>4 DEF MemType
<1>6. MemFlushed(w, n, v)
  <2>1. /\ v.pending = [p \in Pools |-> <<>>]
        /\ \A m : m # n => DepsOf(v.acc, m) = DepsOf(w.acc, m)
        /\ DepsOf(w.acc, n) \subseteq DepsOf(v.acc, n)
    BY <1>2, <1>4 DEF MemFlushed
  <2>2. \A p \in Pools, b \in Nat :
          "R" \in ValuesAt(w.pending[p], b) => ValuesAt(w.writes[p], b) \subseteq DepsOf(v.acc, n)
    BY <1>2, <1>4 DEF MemFlushed
  <2>3. \A p \in Pools, b \in Nat :
          ValuesAt(v.writes[p], b) =
            IF p # 0 /\ "W" \in ValuesAt(w.pending[p], b) THEN {n} ELSE ValuesAt(w.writes[p], b)
    <3>1. v.writes = u.writes
      BY <1>4
    <3>2. \A p \in Pools, b \in Nat :
            ValuesAt(u.writes[p], b) =
              IF p # 0 /\ "W" \in ValuesAt(w.pending[p], b) THEN {n} ELSE ValuesAt(w.writes[p], b)
      BY <1>2, Zenon DEF MemFlushed
    <3>3. QED
      BY <3>1, <3>2, Zenon
  <2>4. QED
    BY <1>4, <2>1, <2>2, <2>3 DEF MemFlushed
<1>7. QED
  BY <1>4, <1>5, <1>6

\* What all observations have done: the fence, and what they cover.
ObservedAll(w, u, v, node, obs, isWrite, n, k) ==
  /\ Observed(u, v, obs, n, k) /\ MemType(v, n + k)
  /\ u = w \/ (isWrite /\ MemFlushed(w, node, u))
  /\ isWrite /\ k > 0 => MemFlushed(w, node, u)
  /\ ~isWrite => u = w

\* The observations of a command are the writers of what they cover, the
\* later ones before the earlier; the first write observation flushes.
LEMMA ObserveIs ==
  ASSUME NEW n \in Nat, NEW w, MemType(w, n), NEW node \in 1 .. n, NEW obs \in Seq(Spans),
         NEW k \in Nat, k = Len(obs), NEW isWrite \in BOOLEAN, ~w.fenced, NEW v,
         v = ObsFold!Fold(<<node, obs, isWrite, n>>, w, [i \in 1 .. k |-> i])
  PROVE  \E u : ObservedAll(w, u, v, node, obs, isWrite, n, k)
<1>1. 0 \in Pools /\ Spans \subseteq Nat \X Nat /\ \A x \in Spans : x[1] <= x[2]
  BY GraphAssumption
<1>2. \A i \in 1 .. k : obs[i][1] \in Nat /\ obs[i][2] \in Nat /\ obs[i][1] <= obs[i][2]
  <2>1. \A i \in 1 .. k : obs[i] \in Spans
    OBVIOUS
  <2>2. QED
    BY <1>1, <2>1
<1>3. PICK N \in Nat : N = n + k /\ n <= N
  OBVIOUS
<1>4. MemType(w, N) /\ node \in 1 .. N
  BY <1>3, MemGrow
<1>5. PICK xs : xs = [i \in 1 .. k |-> i]
  OBVIOUS
<1>6. xs \in Seq(Nat) /\ Len(xs) = k /\ \A i \in 1 .. k : xs[i] = i
  <2>1. DOMAIN xs = 1 .. k /\ xs = [i \in DOMAIN xs |-> xs[i]] /\ \A i \in 1 .. k : xs[i] \in Nat /\ xs[i] = i
    BY <1>5
  <2>2. QED
    BY <2>1, IsSequence
<1>7. PICK q : q = <<node, obs, isWrite, n>>
  OBVIOUS
<1>8. PICK f : ObsRuns(q, w, xs, k, f)
  BY <1>6, ObsSteps
<1>9. f[0] = w /\ v = f[k] /\ \A j \in 1 .. k : f[j] = ObsTurn(q, f[j - 1], xs[j])
  BY <1>5, <1>7, <1>8 DEF ObsRuns
<1>10. \A x, i : ObsTurn(q, x, i) = AddObs(x, node, obs[i][1], obs[i][2], isWrite, n + i)
  BY <1>7 DEF ObsTurn
<1>11. ASSUME NEW j \in Nat, j + 1 <= k
       PROVE  f[j + 1] = AddObs(f[j], node, obs[j + 1][1], obs[j + 1][2], isWrite, n + (j + 1))
  <2>1. j + 1 \in 1 .. k /\ (j + 1) - 1 = j
    BY <1>11
  <2>2. f[j + 1] = ObsTurn(q, f[(j + 1) - 1], xs[j + 1]) /\ xs[j + 1] = j + 1
    BY <1>6, <1>9, <2>1
  <2>3. QED
    BY <1>10, <2>1, <2>2
<1>12. PICK fence : fence = [FlushMem(w, node) EXCEPT !.fenced = TRUE]
  OBVIOUS
<1>13. MemFlushed(w, node, fence) /\ MemType(fence, N) /\ fence.fenced
  BY <1>4, <1>12, FenceIs
<1>14. PICK u : u = IF isWrite /\ k > 0 THEN fence ELSE w
  OBVIOUS
<1>15. /\ MemType(u, N)
       /\ u = w \/ (isWrite /\ MemFlushed(w, node, u))
       /\ isWrite /\ k > 0 => MemFlushed(w, node, u) /\ u.fenced
       /\ ~isWrite => u = w
  BY <1>4, <1>13, <1>14
<1> DEFINE At(j) == IF j = 0 THEN u ELSE f[j]
           Good == {j \in Nat : j <= k => Observed(u, At(j), obs, n, j) /\ MemType(At(j), N)}
<1>16. 0 \in Good
  <2>1. \A b : Hits(obs, 0, b) = {}
    BY DEF Hits
  <2>2. Observed(u, u, obs, n, 0)
    BY <2>1 DEF Observed
  <2>3. MemType(u, N)
    BY <1>15
  <2>4. QED
    BY <2>2, <2>3
<1>17. ASSUME NEW j \in Nat, j \in Good PROVE j + 1 \in Good
  <2>1. SUFFICES ASSUME j + 1 <= k PROVE Observed(u, At(j + 1), obs, n, j + 1) /\ MemType(At(j + 1), N)
    OBVIOUS
  <2>2. PICK x : x = At(j)
    OBVIOUS
  <2>3. Observed(u, x, obs, n, j) /\ MemType(x, N)
    BY <1>17, <2>1, <2>2
  <2>4. PICK s \in Nat, e \in Nat, o \in 1 .. N : s = obs[j + 1][1] /\ e = obs[j + 1][2] /\ o = n + (j + 1) /\ s <= e
    BY <1>2, <1>3, <2>1
  <2>5. PICK y : y = At(j + 1)
    OBVIOUS
  <2>6. isWrite => x.fenced
    BY <1>15, <2>1, <2>3 DEF Observed
  <2>7. y = AddObs(x, node, s, e, isWrite, o)
    <3>1. y = AddObs(f[j], node, s, e, isWrite, o)
      BY <1>11, <2>1, <2>4, <2>5
    <3>2. CASE j = 0
      <4>1. f[j] = w /\ x = u
        BY <1>9, <2>2, <3>2
      <4>2. CASE isWrite
        <5>1. u = fence /\ fence.fenced
          BY <1>13, <1>14, <2>1, <4>2
        <5>2. AddObs(w, node, s, e, isWrite, o) = [fence EXCEPT !.writes[0] = ApplyMemWrite(@, s, e, o)]
          BY <1>12, <4>2 DEF AddObs
        <5>3. AddObs(fence, node, s, e, isWrite, o) = [fence EXCEPT !.writes[0] = ApplyMemWrite(@, s, e, o)]
          BY <5>1 DEF AddObs
        <5>4. QED
          BY <3>1, <4>1, <5>1, <5>2, <5>3
      <4>3. CASE ~isWrite
        BY <1>14, <3>1, <4>1, <4>3
      <4>4. QED
        BY <4>2, <4>3
    <3>3. CASE j # 0
      BY <2>2, <3>1, <3>3
    <3>4. QED
      BY <3>2, <3>3
  <2>8. /\ MemType(y, N)
        /\ y.pending = x.pending /\ y.fenced = x.fenced /\ y.acc = x.acc
        /\ \A p \in Pools \ {0} : y.writes[p] = x.writes[p]
        /\ \A b \in Nat : ValuesAt(y.writes[0], b) =
             IF s <= b /\ b < e THEN {o} ELSE ValuesAt(x.writes[0], b)
    <3>1. MemType(y, N) /\ ObsAdded(x, y, s, e, o)
      BY <1>1, <2>3, <2>4, <2>6, <2>7, AddObsKeeps, Zenon
    <3>2. QED
      BY <3>1 DEF ObsAdded
  <2>9. \A b \in Nat : ValuesAt(y.writes[0], b) =
          IF Hits(obs, j + 1, b) = {} THEN ValuesAt(u.writes[0], b) ELSE {n + Max(Hits(obs, j + 1, b))}
    <3>1. TAKE b \in Nat
    <3>2. CASE s <= b /\ b < e
      <4>1. Hits(obs, j + 1, b) # {} /\ Max(Hits(obs, j + 1, b)) = j + 1
        BY <2>4, <3>2, HitsNext
      <4>2. ValuesAt(y.writes[0], b) = {o}
        BY <2>8, <3>2
      <4>3. QED
        BY <2>4, <4>1, <4>2
    <3>3. CASE ~(s <= b /\ b < e)
      <4>1. Hits(obs, j + 1, b) = Hits(obs, j, b)
        BY <2>4, <3>3, HitsNext
      <4>2. ValuesAt(y.writes[0], b) = ValuesAt(x.writes[0], b)
        BY <2>8, <3>3
      <4>3. QED
        BY <2>3, <4>1, <4>2 DEF Observed
    <3>4. QED
      BY <3>2, <3>3
  <2>10. Observed(u, y, obs, n, j + 1)
    BY <2>3, <2>8, <2>9 DEF Observed
  <2>11. QED
    BY <2>5, <2>8, <2>10
<1>18. Nat \subseteq Good
  <2> HIDE DEF Good
  <2>1. QED
    BY <1>16, <1>17, ObsFold!NatSetInduction
<1>19. Observed(u, v, obs, n, k) /\ MemType(v, N)
  <2>1. k \in Good
    BY <1>18
  <2>2. At(k) = v
    BY <1>9, <1>14
  <2>3. QED
    BY <2>1, <2>2
<1>20. QED
  BY <1>3, <1>15, <1>19 DEF ObservedAll

-----------------------------------------------------------------------------
(***************************************************************************)
(* What the memory watcher knows: the last writers, and the dependencies   *)
(* that are noted or will be by the next flush.                            *)
(***************************************************************************)
\* What the lists of watcher w say of an address b of pool p that node m wrote
\* last, when c is the current node.
ListAt(w, m, c, isObs, p, b) ==
  /\ "W" \in ValuesAt(w.pending[p], b) => m = c
  /\ p # 0 /\ "W" \notin ValuesAt(w.pending[p], b) => ValuesAt(w.writes[p], b) = {m} \ {0}
  /\ p = 0 /\ m # 0 /\ isObs => ValuesAt(w.writes[p], b) = {m}

\* What the lists say of all addresses; wm has the last writers.
ListsHold(w, wm, c, nodes) ==
  \A p \in Pools, b \in Bytes : ListAt(w, wm[p][b], c, nodes[wm[p][b]].kind = "obs", p, b)

\* m is a dependency of node n, or one that the next flush will find.
MemComing(w, c, n, m) ==
  n = c /\ \E p \in Pools, b \in Bytes : "R" \in ValuesAt(w.pending[p], b) /\ m \in ValuesAt(w.writes[p], b)

\* The watcher knows that n depends on m, or will after the next flush.
MemDep(w, c, n, m) == m \in DepsOf(w.acc, n) \/ MemComing(w, c, n, m)

\* An address is a natural number.
LEMMA ByteIsNat == \A b \in Bytes : b \in Nat
  BY GraphAssumption

\* Two watchers with the same lists say the same.
SameLists(w, v) ==
  \A p \in Pools, b \in Bytes :
    ValuesAt(v.pending[p], b) = ValuesAt(w.pending[p], b) /\ ValuesAt(v.writes[p], b) = ValuesAt(w.writes[p], b)

\* Nothing is pending at any address.
Quiet(w) == \A p \in Pools, b \in Bytes : ValuesAt(w.pending[p], b) = {}

\* A watcher whose lists are empty is quiet.
LEMMA QuietIs ==
  ASSUME NEW w, w.pending = [p \in Pools |-> <<>>]
  PROVE  Quiet(w)
  BY NoElement DEF Quiet

\* The lists after a flush.
LEMMA ListsFlushed ==
  ASSUME NEW w, NEW v, NEW wm, NEW nodes, NEW c, NEW d, c # 0, MemFlushed(w, c, v), ListsHold(w, wm, c, nodes)
  PROVE  ListsHold(v, wm, d, nodes) /\ Quiet(v)
<1>1. Quiet(v)
  BY QuietIs DEF MemFlushed
<1>2. ASSUME NEW p \in Pools, NEW b \in Bytes PROVE ListAt(v, wm[p][b], d, nodes[wm[p][b]].kind = "obs", p, b)
  <2>1. PICK m, isObs : m = wm[p][b] /\ isObs = (nodes[m].kind = "obs")
    OBVIOUS
  <2>2. ListAt(w, m, c, isObs, p, b)
    BY <2>1 DEF ListsHold
  <2>3. PICK P, W, V : P = ValuesAt(w.pending[p], b) /\ W = ValuesAt(w.writes[p], b) /\ V = ValuesAt(v.writes[p], b)
    OBVIOUS
  <2>4. V = IF p # 0 /\ "W" \in P THEN {c} ELSE W
    BY <2>3, ByteIsNat DEF MemFlushed
  <2>5. ValuesAt(v.pending[p], b) = {}
    BY <1>1 DEF Quiet
  <2>6. ListAt(v, m, d, isObs, p, b)
    BY <2>2, <2>3, <2>4, <2>5 DEF ListAt
  <2>7. QED
    BY <2>1, <2>6
<1>3. QED
  BY <1>1, <1>2 DEF ListsHold

\* The dependencies of a node after a flush.
LEMMA DepsFlushed ==
  ASSUME NEW w, NEW v, NEW c, NEW n, NEW m, MemFlushed(w, c, v), MemDep(w, c, n, m)
  PROVE  m \in DepsOf(v.acc, n)
<1>1. CASE m \in DepsOf(w.acc, n)
  BY <1>1 DEF MemFlushed
<1>2. CASE m \notin DepsOf(w.acc, n)
  <2>1. MemComing(w, c, n, m)
    BY <1>2 DEF MemDep
  <2>2. PICK p \in Pools, b \in Bytes : "R" \in ValuesAt(w.pending[p], b) /\ m \in ValuesAt(w.writes[p], b)
    BY <2>1 DEF MemComing
  <2>3. n = c /\ b \in Nat
    BY <2>1, ByteIsNat DEF MemComing
  <2>4. ValuesAt(w.writes[p], b) \subseteq DepsOf(v.acc, n)
    BY <2>2, <2>3 DEF MemFlushed
  <2>5. QED
    BY <2>2, <2>4
<1>3. QED
  BY <1>1, <1>2

\* When nothing is pending nothing comes.
LEMMA QuietDeps ==
  ASSUME NEW w, NEW c, NEW n, NEW m, Quiet(w)
  PROVE  MemDep(w, c, n, m) <=> m \in DepsOf(w.acc, n)
  BY DEF Quiet, MemDep, MemComing

\* The lists after a step that keeps them.
LEMMA ListsKept ==
  ASSUME NEW w, NEW v, NEW wm, NEW nodes, NEW vnodes, NEW c, NEW d, NEW N, SameLists(w, v), Quiet(w) \/ d = c,
         wm \in [Pools -> [Bytes -> 0 .. N]], \A n \in 1 .. N : vnodes[n] = nodes[n], N \in Nat,
         ListsHold(w, wm, c, nodes)
  PROVE  ListsHold(v, wm, d, vnodes)
<1>1. ASSUME NEW p \in Pools, NEW b \in Bytes PROVE ListAt(v, wm[p][b], d, vnodes[wm[p][b]].kind = "obs", p, b)
  <2>1. PICK m : m = wm[p][b]
    OBVIOUS
  <2>2. m = 0 \/ vnodes[m] = nodes[m]
    BY <2>1
  <2>3. PICK o, u : o = (nodes[m].kind = "obs") /\ u = (vnodes[m].kind = "obs")
    OBVIOUS
  <2>4. m # 0 => (o <=> u)
    BY <2>2, <2>3
  <2>5. ListAt(w, m, c, o, p, b)
    BY <2>1, <2>3 DEF ListsHold
  <2>6. ValuesAt(v.pending[p], b) = ValuesAt(w.pending[p], b) /\ ValuesAt(v.writes[p], b) = ValuesAt(w.writes[p], b)
    BY DEF SameLists
  <2>7. d = c \/ ValuesAt(w.pending[p], b) = {}
    BY DEF Quiet
  <2>8. ListAt(v, m, d, u, p, b)
    BY <2>4, <2>5, <2>6, <2>7 DEF ListAt
  <2>9. QED
    BY <2>1, <2>3, <2>8
<1>2. QED
  BY <1>1 DEF ListsHold

\* What is known or coming stays so with the same lists, when the current
\* node stays or nothing is pending.
LEMMA DepsKept ==
  ASSUME NEW w, NEW v, NEW c, NEW d, NEW n, NEW m, SameLists(w, v), Quiet(w) \/ d = c, v.acc = w.acc,
         MemDep(w, c, n, m)
  PROVE  MemDep(v, d, n, m)
<1>1. CASE m \in DepsOf(w.acc, n)
  BY <1>1 DEF MemDep
<1>2. CASE m \notin DepsOf(w.acc, n)
  <2>1. n = c
    BY <1>2 DEF MemDep, MemComing
  <2>2. PICK p \in Pools, b \in Bytes : "R" \in ValuesAt(w.pending[p], b) /\ m \in ValuesAt(w.writes[p], b)
    BY <1>2 DEF MemDep, MemComing
  <2>3. "R" \in ValuesAt(v.pending[p], b) /\ m \in ValuesAt(v.writes[p], b)
    BY <2>2 DEF SameLists
  <2>4. d = c
    BY <2>2 DEF Quiet
  <2>5. QED
    BY <2>1, <2>3, <2>4 DEF MemDep, MemComing
<1>3. QED
  BY <1>1, <1>2

\* Equal lists say the same.
LEMMA SameIs ==
  ASSUME NEW w, NEW v, v.pending = w.pending, v.writes = w.writes
  PROVE  SameLists(w, v)
  BY DEF SameLists

\* A slice has natural numbers as its ends.
LEMMA SpanIs ==
  ASSUME NEW x \in Spans
  PROVE  x[1] \in Nat /\ x[2] \in Nat /\ x[1] <= x[2]
<1>1. x \in Nat \X Nat /\ x[1] <= x[2]
  BY GraphAssumption
<1>2. QED
  BY <1>1

\* What a slice access does to the lists at an address.
SlicedAt(w, v, p, x, F, q, b) ==
  /\ ValuesAt(v.writes[q], b) = ValuesAt(w.writes[q], b)
  /\ ValuesAt(w.pending[q], b) \in PendingModes \cup {{}}
  /\ q # p \/ b \notin Covered(x) => ValuesAt(v.pending[q], b) = ValuesAt(w.pending[q], b)
  /\ q = p /\ b \in Covered(x) => ValuesAt(v.pending[q], b) = F[ValuesAt(w.pending[q], b)]

\* An access to a slice, address by address.
LEMMA SliceAt ==
  ASSUME NEW w, NEW N \in Nat, MemType(w, N), NEW v, NEW p \in Pools, NEW x \in Spans,
         NEW F, Sliced(w, p, x[1], x[2], F, v), NEW q \in Pools, NEW b \in Bytes
  PROVE  SlicedAt(w, v, p, x, F, q, b)
<1>1. b \in Nat
  BY ByteIsNat
<1>2. ValuesAt(w.pending[q], b) \in PendingModes \cup {{}}
  BY <1>1, PendingValues DEF MemType
<1>3. ValuesAt(v.writes[q], b) = ValuesAt(w.writes[q], b)
  BY DEF Sliced
<1>4. b \in Covered(x) <=> x[1] <= b /\ b < x[2]
  BY DEF Covered
<1>5. QED
  BY <1>1, <1>2, <1>3, <1>4 DEF Sliced, SlicedAt

\* A new row of last writers.
LEMMA WroteIs ==
  ASSUME NEW a, NEW m, NEW f, a = [memory |-> m, field |-> f], NEW p, NEW row
  PROVE  [a EXCEPT !.memory[p] = row] = [memory |-> [m EXCEPT ![p] = row], field |-> f]
  OBVIOUS

\* The modes that reads and writes leave.
LEMMA ModesAfter ==
  ASSUME NEW mode \in PendingModes \cup {{}}
  PROVE  /\ "W" \in AddRead[mode] <=> "W" \in mode
         /\ "R" \in mode => "R" \in AddRead[mode]
         /\ "W" \notin mode => "R" \in AddRead[mode]
         /\ "W" \in AddWrite[mode]
         /\ "R" \in mode => "R" \in AddWrite[mode]
  BY Updaters

\* An access to a slice leaves what is known or coming.
LEMMA SliceDeps ==
  ASSUME NEW w, NEW N \in Nat, MemType(w, N), NEW v, NEW p \in Pools, NEW x \in Spans,
         NEW F \in {AddRead, AddWrite}, Sliced(w, p, x[1], x[2], F, v), NEW c, NEW n, NEW m, MemDep(w, c, n, m)
  PROVE  MemDep(v, c, n, m)
<1>1. v.acc = w.acc
  BY DEF Sliced
<1>2. CASE m \in DepsOf(w.acc, n)
  BY <1>1, <1>2 DEF MemDep
<1>3. CASE m \notin DepsOf(w.acc, n)
  <2>1. n = c
    BY <1>3 DEF MemDep, MemComing
  <2>2. PICK q \in Pools, b \in Bytes : "R" \in ValuesAt(w.pending[q], b) /\ m \in ValuesAt(w.writes[q], b)
    BY <1>3 DEF MemDep, MemComing
  <2>3. PICK A, B, C : A = ValuesAt(w.pending[q], b) /\ B = ValuesAt(v.pending[q], b) /\ C = ValuesAt(v.writes[q], b)
    OBVIOUS
  <2>4. /\ C = ValuesAt(w.writes[q], b) /\ A \in PendingModes \cup {{}}
        /\ B = A \/ B = F[A]
    <3>1. SlicedAt(w, v, p, x, F, q, b)
      BY SliceAt
    <3>2. QED
      BY <2>3, <3>1 DEF SlicedAt
  <2>5. "R" \in AddRead[A] /\ "R" \in AddWrite[A]
    BY <2>2, <2>3, <2>4, ModesAfter
  <2>6. "R" \in B /\ m \in C
    BY <2>2, <2>3, <2>4, <2>5
  <2>7. QED
    BY <2>1, <2>3, <2>6 DEF MemDep, MemComing
<1>4. QED
  BY <1>2, <1>3

\* More nodes: what the old ones are stays.
LEMMA ListsMore ==
  ASSUME NEW w, NEW wm, NEW nodes, NEW vnodes, NEW c, NEW N \in Nat, wm \in [Pools -> [Bytes -> 0 .. N]],
         \A n \in 1 .. N : vnodes[n] = nodes[n], ListsHold(w, wm, c, nodes)
  PROVE  ListsHold(w, wm, c, vnodes)
<1>1. SameLists(w, w)
  BY SameIs
<1>2. QED
  BY <1>1, ListsKept

\* Last writers are nodes when there are more nodes.
LEMMA RowGrows ==
  ASSUME NEW n \in Nat, NEW k \in Nat, NEW wm \in [Pools -> [Bytes -> 0 .. n]]
  PROVE  wm \in [Pools -> [Bytes -> 0 .. n + k]]
<1>1. 0 .. n \subseteq 0 .. n + k
  OBVIOUS
<1>2. QED
  BY <1>1

\* The last observation that covers an address is one of them.
LEMMA HitsIn ==
  ASSUME NEW obs, NEW k \in Nat, NEW b, Hits(obs, k, b) # {}
  PROVE  Max(Hits(obs, k, b)) \in 1 .. k
<1>1. Hits(obs, k, b) \subseteq 0 .. k /\ Hits(obs, k, b) \subseteq 1 .. k
  BY DEF Hits
<1>2. Max(Hits(obs, k, b)) \in Hits(obs, k, b)
  BY <1>1, ObsFold!GreatestProperties DEF Max, ObsFold!Greatest
<1>3. QED
  BY <1>1, <1>2

\* The row of the last writers after the observations.
RowAfter(row, obs, n, k) ==
  [b \in Bytes |-> IF Hits(obs, k, b) = {} THEN row[b] ELSE n + Max(Hits(obs, k, b))]

\* The last writers after observations are nodes.
LEMMA RowAfterIs ==
  ASSUME NEW n \in Nat, NEW k \in Nat, NEW obs, NEW row \in [Bytes -> 0 .. n]
  PROVE  RowAfter(row, obs, n, k) \in [Bytes -> 0 .. n + k]
<1>1. ASSUME NEW b \in Bytes
      PROVE  (IF Hits(obs, k, b) = {} THEN row[b] ELSE n + Max(Hits(obs, k, b))) \in 0 .. n + k
  <2>1. CASE Hits(obs, k, b) = {}
    <3>1. row[b] \in 0 .. n
      OBVIOUS
    <3>2. row[b] \in 0 .. n + k
      BY <3>1
    <3>3. QED
      BY <2>1, <3>2
  <2>2. CASE Hits(obs, k, b) # {}
    <3>1. PICK h \in 1 .. k : h = Max(Hits(obs, k, b))
      BY <2>2, HitsIn
    <3>2. n + h \in 0 .. n + k
      OBVIOUS
    <3>3. QED
      BY <2>2, <3>1, <3>2
  <2>3. QED
    BY <2>1, <2>2
<1>2. QED
  BY <1>1 DEF RowAfter

\* The lists after the observations.
LEMMA ListsObserved ==
  ASSUME NEW u, NEW v, NEW obs, NEW n \in Nat, NEW k \in Nat, NEW c, NEW nodes, NEW vnodes,
         NEW wm \in [Pools -> [Bytes -> 0 .. n]], NEW vm, vm = [wm EXCEPT ![0] = RowAfter(wm[0], obs, n, k)],
         ListsHold(u, wm, c, nodes), Observed(u, v, obs, n, k), Quiet(u) \/ k = 0,
         \A i \in 1 .. n : vnodes[i] = nodes[i]
  PROVE  ListsHold(v, vm, c, vnodes)
<1>1. ASSUME NEW p \in Pools, NEW b \in Bytes
      PROVE  ListAt(v, vm[p][b], c, vnodes[vm[p][b]].kind = "obs", p, b)
  <2>1. PICK m, o : m = vm[p][b] /\ o = (vnodes[m].kind = "obs")
    OBVIOUS
  <2>2. b \in Nat /\ ValuesAt(v.pending[p], b) = ValuesAt(u.pending[p], b)
    BY ByteIsNat DEF Observed
  <2>3. CASE p = 0 /\ Hits(obs, k, b) # {}
    <3>1. PICK h \in 1 .. k : h = Max(Hits(obs, k, b))
      BY <2>3, HitsIn
    <3>2. m = n + h
      BY <2>1, <2>3, <3>1 DEF RowAfter
    <3>3. ValuesAt(v.writes[p], b) = {m}
      BY <2>2, <2>3, <3>1, <3>2 DEF Observed
    <3>4. k # 0
      BY <3>1
    <3>5. ValuesAt(v.pending[p], b) = {}
      BY <2>2, <3>4 DEF Quiet
    <3>6. ListAt(v, m, c, o, p, b)
      BY <2>3, <3>3, <3>5 DEF ListAt
    <3>7. QED
      BY <2>1, <3>6
  <2>4. CASE ~(p = 0 /\ Hits(obs, k, b) # {})
    <3>1. m = wm[p][b] /\ m \in 0 .. n
      <4>1. CASE p = 0
        BY <2>1, <2>4, <4>1 DEF RowAfter
      <4>2. CASE p # 0
        BY <2>1, <4>2
      <4>3. QED
        BY <4>1, <4>2
    <3>2. ValuesAt(v.writes[p], b) = ValuesAt(u.writes[p], b)
      BY <2>2, <2>4 DEF Observed
    <3>3. PICK i : i = (nodes[m].kind = "obs")
      OBVIOUS
    <3>4. m # 0 => (i <=> o)
      BY <2>1, <3>1, <3>3
    <3>5. ListAt(u, m, c, i, p, b)
      BY <3>1, <3>3 DEF ListsHold
    <3>6. ListAt(v, m, c, o, p, b)
      BY <2>2, <3>2, <3>4, <3>5 DEF ListAt
    <3>7. QED
      BY <2>1, <3>6
  <2>5. QED
    BY <2>3, <2>4
<1>2. QED
  BY <1>1 DEF ListsHold

\* Observations leave what is known or coming.
LEMMA DepsObserved ==
  ASSUME NEW u, NEW v, NEW obs, NEW n \in Nat, NEW k \in Nat, NEW c, NEW i, NEW m,
         Observed(u, v, obs, n, k), Quiet(u) \/ k = 0, MemDep(u, c, i, m)
  PROVE  MemDep(v, c, i, m)
<1>1. v.acc = u.acc
  BY DEF Observed
<1>2. CASE Quiet(u)
  BY <1>1, <1>2, QuietDeps DEF MemDep
<1>3. CASE k = 0
  <2>1. SameLists(u, v)
    <3>1. ASSUME NEW p \in Pools, NEW b \in Bytes
          PROVE  ValuesAt(v.pending[p], b) = ValuesAt(u.pending[p], b) /\ ValuesAt(v.writes[p], b) = ValuesAt(u.writes[p], b)
      <4>1. Hits(obs, k, b) = {} /\ b \in Nat
        BY <1>3, ByteIsNat DEF Hits
      <4>2. QED
        BY <4>1 DEF Observed
    <3>2. QED
      BY <3>1 DEF SameLists
  <2>2. QED
    BY <1>1, <2>1, DepsKept
<1>4. QED
  BY <1>2, <1>3

-----------------------------------------------------------------------------
(***************************************************************************)
(* The fragment watcher: its writers, its accesses, its flush.             *)
(***************************************************************************)
\* The fields and the whole object.
FragSet == Frags \cup {Complete}

\* The accesses to a field: one entry for every depth.
FragAccessType(a) ==
  /\ a = [stack |-> a.stack, pending |-> a.pending]
  /\ DOMAIN a.stack = 0 .. MaxDepth /\ a.pending \subseteq {"R", "W"}

\* The writers of the fields and the list of the nodes that wrote.
WritesBase(ws, N) ==
  /\ ws = [frags |-> ws.frags, nodeSlice |-> ws.nodeSlice, nodeSet |-> ws.nodeSet]
  /\ \A f \in DOMAIN ws.frags : ws.frags[f] \in 1 .. N
  /\ ws.nodeSlice \in Seq(1 .. N)
  /\ IsFiniteSet(DOMAIN ws.nodeSet) /\ Cardinality(DOMAIN ws.nodeSet) = Len(ws.nodeSlice)

\* The list is empty only if no field was written.
WritesType(ws, N) == WritesBase(ws, N) /\ (DOMAIN ws.frags # {} => ws.nodeSlice # <<>>)

\* The fragment watcher, with N nodes.
FragType(w, N) ==
  /\ w = [access |-> w.access, pending |-> w.pending, acc |-> w.acc, writes |-> w.writes]
  /\ DOMAIN w.access \subseteq FragSet /\ \A f \in DOMAIN w.access : FragAccessType(w.access[f])
  /\ w.pending \in Seq(FragSet) /\ \A i \in 1 .. Len(w.pending) : w.pending[i] \in DOMAIN w.access
  /\ AccType(w.acc, N) /\ WritesType(w.writes, N)

\* The pending modes of field f.
FragPending(w, f) == IF f \in DOMAIN w.access THEN w.access[f].pending ELSE {}

\* The last writer of field f that was flushed, or 0.
FragWriter(w, f) == IF f \in DOMAIN w.writes.frags THEN w.writes.frags[f] ELSE 0

\* What is pending is listed as such.
InList(s, k, f) == \E i \in 1 .. k : s[i] = f

\* A field with pending modes is in the list of pending fields.
Listed(w) == \A f \in DOMAIN w.access : w.access[f].pending # {} => InList(w.pending, Len(w.pending), f)

\* A writers' record, field by field.
WritesRec(v, frags, slice, set) ==
  /\ v.frags = frags /\ v.nodeSlice = slice /\ v.nodeSet = set
  /\ v = [frags |-> v.frags, nodeSlice |-> v.nodeSlice, nodeSet |-> v.nodeSet]

\* The parts of the writers of fields.
LEMMA WritesFields ==
  ASSUME NEW v, NEW frags, NEW slice, NEW set, v = [frags |-> frags, nodeSlice |-> slice, nodeSet |-> set]
  PROVE  WritesRec(v, frags, slice, set)
  BY DEF WritesRec

\* The set of nodes after an entry for n is changed or added.
LEMMA SetKnown ==
  ASSUME NEW m, NEW n \in DOMAIN m, NEW x
  PROVE  DOMAIN Set(m, n, x) = DOMAIN m
<1>1. DOMAIN Set(m, n, x) = DOMAIN m \cup {n}
  BY SetIs
<1>2. QED
  BY <1>1

\* The values of a map after an assignment.
LEMMA SetValues ==
  ASSUME NEW m, NEW k, NEW T, NEW v \in T, \A x \in DOMAIN m : m[x] \in T
  PROVE  \A x \in DOMAIN Set(m, k, v) : Set(m, k, v)[x] \in T
  BY DEF Set

\* A node that is in the set of nodes already leaves its size.
LEMMA SameSize ==
  ASSUME NEW N, NEW ws, WritesBase(ws, N), NEW v, NEW set, DOMAIN set = DOMAIN ws.nodeSet,
         WritesRec(v, ws.frags, ws.nodeSlice, set)
  PROVE  WritesBase(v, N) /\ v.frags = ws.frags /\ v.nodeSlice = ws.nodeSlice
  BY DEF WritesBase, WritesRec

\* A list without its last element, after the last one took the place i.
LEMMA Shorter ==
  ASSUME NEW S, NEW s \in Seq(S), Len(s) > 0, NEW t, t = s \/ \E i : t = [s EXCEPT ![i] = s[Len(s)]]
  PROVE  Front(t) \in Seq(S) /\ Len(Front(t)) = Len(s) - 1
<1>1. PICK m \in Nat : m = Len(s) /\ m > 0
  OBVIOUS
<1>2. t \in Seq(S) /\ Len(t) = m
  <2>1. s[m] \in S
    BY <1>1
  <2>2. CASE t = s
    BY <1>1, <2>2
  <2>3. ASSUME NEW i, t = [s EXCEPT ![i] = s[Len(s)]] PROVE t \in Seq(S) /\ Len(t) = m
    <3>1. PICK x \in S : x = s[m]
      BY <2>1
    <3>2. t = [s EXCEPT ![i] = x]
      BY <1>1, <2>3, <3>1
    <3>3. CASE i \in 1 .. m
      BY <1>1, <3>2, <3>3, SeqExcept
    <3>4. CASE i \notin 1 .. m
      <4>1. t = s
        BY <1>1, <3>2, <3>4
      <4>2. QED
        BY <1>1, <4>1
    <3>5. QED
      BY <3>3, <3>4
  <2>4. QED
    BY <2>2, <2>3
<1>3. Front(t) = SubSeq(t, 1, m - 1)
  BY <1>2 DEF Front
<1>4. SubSeq(t, 1, m - 1) \in Seq(S) /\ Len(SubSeq(t, 1, m - 1)) = m - 1
  BY <1>1, <1>2, ButLastIs
<1>5. QED
  BY <1>1, <1>3, <1>4

\* Forget keeps the writers of the fields.
LEMMA ForgetIs ==
  ASSUME NEW N \in Nat, NEW ws, WritesBase(ws, N), NEW n
  PROVE  WritesBase(Forget(ws, n), N) /\ Forget(ws, n).frags = ws.frags
<1>1. CASE n \notin DOMAIN ws.nodeSet
  BY <1>1 DEF Forget
<1>2. CASE n \in DOMAIN ws.nodeSet
  <2>1. PICK e, last : e = ws.nodeSet[n] /\ last = Len(ws.nodeSlice)
    OBVIOUS
  <2>2. ws = [frags |-> ws.frags, nodeSlice |-> ws.nodeSlice, nodeSet |-> ws.nodeSet]
    BY DEF WritesBase
  <2>3. CASE e.count > 1
    <3>1. PICK set : set = Set(ws.nodeSet, n, [e EXCEPT !.count = @ - 1])
      OBVIOUS
    <3>2. Forget(ws, n) = [ws EXCEPT !.nodeSet = set]
      BY <1>2, <2>1, <2>3, <3>1 DEF Forget
    <3>3. [ws EXCEPT !.nodeSet = set] = [frags |-> ws.frags, nodeSlice |-> ws.nodeSlice, nodeSet |-> set]
      BY <2>2
    <3>4. DOMAIN set = DOMAIN ws.nodeSet
      BY <1>2, <3>1, SetKnown
    <3>5. PICK v : v = Forget(ws, n)
      OBVIOUS
    <3>6. WritesRec(v, ws.frags, ws.nodeSlice, set)
      BY <3>2, <3>3, <3>5, WritesFields, Zenon
    <3>7. WritesBase(v, N) /\ v.frags = ws.frags
      BY <3>4, <3>6, SameSize
    <3>8. QED
      BY <3>5, <3>7
  <2>4. CASE ~(e.count > 1)
    <3>1. PICK t, set : /\ t = (IF e.index < last THEN [ws.nodeSlice EXCEPT ![e.index] = ws.nodeSlice[last]]
                                ELSE ws.nodeSlice)
                        /\ set = Restrict(ws.nodeSet, DOMAIN ws.nodeSet \ {n})
      OBVIOUS
    <3>2. PICK v, slice : v = Forget(ws, n) /\ slice = Front(t)
      OBVIOUS
    <3>3. v = [frags |-> ws.frags, nodeSlice |-> slice, nodeSet |-> set]
      <4>1. v = [ws EXCEPT !.nodeSet = set, !.nodeSlice = slice]
        BY <1>2, <2>1, <2>4, <3>1, <3>2 DEF Forget
      <4>2. QED
        BY <2>2, <4>1
    <3>4. PICK S : S = DOMAIN ws.nodeSet
      OBVIOUS
    <3>5. IsFiniteSet(S) /\ Cardinality(S) = last /\ ws.nodeSlice \in Seq(1 .. N) /\ n \in S
      BY <1>2, <2>1, <3>4 DEF WritesBase
    <3>6. IsFiniteSet(S \ {n}) /\ Cardinality(S \ {n}) = last - 1
      BY <3>5, FS_RemoveElement
    <3>7. last \in Nat /\ last > 0
      <4>1. last \in Nat
        BY <2>1, <3>5
      <4>2. last # 0
        BY <3>5, FS_EmptySet
      <4>3. QED
        BY <4>1, <4>2
    <3>8. Front(t) \in Seq(1 .. N) /\ Len(Front(t)) = last - 1
      <4>1. PICK s \in Seq(1 .. N) : s = ws.nodeSlice
        BY <3>5
      <4>2. Len(s) > 0 /\ (t = s \/ \E i : t = [s EXCEPT ![i] = s[Len(s)]])
        BY <2>1, <3>1, <3>7, <4>1
      <4>3. Front(t) \in Seq(1 .. N) /\ Len(Front(t)) = Len(s) - 1
        BY <4>2, Shorter
      <4>4. QED
        BY <2>1, <4>1, <4>3
    <3>9. DOMAIN set = S \ {n}
      BY <3>1, <3>4, WithoutIs
    <3>11. WritesRec(v, ws.frags, slice, set)
      BY <3>3, WritesFields, Zenon
    <3>12. /\ v.frags = ws.frags /\ v.nodeSlice = slice /\ v.nodeSet = set
           /\ v = [frags |-> v.frags, nodeSlice |-> v.nodeSlice, nodeSet |-> v.nodeSet]
      BY <3>11, Zenon DEF WritesRec
    <3>13. slice \in Seq(1 .. N) /\ Len(slice) = last - 1
      BY <3>2, <3>8, Zenon
    <3>14. IsFiniteSet(DOMAIN set) /\ Cardinality(DOMAIN set) = Len(slice)
      BY <3>6, <3>9, <3>13, Zenon
    <3>15. \A f \in DOMAIN ws.frags : ws.frags[f] \in 1 .. N
      BY DEF WritesBase
    <3>16. WritesBase(v, N)
      BY <3>12, <3>13, <3>14, <3>15 DEF WritesBase
    <3>17. QED
      BY <3>2, <3>12, <3>16, Zenon
  <2>5. QED
    BY <2>3, <2>4
<1>3. QED
  BY <1>1, <1>2

\* Remember keeps them and has its node in the list.
LEMMA RememberIs ==
  ASSUME NEW N \in Nat, NEW ws, WritesBase(ws, N), NEW n \in 1 .. N
  PROVE  /\ WritesBase(Remember(ws, n), N) /\ Remember(ws, n).frags = ws.frags
         /\ Remember(ws, n).nodeSlice # <<>>
<1>1. ws = [frags |-> ws.frags, nodeSlice |-> ws.nodeSlice, nodeSet |-> ws.nodeSet]
  BY DEF WritesBase
<1>2. PICK S, m : S = DOMAIN ws.nodeSet /\ m = Len(ws.nodeSlice)
  OBVIOUS
<1>3. IsFiniteSet(S) /\ Cardinality(S) = m /\ ws.nodeSlice \in Seq(1 .. N) /\ m \in Nat
  BY <1>2 DEF WritesBase
<1>4. PICK v : v = Remember(ws, n)
  OBVIOUS
<1>5. CASE n \in DOMAIN ws.nodeSet
  <2>1. PICK set : set = Set(ws.nodeSet, n, [ws.nodeSet[n] EXCEPT !.count = @ + 1])
    OBVIOUS
  <2>2. v = [ws EXCEPT !.nodeSet = set]
    BY <1>4, <1>5, <2>1 DEF Remember
  <2>3. v = [frags |-> ws.frags, nodeSlice |-> ws.nodeSlice, nodeSet |-> set]
    BY <1>1, <2>2
  <2>4. DOMAIN set = DOMAIN ws.nodeSet
    BY <1>5, <2>1, SetKnown
  <2>5. WritesRec(v, ws.frags, ws.nodeSlice, set)
    BY <2>3, WritesFields, Zenon
  <2>6. WritesBase(v, N) /\ v.frags = ws.frags /\ v.nodeSlice = ws.nodeSlice
    BY <2>4, <2>5, SameSize
  <2>7. m # 0
    BY <1>2, <1>3, <1>5, FS_EmptySet
  <2>8. ws.nodeSlice # <<>>
    BY <1>2, <2>7
  <2>9. QED
    BY <1>4, <2>6, <2>8
<1>6. CASE n \notin DOMAIN ws.nodeSet
  <2>1. PICK set, slice : /\ set = Set(ws.nodeSet, n, [count |-> 1, index |-> m + 1])
                          /\ slice = Append(ws.nodeSlice, n)
    OBVIOUS
  <2>2. v = [ws EXCEPT !.nodeSlice = slice, !.nodeSet = set]
    BY <1>2, <1>4, <1>6, <2>1 DEF Remember
  <2>3. v = [frags |-> ws.frags, nodeSlice |-> slice, nodeSet |-> set]
    BY <1>1, <2>2
  <2>4. WritesRec(v, ws.frags, slice, set)
    BY <2>3, WritesFields, Zenon
  <2>5. DOMAIN set = S \cup {n}
    BY <1>2, <2>1, SetIs
  <2>6. IsFiniteSet(S \cup {n}) /\ Cardinality(S \cup {n}) = m + 1
    BY <1>2, <1>3, <1>6, FS_AddElement
  <2>7. slice \in Seq(1 .. N) /\ Len(slice) = m + 1 /\ slice # <<>>
    <3>1. slice \in Seq(1 .. N) /\ Len(slice) = m + 1
      BY <1>2, <1>3, <2>1, AppendIs
    <3>2. QED
      BY <1>3, <3>1
  <2>8. /\ v.frags = ws.frags /\ v.nodeSlice = slice /\ v.nodeSet = set
        /\ v = [frags |-> v.frags, nodeSlice |-> v.nodeSlice, nodeSet |-> v.nodeSet]
    BY <2>4, Zenon DEF WritesRec
  <2>9. IsFiniteSet(DOMAIN set) /\ Cardinality(DOMAIN set) = Len(slice)
    BY <2>5, <2>6, <2>7, Zenon
  <2>10. \A f \in DOMAIN ws.frags : ws.frags[f] \in 1 .. N
    BY DEF WritesBase
  <2>11. WritesBase(v, N)
    BY <2>7, <2>8, <2>9, <2>10 DEF WritesBase
  <2>12. QED
    BY <1>4, <2>7, <2>8, <2>11, Zenon
<1>7. QED
  BY <1>5, <1>6

\* The writers with a new one of field frag.
SetFrags(ws, h, n) == [ws EXCEPT !.frags = Set(@, h, n)]

\* They stay typed.
LEMMA FragsSet ==
  ASSUME NEW N \in Nat, NEW ws, WritesBase(ws, N), NEW n \in 1 .. N, NEW h
  PROVE  /\ WritesBase(SetFrags(ws, h, n), N) /\ SetFrags(ws, h, n).frags = Set(ws.frags, h, n)
         /\ SetFrags(ws, h, n).nodeSlice = ws.nodeSlice
<1>1. ws = [frags |-> ws.frags, nodeSlice |-> ws.nodeSlice, nodeSet |-> ws.nodeSet]
  BY DEF WritesBase
<1>2. PICK frags : frags = Set(ws.frags, h, n)
  OBVIOUS
<1>3. \A f \in DOMAIN frags : frags[f] \in 1 .. N
  <2>1. \A f \in DOMAIN ws.frags : ws.frags[f] \in 1 .. N
    BY DEF WritesBase
  <2>2. \A f \in DOMAIN Set(ws.frags, h, n) : Set(ws.frags, h, n)[f] \in 1 .. N
    BY <2>1, SetValues
  <2>3. QED
    BY <1>2, <2>2, Zenon
<1>4. PICK v : v = SetFrags(ws, h, n)
  OBVIOUS
<1>5. v = [frags |-> frags, nodeSlice |-> ws.nodeSlice, nodeSet |-> ws.nodeSet]
  BY <1>1, <1>2, <1>4 DEF SetFrags
<1>6. WritesRec(v, frags, ws.nodeSlice, ws.nodeSet)
  BY <1>5, WritesFields, Zenon
<1>7. WritesBase(v, N) /\ v.frags = frags /\ v.nodeSlice = ws.nodeSlice
  BY <1>3, <1>6 DEF WritesBase, WritesRec
<1>8. QED
  BY <1>2, <1>4, <1>7, Zenon

\* A write of a field makes its node the writer.
LEMMA FlushWriteIs ==
  ASSUME NEW N \in Nat, NEW ws, WritesType(ws, N), NEW n \in 1 .. N, NEW h
  PROVE  /\ WritesType(FlushNonCompleteWrite(ws, h, n), N)
         /\ FlushNonCompleteWrite(ws, h, n).frags = Set(ws.frags, h, n)
<1>1. WritesBase(ws, N) /\ (DOMAIN ws.frags # {} => ws.nodeSlice # <<>>)
  BY DEF WritesType
<1>2. PICK set, v : set = SetFrags(ws, h, n) /\ v = FlushNonCompleteWrite(ws, h, n)
  OBVIOUS
<1>3. WritesBase(set, N) /\ set.frags = Set(ws.frags, h, n) /\ set.nodeSlice = ws.nodeSlice
  BY <1>1, <1>2, FragsSet
<1>4. v = IF h \notin DOMAIN ws.frags THEN Remember(set, n)
          ELSE IF ws.frags[h] = n THEN set ELSE Remember(Forget(set, ws.frags[h]), n)
  BY <1>2 DEF FlushNonCompleteWrite, SetFrags
<1>5. WritesBase(v, N) /\ v.frags = set.frags /\ v.nodeSlice # <<>>
  <2> HIDE <1>2
  <2>1. CASE h \notin DOMAIN ws.frags
    BY <1>3, <1>4, <2>1, RememberIs
  <2>2. CASE h \in DOMAIN ws.frags /\ ws.frags[h] = n
    BY <1>1, <1>3, <1>4, <2>2
  <2>3. CASE h \in DOMAIN ws.frags /\ ws.frags[h] # n
    <3>1. PICK u : u = Forget(set, ws.frags[h])
      OBVIOUS
    <3>2. WritesBase(u, N) /\ u.frags = set.frags
      BY <1>3, <3>1, ForgetIs
    <3>3. v = Remember(u, n)
      BY <1>4, <2>3, <3>1
    <3>4. QED
      BY <3>2, <3>3, RememberIs
  <2>4. QED
    BY <2>1, <2>2, <2>3
<1>6. QED
  BY <1>2, <1>3, <1>5 DEF WritesType

\* A write of the whole object is noted as one.
LEMMA CompleteWriteIs ==
  ASSUME NEW N \in Nat, NEW ws, WritesType(ws, N), NEW n \in 1 .. N
  PROVE  /\ WritesType(FlushCompleteWrite(ws, n), N)
         /\ FlushCompleteWrite(ws, n).frags = Set(ws.frags, Complete, n)
<1>1. PICK frags, set, v : /\ frags = Set(ws.frags, Complete, n) /\ set = Set(<<>>, n, [count |-> 1, index |-> 1])
                           /\ v = FlushCompleteWrite(ws, n)
  OBVIOUS
<1>2. v = [frags |-> frags, nodeSlice |-> <<n>>, nodeSet |-> set]
  BY <1>1 DEF FlushCompleteWrite
<1>3. /\ v.frags = frags /\ v.nodeSlice = <<n>> /\ v.nodeSet = set
      /\ v = [frags |-> v.frags, nodeSlice |-> v.nodeSlice, nodeSet |-> v.nodeSet]
  BY <1>2
<1>4. \A f \in DOMAIN frags : frags[f] \in 1 .. N
  <2>1. \A f \in DOMAIN ws.frags : ws.frags[f] \in 1 .. N
    BY DEF WritesType, WritesBase
  <2>2. \A f \in DOMAIN Set(ws.frags, Complete, n) : Set(ws.frags, Complete, n)[f] \in 1 .. N
    BY <2>1, SetValues
  <2>3. QED
    BY <1>1, <2>2, Zenon
<1>5. DOMAIN set = {n}
  <2>1. DOMAIN set = DOMAIN <<>> \cup {n}
    BY <1>1, SetIs
  <2>2. QED
    BY <2>1
<1>6. IsFiniteSet({n}) /\ Cardinality({n}) = 1
  BY FS_Singleton
<1>7. <<n>> \in Seq(1 .. N) /\ Len(<<n>>) = 1 /\ <<n>> # <<>>
  OBVIOUS
<1>8. WritesType(v, N)
  BY <1>3, <1>4, <1>5, <1>6, <1>7 DEF WritesType, WritesBase
<1>9. QED
  BY <1>1, <1>3, <1>8, Zenon

\* A fragment watcher, field by field.
FragRec(v, access, pending, acc, writes) ==
  /\ v.access = access /\ v.pending = pending /\ v.acc = acc /\ v.writes = writes
  /\ v = [access |-> v.access, pending |-> v.pending, acc |-> v.acc, writes |-> v.writes]

\* The parts of a fragment watcher.
LEMMA FragFields ==
  ASSUME NEW v, NEW access, NEW pending, NEW acc, NEW writes,
         v = [access |-> access, pending |-> pending, acc |-> acc, writes |-> writes]
  PROVE  FragRec(v, access, pending, acc, writes)
  BY DEF FragRec

\* The parts of FragType.
AccessMap(access) == DOMAIN access \subseteq FragSet /\ \A f \in DOMAIN access : FragAccessType(access[f])

\* The pending fields have accesses.
PendingFrags(s, access) == s \in Seq(FragSet) /\ \A i \in 1 .. Len(s) : s[i] \in DOMAIN access

\* The type of the fragment watcher, part by part.
LEMMA FragParts ==
  ASSUME NEW w, NEW N
  PROVE  FragType(w, N) <=>
           /\ w = [access |-> w.access, pending |-> w.pending, acc |-> w.acc, writes |-> w.writes]
           /\ AccessMap(w.access) /\ PendingFrags(w.pending, w.access) /\ AccType(w.acc, N) /\ WritesType(w.writes, N)
  BY DEF FragType, AccessMap, PendingFrags

\* A watcher from its fields.
LEMMA FragMade ==
  ASSUME NEW N, NEW v, NEW access, NEW pending, NEW acc, NEW writes, FragRec(v, access, pending, acc, writes),
         AccessMap(access), PendingFrags(pending, access), AccType(acc, N), WritesType(writes, N)
  PROVE  FragType(v, N)
<1>1. /\ v.access = access /\ v.pending = pending /\ v.acc = acc /\ v.writes = writes
      /\ v = [access |-> v.access, pending |-> v.pending, acc |-> v.acc, writes |-> v.writes]
  BY Zenon DEF FragRec
<1>2. AccessMap(v.access) /\ PendingFrags(v.pending, v.access) /\ AccType(v.acc, N) /\ WritesType(v.writes, N)
  BY <1>1, Zenon
<1>3. QED
  BY <1>1, <1>2, FragParts

\* Dependencies are nodes when there are more nodes.
LEMMA AccTypeGrow ==
  ASSUME NEW n \in Nat, NEW k \in Nat, n <= k, NEW acc, AccType(acc, n)
  PROVE  AccType(acc, k)
  BY DEF AccType

\* The writers of fields stay typed when there are more nodes.
LEMMA WritesGrow ==
  ASSUME NEW n \in Nat, NEW k \in Nat, n <= k, NEW ws, WritesType(ws, n)
  PROVE  WritesType(ws, k)
<1>1. 1 .. n \subseteq 1 .. k
  OBVIOUS
<1>2. ws.nodeSlice \in Seq(1 .. k)
  BY <1>1, SeqMonotonic DEF WritesType, WritesBase
<1>3. QED
  BY <1>1, <1>2 DEF WritesType, WritesBase

\* The fragment watcher stays typed when there are more nodes.
LEMMA FragGrow ==
  ASSUME NEW n \in Nat, NEW k \in Nat, n <= k, NEW w, FragType(w, n)
  PROVE  FragType(w, k)
  BY AccTypeGrow, WritesGrow DEF FragType

\* b is a after an access of the given mode by node n at depth d.
AccessAdded(a, b, d, n, mode) ==
  /\ FragAccessType(b) /\ b.pending = a.pending \cup {mode}
  /\ b.stack[d] = [node |-> n, mode |-> {mode} \cup (IF a.stack[d].node = n THEN a.stack[d].mode ELSE {})]
  /\ \A c \in 0 .. MaxDepth : c # d => b.stack[c] = a.stack[c]

\* What AddAccess does to the accesses of a field.
LEMMA AddAccessIs ==
  ASSUME NEW a, FragAccessType(a), NEW d \in 0 .. MaxDepth, NEW n, NEW mode \in {"R", "W"}
  PROVE  AccessAdded(a, AddAccess(a, d, n, mode), d, n, mode)
<1>1. DOMAIN a.stack = 0 .. MaxDepth /\ a.pending \subseteq {"R", "W"}
  BY DEF FragAccessType
<1>2. PICK e : e = [node |-> n, mode |-> {mode} \cup (IF a.stack[d].node = n THEN a.stack[d].mode ELSE {})]
  OBVIOUS
<1>3. PICK b, s : b = AddAccess(a, d, n, mode) /\ s = [a.stack EXCEPT ![d] = e]
  OBVIOUS
<1>4. b = [stack |-> s, pending |-> a.pending \cup {mode}]
  BY <1>2, <1>3 DEF AddAccess
<1>5. b.stack = s /\ b.pending = a.pending \cup {mode} /\ b = [stack |-> b.stack, pending |-> b.pending]
  BY <1>4
<1>6. DOMAIN s = 0 .. MaxDepth /\ s[d] = e /\ \A c \in 0 .. MaxDepth : c # d => s[c] = a.stack[c]
  BY <1>1, <1>3
<1>7. FragAccessType(b)
  BY <1>1, <1>5, <1>6 DEF FragAccessType
<1>8. AccessAdded(a, b, d, n, mode)
  BY <1>2, <1>5, <1>6, <1>7 DEF AccessAdded
<1>9. QED
  BY <1>3, <1>8, Zenon

\* A field without accesses.
LEMMA NewAccessIs == FragAccessType(NewFragAccess) /\ NewFragAccess.pending = {} /\ NewFragAccess.stack = NewStack
                     /\ DOMAIN NewStack = 0 .. MaxDepth /\ \A d \in 0 .. MaxDepth : NewStack[d] = NoAccess
  BY DEF NewFragAccess, NewStack, NoAccess, FragAccessType

\* The accesses of a field, made when there were none.
LEMMA FragmentIs ==
  ASSUME NEW access, AccessMap(access), NEW f
  PROVE  /\ FragAccessType(Fragment(access, f))
         /\ f \in DOMAIN access => Fragment(access, f) = access[f]
         /\ f \notin DOMAIN access => Fragment(access, f) = NewFragAccess
<1>1. CASE f \in DOMAIN access
  BY <1>1 DEF Fragment, AccessMap
<1>2. CASE f \notin DOMAIN access
  <2>1. Fragment(access, f) = NewFragAccess
    BY <1>2 DEF Fragment
  <2>2. QED
    BY <1>2, <2>1, NewAccessIs
<1>3. QED
  BY <1>1, <1>2

\* The accesses after one to f is set to b.
Entered(old, access, f, b) ==
  /\ DOMAIN access = DOMAIN old \cup {f} /\ access[f] = b
  /\ \A g \in DOMAIN old : g # f => access[g] = old[g]

\* An assignment to the map of accesses.
LEMMA EnterIs ==
  ASSUME NEW old, NEW f, NEW b
  PROVE  Entered(old, Set(old, f, b), f, b)
  BY DEF Entered, Set

\* It stays typed.
LEMMA EnterType ==
  ASSUME NEW old, NEW access, NEW f \in FragSet, NEW b, Entered(old, access, f, b), AccessMap(old), FragAccessType(b)
  PROVE  AccessMap(access)
  BY DEF Entered, AccessMap

\* One pending field more.
LEMMA PendingMore ==
  ASSUME NEW s, NEW old, NEW access, NEW f \in FragSet, PendingFrags(s, old), DOMAIN access = DOMAIN old \cup {f}
  PROVE  /\ PendingFrags(Append(s, f), access) /\ Len(s) \in Nat /\ Len(Append(s, f)) = Len(s) + 1
         /\ Append(s, f)[Len(s) + 1] = f /\ \A i \in 1 .. Len(s) : Append(s, f)[i] = s[i]
<1>1. s \in Seq(FragSet) /\ \A i \in 1 .. Len(s) : s[i] \in DOMAIN old
  BY DEF PendingFrags
<1>2. PICK k \in Nat : k = Len(s)
  BY <1>1
<1>3. PICK t : t = Append(s, f)
  OBVIOUS
<1>4. t \in Seq(FragSet) /\ Len(t) = k + 1 /\ t[k + 1] = f /\ \A i \in 1 .. k : t[i] = s[i]
  BY <1>1, <1>2, <1>3, AppendIs
<1>5. \A i \in 1 .. k + 1 : i \in 1 .. k \/ i = k + 1
  OBVIOUS
<1>6. \A i \in 1 .. k + 1 : t[i] \in DOMAIN access
  BY <1>1, <1>2, <1>4, <1>5
<1>7. PendingFrags(t, access)
  BY <1>4, <1>6 DEF PendingFrags
<1>8. QED
  BY <1>2, <1>3, <1>4, <1>7

\* What a read or a write of fragment f adds to a watcher whose accesses are
\* old by then.
FragAdded(w, v, old, d, n, f, mode) ==
  /\ v.acc = w.acc /\ v.writes = w.writes /\ v.pending = Append(w.pending, f)
  /\ \E b : Entered(old, v.access, f, b) /\ AccessAdded(Fragment(old, f), b, d, n, mode)

\* The watcher after an access was added is typed.
LEMMA FragAddedIs ==
  ASSUME NEW N, NEW w, FragType(w, N), NEW old, AccessMap(old), DOMAIN old = DOMAIN w.access,
         NEW d \in 0 .. MaxDepth, NEW n, NEW f \in FragSet, NEW mode \in {"R", "W"}, NEW v,
         FragRec(v, Set(old, f, AddAccess(Fragment(old, f), d, n, mode)), Append(w.pending, f), w.acc, w.writes)
  PROVE  FragType(v, N) /\ FragAdded(w, v, old, d, n, f, mode)
<1>1. PendingFrags(w.pending, w.access) /\ AccType(w.acc, N) /\ WritesType(w.writes, N)
  BY FragParts
<1>2. PICK a, b, access : /\ a = Fragment(old, f) /\ b = AddAccess(a, d, n, mode) /\ access = Set(old, f, b)
  OBVIOUS
<1>3. FragAccessType(a)
  BY <1>2, FragmentIs, Zenon
<1>4. AccessAdded(a, b, d, n, mode)
  BY <1>2, <1>3, AddAccessIs
<1>5. Entered(old, access, f, b)
  BY <1>2, EnterIs, Zenon
<1>6. FragAccessType(b)
  BY <1>4 DEF AccessAdded
<1>7. AccessMap(access)
  BY <1>5, <1>6, EnterType
<1>8. PICK s : s = w.pending
  OBVIOUS
<1>9. PendingFrags(Append(s, f), access)
  <2>1. DOMAIN access = DOMAIN old \cup {f} /\ PendingFrags(s, old)
    BY <1>1, <1>5, <1>8 DEF Entered, PendingFrags
  <2>2. QED
    BY <2>1, PendingMore
<1>10. FragRec(v, access, Append(s, f), w.acc, w.writes)
  BY <1>2, <1>8, Zenon
<1>11. FragType(v, N)
  BY <1>1, <1>7, <1>9, <1>10, FragMade
<1>12. v.access = access /\ v.acc = w.acc /\ v.writes = w.writes /\ v.pending = Append(s, f)
  BY <1>10, Zenon DEF FragRec
<1>13. FragAdded(w, v, old, d, n, f, mode)
  BY <1>2, <1>4, <1>5, <1>8, <1>12, Zenon DEF FragAdded
<1>14. QED
  BY <1>11, <1>13

\* A read of a field is added, or covered by an earlier access of the same
\* node.
LEMMA ReadFragIs ==
  ASSUME NEW N, NEW w, FragType(w, N), NEW d \in 0 .. MaxDepth, NEW n, NEW f \in FragSet
  PROVE  LET v == OnReadFrag(w, d, n, f)
         IN  /\ FragType(v, N)
             /\ \/ v = w /\ GetMode(w.access, f, d, n) \cup GetMode(w.access, Complete, d, n) # {}
                \/ /\ GetMode(w.access, f, d, n) \cup GetMode(w.access, Complete, d, n) = {}
                   /\ FragAdded(w, v, w.access, d, n, f, "R")
<1>1. CASE GetMode(w.access, f, d, n) \cup GetMode(w.access, Complete, d, n) # {}
  BY <1>1 DEF OnReadFrag
<1>2. CASE GetMode(w.access, f, d, n) \cup GetMode(w.access, Complete, d, n) = {}
  <2>1. w = [access |-> w.access, pending |-> w.pending, acc |-> w.acc, writes |-> w.writes] /\ AccessMap(w.access)
    BY FragParts
  <2>2. PICK access, pending : /\ access = Set(w.access, f, AddAccess(Fragment(w.access, f), d, n, "R"))
                               /\ pending = Append(w.pending, f)
    OBVIOUS
  <2>3. PICK v : v = OnReadFrag(w, d, n, f)
    OBVIOUS
  <2>4. v = [w EXCEPT !.access = access, !.pending = pending]
    BY <1>2, <2>2, <2>3 DEF OnReadFrag
  <2>5. v = [access |-> access, pending |-> pending, acc |-> w.acc, writes |-> w.writes]
    BY <2>1, <2>4
  <2>6. FragRec(v, access, pending, w.acc, w.writes)
    BY <2>5, FragFields, Zenon
  <2>7. FragRec(v, Set(w.access, f, AddAccess(Fragment(w.access, f), d, n, "R")), Append(w.pending, f), w.acc, w.writes)
    BY <2>2, <2>6, Zenon
  <2>8. FragType(v, N) /\ FragAdded(w, v, w.access, d, n, f, "R")
    BY <2>1, <2>7, FragAddedIs
  <2>9. QED
    BY <1>2, <2>3, <2>8, Zenon
<1>3. QED
  BY <1>1, <1>2

\* Clearing the accesses keeps the map typed.
LEMMA ClearedIs ==
  ASSUME NEW access, AccessMap(access), NEW f
  PROVE  AccessMap(Cleared(access, f)) /\ DOMAIN Cleared(access, f) = DOMAIN access
<1>1. DOMAIN Cleared(access, f) = DOMAIN access
  BY DEF Cleared
<1>2. ASSUME NEW g \in DOMAIN access PROVE FragAccessType(Cleared(access, f)[g])
  <2>1. PICK a : a = access[g]
    OBVIOUS
  <2>2. FragAccessType(a) /\ a = [stack |-> a.stack, pending |-> a.pending]
    BY <2>1 DEF AccessMap, FragAccessType
  <2>3. FragAccessType([stack |-> NewStack, pending |-> a.pending \ {"W"}])
    BY <2>2, NewAccessIs DEF FragAccessType
  <2>4. FragAccessType([a EXCEPT !.stack = NewStack])
    <3>1. [a EXCEPT !.stack = NewStack] = [stack |-> NewStack, pending |-> a.pending]
      BY <2>2
    <3>2. FragAccessType([stack |-> NewStack, pending |-> a.pending])
      BY <2>2, NewAccessIs DEF FragAccessType
    <3>3. QED
      BY <3>1, <3>2, Zenon
  <2>5. \/ Cleared(access, f)[g] = a \/ Cleared(access, f)[g] = [stack |-> NewStack, pending |-> a.pending \ {"W"}]
        \/ Cleared(access, f)[g] = [a EXCEPT !.stack = NewStack]
    BY <2>1 DEF Cleared
  <2>6. QED
    BY <2>2, <2>3, <2>4, <2>5, Zenon
<1>3. QED
  BY <1>1, <1>2 DEF AccessMap

\* A write of a field is added, after the accesses of all depths were
\* cleared, or covered by an earlier write of the same node.
LEMMA WriteFragIs ==
  ASSUME NEW N, NEW w, FragType(w, N), NEW d \in 0 .. MaxDepth, NEW n, NEW f \in FragSet
  PROVE  LET v == OnWriteFrag(w, d, n, f)
         IN  /\ FragType(v, N)
             /\ \/ v = w /\ "W" \in GetMode(w.access, f, d, n) \cup GetMode(w.access, Complete, d, n)
                \/ FragAdded(w, v, Cleared(w.access, f), d, n, f, "W")
<1>1. CASE "W" \in GetMode(w.access, f, d, n) \cup GetMode(w.access, Complete, d, n)
  BY <1>1 DEF OnWriteFrag
<1>2. CASE "W" \notin GetMode(w.access, f, d, n) \cup GetMode(w.access, Complete, d, n)
  <2>1. w = [access |-> w.access, pending |-> w.pending, acc |-> w.acc, writes |-> w.writes] /\ AccessMap(w.access)
    BY FragParts
  <2>2. PICK old : old = Cleared(w.access, f)
    OBVIOUS
  <2>3. AccessMap(old) /\ DOMAIN old = DOMAIN w.access
    BY <2>1, <2>2, ClearedIs, Zenon
  <2>4. PICK access, pending : /\ access = Set(old, f, AddAccess(Fragment(old, f), d, n, "W"))
                               /\ pending = Append(w.pending, f)
    OBVIOUS
  <2>5. PICK v : v = OnWriteFrag(w, d, n, f)
    OBVIOUS
  <2>6. v = [w EXCEPT !.access = access, !.pending = pending]
    BY <1>2, <2>2, <2>4, <2>5 DEF OnWriteFrag
  <2>7. v = [access |-> access, pending |-> pending, acc |-> w.acc, writes |-> w.writes]
    BY <2>1, <2>6
  <2>8. FragRec(v, access, pending, w.acc, w.writes)
    BY <2>7, FragFields, Zenon
  <2>9. FragRec(v, Set(old, f, AddAccess(Fragment(old, f), d, n, "W")), Append(w.pending, f), w.acc, w.writes)
    BY <2>4, <2>8, Zenon
  <2>10. FragType(v, N) /\ FragAdded(w, v, old, d, n, f, "W")
    BY <2>3, <2>9, FragAddedIs
  <2>11. QED
    BY <2>2, <2>5, <2>10, Zenon
<1>3. QED
  BY <1>1, <1>2

\* What flushing makes of the accesses of nodes other than n.
AccGrown(acc, new, n) ==
  /\ \A m : m # n => DepsOf(new, m) = DepsOf(acc, m)
  /\ DepsOf(acc, n) \subseteq DepsOf(new, n)

\* new has the same accesses at the depths as access.
SameStacks(access, new) ==
  /\ DOMAIN new = DOMAIN access
  /\ \A f \in DOMAIN access : new[f].stack = access[f].stack

\* One pending fragment is flushed.
OneFlushed(w, v, n, f, old) ==
  /\ v.pending = w.pending /\ SameStacks(w.access, v.access)
  /\ \A g \in DOMAIN w.access : g # f => v.access[g] = w.access[g]
  /\ v.access[f].pending = (IF f = Complete THEN w.access[f].pending \ {"R"} ELSE {})
  /\ v.writes.frags = (IF "W" \in w.access[f].pending /\ f # Complete THEN Set(w.writes.frags, f, n)
                       ELSE w.writes.frags)
  /\ AccGrown(w.acc, v.acc, n)
  /\ "R" \in w.access[f].pending /\ old /\ f # Complete /\ f \in DOMAIN w.writes.frags =>
       w.writes.frags[f] \in DepsOf(v.acc, n)

\* AddDeps only adds.
LEMMA AccGrowsBy ==
  ASSUME NEW acc, NEW n, NEW deps
  PROVE  AccGrown(acc, AddDeps(acc, n, deps), n) /\ deps \subseteq DepsOf(AddDeps(acc, n, deps), n)
<1>1. \A m : DepsOf(AddDeps(acc, n, deps), m) = IF m = n THEN DepsOf(acc, n) \cup deps ELSE DepsOf(acc, m)
  BY DepsOfAdd
<1>2. QED
  BY <1>1 DEF AccGrown

\* The accesses after the pending mode of f is set.
Repended(access, new, f, mode) ==
  /\ AccessMap(new) /\ SameStacks(access, new) /\ new[f].pending = mode
  /\ \A g \in DOMAIN access : g # f => new[g] = access[g]

\* New pending modes of a field.
LEMMA PendingSet ==
  ASSUME NEW access, AccessMap(access), NEW f \in DOMAIN access, NEW mode, mode \subseteq {"R", "W"}
  PROVE  Repended(access, SetPending(access, f, mode), f, mode)
<1>1. PICK b, new : b = [stack |-> access[f].stack, pending |-> mode] /\ new = SetPending(access, f, mode)
  OBVIOUS
<1>2. b.stack = access[f].stack /\ b.pending = mode /\ b = [stack |-> b.stack, pending |-> b.pending]
  BY <1>1
<1>3. FragAccessType(access[f]) /\ f \in FragSet
  BY DEF AccessMap
<1>4. FragAccessType(b)
  BY <1>2, <1>3 DEF FragAccessType
<1>5. Entered(access, new, f, b)
  BY <1>1, EnterIs, Zenon DEF SetPending
<1>6. AccessMap(new)
  BY <1>3, <1>4, <1>5, EnterType
<1>7. DOMAIN new = DOMAIN access /\ new[f] = b /\ \A g \in DOMAIN access : g # f => new[g] = access[g]
  BY <1>5 DEF Entered
<1>8. SameStacks(access, new)
  BY <1>2, <1>7 DEF SameStacks
<1>9. QED
  BY <1>1, <1>2, <1>6, <1>7, <1>8, Zenon DEF Repended

\* The flush of one field.
LEMMA FlushOneIs ==
  ASSUME NEW N \in Nat, NEW w, FragType(w, N), NEW n \in 1 .. N, NEW f \in DOMAIN w.access, NEW old \in BOOLEAN
  PROVE  FragType(FlushOne(w, n, f, old), N) /\ OneFlushed(w, FlushOne(w, n, f, old), n, f, old)
<1>1. /\ w = [access |-> w.access, pending |-> w.pending, acc |-> w.acc, writes |-> w.writes]
      /\ AccessMap(w.access) /\ PendingFrags(w.pending, w.access) /\ AccType(w.acc, N) /\ WritesType(w.writes, N)
  BY FragParts
<1>2. PICK p : p = w.access[f].pending
  OBVIOUS
<1>3. p \subseteq {"R", "W"}
  BY <1>1, <1>2 DEF AccessMap, FragAccessType
<1>4. PICK deps : deps = IF "R" \notin p \/ ~old THEN {}
                         ELSE IF f = Complete THEN ToSet(w.writes.nodeSlice)
                         ELSE IF f \in DOMAIN w.writes.frags THEN {w.writes.frags[f]} ELSE {}
  OBVIOUS
<1>5. deps \subseteq 1 .. N
  <2>1. ToSet(w.writes.nodeSlice) \subseteq 1 .. N
    <3>1. PICK s \in Seq(1 .. N) : s = w.writes.nodeSlice
      BY <1>1 DEF WritesType, WritesBase
    <3>2. ToSet(s) \subseteq 1 .. N
      BY DEF ToSet
    <3>3. QED
      BY <3>1, <3>2
  <2>2. f \in DOMAIN w.writes.frags => w.writes.frags[f] \in 1 .. N
    BY <1>1 DEF WritesType, WritesBase
  <2>3. QED
    BY <1>4, <2>1, <2>2
<1>6. PICK access, acc, writes :
        /\ access = SetPending(w.access, f, IF f = Complete THEN p \ {"R"} ELSE {})
        /\ acc = AddDeps(w.acc, n, deps)
        /\ writes = (IF "W" \in p /\ f # Complete THEN FlushNonCompleteWrite(w.writes, f, n) ELSE w.writes)
  OBVIOUS
<1>7. PICK v : v = FlushOne(w, n, f, old)
  OBVIOUS
<1>8. v = [access |-> access, pending |-> w.pending, acc |-> acc, writes |-> writes]
  <2>1. v = [w EXCEPT !.acc = acc, !.access = access, !.writes = writes]
    BY <1>2, <1>4, <1>6, <1>7 DEF FlushOne
  <2>2. QED
    BY <1>1, <2>1
<1>9. FragRec(v, access, w.pending, acc, writes)
  BY <1>8, FragFields, Zenon
<1>10. PICK mode : mode = IF f = Complete THEN p \ {"R"} ELSE {}
  OBVIOUS
<1>11. /\ AccessMap(access) /\ SameStacks(w.access, access) /\ access[f].pending = mode
       /\ \A g \in DOMAIN w.access : g # f => access[g] = w.access[g]
  <2>1. mode \subseteq {"R", "W"} /\ access = SetPending(w.access, f, mode)
    BY <1>3, <1>6, <1>10
  <2>2. Repended(w.access, SetPending(w.access, f, mode), f, mode)
    BY <1>1, <2>1, PendingSet
  <2>3. Repended(w.access, access, f, mode)
    BY <2>1, <2>2, Zenon
  <2>4. QED
    BY <2>3, Zenon DEF Repended
<1>12. AccType(acc, N) /\ AccGrown(w.acc, acc, n) /\ deps \subseteq DepsOf(acc, n)
  BY <1>1, <1>5, <1>6, AccAdd, AccGrowsBy
<1>13. /\ WritesType(writes, N)
       /\ writes.frags = (IF "W" \in p /\ f # Complete THEN Set(w.writes.frags, f, n) ELSE w.writes.frags)
  <2>1. CASE "W" \in p /\ f # Complete
    <3>1. writes = FlushNonCompleteWrite(w.writes, f, n)
      BY <1>6, <2>1
    <3>2. /\ WritesType(FlushNonCompleteWrite(w.writes, f, n), N)
          /\ FlushNonCompleteWrite(w.writes, f, n).frags = Set(w.writes.frags, f, n)
      BY <1>1, FlushWriteIs
    <3>3. QED
      BY <2>1, <3>1, <3>2, Zenon
  <2>2. CASE ~("W" \in p /\ f # Complete)
    BY <1>1, <1>6, <2>2
  <2>3. QED
    BY <2>1, <2>2
<1>14. PendingFrags(w.pending, access)
  BY <1>1, <1>11 DEF PendingFrags, SameStacks
<1>15. FragType(v, N)
  BY <1>9, <1>11, <1>12, <1>13, <1>14, FragMade
<1>16. v.access = access /\ v.pending = w.pending /\ v.acc = acc /\ v.writes = writes
  BY <1>9, Zenon DEF FragRec
<1>17. "R" \in p /\ old /\ f # Complete /\ f \in DOMAIN w.writes.frags => w.writes.frags[f] \in DepsOf(acc, n)
  BY <1>4, <1>12
<1>18. OneFlushed(w, v, n, f, old)
  BY <1>2, <1>10, <1>11, <1>12, <1>13, <1>16, <1>17, Zenon DEF OneFlushed
<1>19. QED
  BY <1>7, <1>15, <1>18, Zenon

\* The same, in terms of the pending modes and the writers.
LEMMA OneSays ==
  ASSUME NEW N \in Nat, NEW w, FragType(w, N), NEW n \in 1 .. N, NEW f \in DOMAIN w.access, NEW old \in BOOLEAN, NEW v,
         OneFlushed(w, v, n, f, old)
  PROVE  /\ \A g : g # f => FragPending(v, g) = FragPending(w, g) /\ FragWriter(v, g) = FragWriter(w, g)
         /\ FragPending(v, f) = IF f = Complete THEN FragPending(w, f) \ {"R"} ELSE {}
         /\ f # Complete => FragWriter(v, f) = IF "W" \in FragPending(w, f) THEN n ELSE FragWriter(w, f)
         /\ f # Complete /\ "R" \in FragPending(w, f) /\ old /\ FragWriter(w, f) # 0 =>
              FragWriter(w, f) \in DepsOf(v.acc, n)
<1>1. PICK p, access, new, frags, after :
        /\ p = w.access[f].pending /\ access = w.access /\ new = v.access /\ frags = w.writes.frags
        /\ after = v.writes.frags
  OBVIOUS
<1>2. /\ DOMAIN new = DOMAIN access /\ f \in DOMAIN access /\ p = access[f].pending
      /\ \A g \in DOMAIN access : g # f => new[g] = access[g]
      /\ new[f].pending = (IF f = Complete THEN p \ {"R"} ELSE {})
  BY <1>1, Zenon DEF OneFlushed, SameStacks
<1>3. after = (IF "W" \in p /\ f # Complete THEN Set(frags, f, n) ELSE frags)
  BY <1>1, Zenon DEF OneFlushed
<1>4. "R" \in p /\ old /\ f # Complete /\ f \in DOMAIN frags => frags[f] \in DepsOf(v.acc, n)
  BY <1>1, Zenon DEF OneFlushed
<1>5. /\ \A g : FragPending(w, g) = IF g \in DOMAIN access THEN access[g].pending ELSE {}
      /\ \A g : FragPending(v, g) = IF g \in DOMAIN new THEN new[g].pending ELSE {}
      /\ \A g : FragWriter(w, g) = IF g \in DOMAIN frags THEN frags[g] ELSE 0
      /\ \A g : FragWriter(v, g) = IF g \in DOMAIN after THEN after[g] ELSE 0
  BY <1>1, Zenon DEF FragPending, FragWriter
<1> HIDE <1>1
<1>6. FragPending(w, f) = p /\ FragPending(v, f) = IF f = Complete THEN p \ {"R"} ELSE {}
  BY <1>2, <1>5
<1>7. ASSUME NEW g, g # f PROVE FragPending(v, g) = FragPending(w, g) /\ FragWriter(v, g) = FragWriter(w, g)
  <2>1. FragPending(v, g) = FragPending(w, g)
    BY <1>2, <1>5, <1>7
  <2>2. FragWriter(v, g) = FragWriter(w, g)
    <3>1. CASE "W" \in p /\ f # Complete
      <4>1. after = Set(frags, f, n)
        BY <1>3, <3>1
      <4>2. /\ DOMAIN after = DOMAIN frags \cup {f}
            /\ \A x \in DOMAIN frags : x # f => after[x] = frags[x]
        BY <4>1 DEF Set
      <4>3. QED
        BY <1>5, <1>7, <4>2
    <3>2. CASE ~("W" \in p /\ f # Complete)
      BY <1>3, <1>5, <3>2
    <3>3. QED
      BY <3>1, <3>2
  <2>3. QED
    BY <2>1, <2>2
<1>8. f # Complete => FragWriter(v, f) = IF "W" \in p THEN n ELSE FragWriter(w, f)
  <2>1. CASE "W" \in p /\ f # Complete
    <3>1. after = Set(frags, f, n)
      BY <1>3, <2>1
    <3>2. DOMAIN after = DOMAIN frags \cup {f} /\ after[f] = n
      BY <3>1 DEF Set
    <3>3. QED
      BY <1>5, <2>1, <3>2
  <2>2. CASE ~("W" \in p /\ f # Complete)
    BY <1>3, <1>5, <2>2
  <2>3. QED
    BY <2>1, <2>2
<1>9. f # Complete /\ "R" \in p /\ old /\ FragWriter(w, f) # 0 => FragWriter(w, f) \in DepsOf(v.acc, n)
  BY <1>4, <1>5
<1>10. QED
  BY <1>6, <1>7, <1>8, <1>9

\* Fragment f of w is flushed in v.
FragDone(w, v, n, f) ==
  /\ FragPending(v, f) = {}
  /\ FragWriter(v, f) = IF "W" \in FragPending(w, f) THEN n ELSE FragWriter(w, f)
  /\ "R" \in FragPending(w, f) /\ FragWriter(w, f) # 0 => FragWriter(w, f) \in DepsOf(v.acc, n)

\* The field f is the same in v as in w.
FragSame(w, v, f) == FragPending(v, f) = FragPending(w, f) /\ FragWriter(v, f) = FragWriter(w, f)

\* So are the first j pending ones.
FragRun(w, v, n, N, j) ==
  /\ FragType(v, N) /\ v.pending = w.pending /\ SameStacks(w.access, v.access) /\ AccGrown(w.acc, v.acc, n)
  /\ FragPending(v, Complete) = (IF InList(w.pending, j, Complete) THEN FragPending(w, Complete) \ {"R"}
                                 ELSE FragPending(w, Complete))
  /\ \A f \in Frags : IF InList(w.pending, j, f) THEN FragDone(w, v, n, f) ELSE FragSame(w, v, f)

\* One more of a list.
LEMMA InListNext ==
  ASSUME NEW s, NEW j \in Nat, NEW f
  PROVE  InList(s, j + 1, f) <=> InList(s, j, f) \/ s[j + 1] = f
<1>1. \A i : i \in 1 .. j + 1 <=> i \in 1 .. j \/ i = j + 1
  OBVIOUS
<1>2. QED
  BY <1>1, Zenon DEF InList

\* What is flushed stays flushed.
LEMMA DoneLater ==
  ASSUME NEW w, NEW v, NEW u, NEW n, NEW f, FragDone(w, v, n, f), FragPending(u, f) = {}, FragWriter(u, f) = FragWriter(v, f),
         DepsOf(v.acc, n) \subseteq DepsOf(u.acc, n)
  PROVE  FragDone(w, u, n, f)
  BY DEF FragDone

\* A turn takes the flush one field further.
LEMMA FragRunStep ==
  ASSUME NEW N \in Nat, NEW w, FragType(w, N), NEW n \in 1 .. N, NEW v, NEW j \in Nat, j + 1 <= Len(w.pending),
         FragRun(w, v, n, N, j), NEW old \in BOOLEAN, old <=> w.writes.nodeSlice # <<>>
  PROVE  FragRun(w, FlushOne(v, n, w.pending[j + 1], old), n, N, j + 1)
<1>1. PICK f, u : f = w.pending[j + 1] /\ u = FlushOne(v, n, f, old)
  OBVIOUS
<1>2. FragType(v, N) /\ v.pending = w.pending /\ SameStacks(w.access, v.access) /\ AccGrown(w.acc, v.acc, n)
  BY DEF FragRun
<1>3. f \in DOMAIN v.access /\ f \in FragSet
  <2>1. PendingFrags(w.pending, w.access)
    BY FragParts
  <2>2. j + 1 \in 1 .. Len(w.pending)
    BY <2>1 DEF PendingFrags
  <2>3. QED
    BY <1>1, <1>2, <2>1, <2>2 DEF PendingFrags, SameStacks
<1>4. FragType(u, N) /\ OneFlushed(v, u, n, f, old)
  BY <1>1, <1>2, <1>3, FlushOneIs
<1>5. /\ \A g : g # f => FragPending(u, g) = FragPending(v, g) /\ FragWriter(u, g) = FragWriter(v, g)
      /\ FragPending(u, f) = IF f = Complete THEN FragPending(v, f) \ {"R"} ELSE {}
      /\ f # Complete => FragWriter(u, f) = IF "W" \in FragPending(v, f) THEN n ELSE FragWriter(v, f)
      /\ f # Complete /\ "R" \in FragPending(v, f) /\ old /\ FragWriter(v, f) # 0 =>
           FragWriter(v, f) \in DepsOf(u.acc, n)
  BY <1>2, <1>3, <1>4, OneSays
<1>6. AccGrown(v.acc, u.acc, n) /\ u.pending = v.pending /\ SameStacks(v.access, u.access)
  BY <1>4 DEF OneFlushed
<1>7. AccGrown(w.acc, u.acc, n) /\ SameStacks(w.access, u.access) /\ u.pending = w.pending
  BY <1>2, <1>6 DEF AccGrown, SameStacks
<1>8. FragPending(u, Complete) = (IF InList(w.pending, j + 1, Complete) THEN FragPending(w, Complete) \ {"R"}
                                  ELSE FragPending(w, Complete))
  <2>1. FragPending(v, Complete) = (IF InList(w.pending, j, Complete) THEN FragPending(w, Complete) \ {"R"}
                                    ELSE FragPending(w, Complete))
    BY DEF FragRun
  <2>2. InList(w.pending, j + 1, Complete) <=> InList(w.pending, j, Complete) \/ f = Complete
    BY <1>1, InListNext
  <2>3. QED
    BY <1>5, <2>1, <2>2
<1>9. ASSUME NEW g \in Frags PROVE IF InList(w.pending, j + 1, g) THEN FragDone(w, u, n, g) ELSE FragSame(w, u, g)
  <2>1. InList(w.pending, j + 1, g) <=> InList(w.pending, j, g) \/ f = g
    BY <1>1, InListNext
  <2>2. IF InList(w.pending, j, g) THEN FragDone(w, v, n, g) ELSE FragSame(w, v, g)
    BY DEF FragRun
  <2>3. DepsOf(v.acc, n) \subseteq DepsOf(u.acc, n) /\ g # Complete
    BY <1>6, GraphAssumption DEF AccGrown
  <2>4. CASE g # f /\ InList(w.pending, j, g)
    <3>1. FragDone(w, v, n, g) /\ FragPending(u, g) = FragPending(v, g) /\ FragWriter(u, g) = FragWriter(v, g)
      BY <1>5, <2>2, <2>4
    <3>2. FragPending(u, g) = {}
      BY <3>1 DEF FragDone
    <3>3. QED
      BY <2>1, <2>3, <2>4, <3>1, <3>2, DoneLater
  <2>5. CASE g # f /\ ~InList(w.pending, j, g)
    <3>1. FragSame(w, u, g)
      BY <1>5, <2>2, <2>5 DEF FragSame
    <3>2. QED
      BY <2>1, <2>5, <3>1
  <2>6. CASE g = f /\ InList(w.pending, j, g)
    <3>1. FragDone(w, v, n, g)
      BY <2>2, <2>6
    <3>2. FragPending(v, g) = {}
      BY <3>1 DEF FragDone
    <3>3. FragPending(u, g) = {} /\ FragWriter(u, g) = FragWriter(v, g)
      BY <1>5, <2>3, <2>6, <3>2
    <3>4. QED
      BY <2>1, <2>3, <2>6, <3>1, <3>3, DoneLater
  <2>7. CASE g = f /\ ~InList(w.pending, j, g)
    <3>1. FragPending(v, g) = FragPending(w, g) /\ FragWriter(v, g) = FragWriter(w, g)
      BY <2>2, <2>7 DEF FragSame
    <3>2. FragWriter(w, g) # 0 => old
      <4>1. DOMAIN w.writes.frags # {} => w.writes.nodeSlice # <<>>
        BY DEF FragType, WritesType
      <4>2. QED
        BY <4>1 DEF FragWriter
    <3>3. FragDone(w, u, n, g)
      BY <1>5, <2>3, <2>7, <3>1, <3>2 DEF FragDone
    <3>4. QED
      BY <2>1, <2>7, <3>3
  <2>8. QED
    BY <2>4, <2>5, <2>6, <2>7
<1>10. FragRun(w, u, n, N, j + 1)
  BY <1>4, <1>7, <1>8, <1>9 DEF FragRun
<1>11. QED
  BY <1>1, <1>10, Zenon

\* A turn of the flush.
FragTurn(q, v, f) == FlushOne(v, q[1], f, q[2])

\* The loop of the flush.
FragFold == INSTANCE FoldLaws WITH Step <- FragTurn

\* r has the states of that loop after each turn.
FragRuns(q, base, xs, m, r) ==
  /\ r[0] = base /\ \A j \in 1 .. m : r[j] = FragTurn(q, r[j - 1], xs[j])
  /\ FragFold!Fold(q, base, xs) = r[m]

\* They exist.
LEMMA FragSteps ==
  ASSUME NEW q, NEW base, NEW S, NEW xs \in Seq(S), NEW m \in Nat, m = Len(xs)
  PROVE  \E r : FragRuns(q, base, xs, m, r)
  BY FragFold!FoldSteps DEF FragRuns

\* The flush is a fold.
LEMMA FlushIsFold ==
  ASSUME NEW w, NEW n, NEW old, NEW xs
  PROVE  FoldLeft(LAMBDA v, f : FlushOne(v, n, f, old), w, xs) = FragFold!Fold(<<n, old>>, w, xs)
  BY DEF FoldLeft, MapThenFoldSet, Max, FragFold!Fold, FragFold!MapThenFoldSet, FragFold!Greatest, FragTurn

\* It flushes all pending fields.
LEMMA FoldFlushed ==
  ASSUME NEW N \in Nat, NEW w, FragType(w, N), NEW n \in 1 .. N, NEW old \in BOOLEAN, old <=> w.writes.nodeSlice # <<>>
  PROVE  FragRun(w, FragFold!Fold(<<n, old>>, w, w.pending), n, N, Len(w.pending))
<1>1. PendingFrags(w.pending, w.access)
  BY FragParts
<1>2. PICK xs \in Seq(FragSet) : xs = w.pending
  BY <1>1 DEF PendingFrags
<1>3. PICK k \in Nat : k = Len(xs)
  BY <1>2
<1>4. PICK r : FragRuns(<<n, old>>, w, xs, k, r)
  BY <1>3, FragSteps
<1>5. /\ r[0] = w /\ \A j \in 1 .. k : r[j] = FragTurn(<<n, old>>, r[j - 1], xs[j])
      /\ FragFold!Fold(<<n, old>>, w, xs) = r[k]
  BY <1>4 DEF FragRuns
<1> DEFINE Good == {j \in Nat : j <= k => FragRun(w, r[j], n, N, j)}
<1>6. 0 \in Good
  <2>1. \A f : ~InList(w.pending, 0, f)
    BY DEF InList
  <2>2. AccGrown(w.acc, w.acc, n) /\ SameStacks(w.access, w.access) /\ \A f : FragSame(w, w, f)
    BY DEF AccGrown, SameStacks, FragSame
  <2>3. FragRun(w, w, n, N, 0)
    BY <2>1, <2>2, Zenon DEF FragRun
  <2>4. QED
    BY <1>5, <2>3
<1>7. ASSUME NEW j \in Nat, j \in Good PROVE j + 1 \in Good
  <2>1. SUFFICES ASSUME j + 1 <= k PROVE FragRun(w, r[j + 1], n, N, j + 1)
    OBVIOUS
  <2>2. j + 1 \in 1 .. k /\ (j + 1) - 1 = j
    BY <2>1
  <2>3. r[j + 1] = FlushOne(r[j], n, w.pending[j + 1], old)
    <3>1. r[j + 1] = FragTurn(<<n, old>>, r[(j + 1) - 1], xs[j + 1])
      BY <1>5, <2>2
    <3>2. QED
      BY <1>2, <2>2, <3>1 DEF FragTurn
  <2>4. FragRun(w, r[j], n, N, j) /\ j + 1 <= Len(w.pending)
    BY <1>2, <1>3, <1>7, <2>1
  <2>5. FragRun(w, FlushOne(r[j], n, w.pending[j + 1], old), n, N, j + 1)
    BY <2>4, FragRunStep
  <2>6. QED
    BY <2>3, <2>5, Zenon
<1> HIDE DEF Good
<1>8. Nat \subseteq Good
  BY <1>6, <1>7, FragFold!NatSetInduction
<1>9. FragRun(w, r[k], n, N, k)
  BY <1>8 DEF Good
<1>10. QED
  BY <1>2, <1>3, <1>5, <1>9, Zenon

\* v is w after a flush for node n, if the whole object was not written.
FragFlushed(w, v, n) ==
  /\ v.pending = <<>> /\ SameStacks(w.access, v.access) /\ AccGrown(w.acc, v.acc, n)
  /\ Listed(w) => FragPending(v, Complete) = {} /\ \A f \in Frags : FragDone(w, v, n, f)

\* After all are flushed.
LEMMA RunEnds ==
  ASSUME NEW w, NEW v, NEW n, NEW N, NEW k, k = Len(w.pending), FragRun(w, v, n, N, k), Listed(w)
  PROVE  FragPending(v, Complete) = FragPending(w, Complete) \ {"R"} /\ \A f \in Frags : FragDone(w, v, n, f)
<1>1. \A f : FragPending(w, f) # {} => InList(w.pending, k, f)
  BY DEF Listed, FragPending
<1>2. FragPending(v, Complete) = FragPending(w, Complete) \ {"R"}
  BY <1>1 DEF FragRun
<1>3. ASSUME NEW f \in Frags PROVE FragDone(w, v, n, f)
  <2>1. IF InList(w.pending, k, f) THEN FragDone(w, v, n, f) ELSE FragSame(w, v, f)
    BY DEF FragRun
  <2>2. CASE InList(w.pending, k, f)
    BY <2>1, <2>2
  <2>3. CASE ~InList(w.pending, k, f)
    BY <1>1, <2>1, <2>3 DEF FragSame, FragDone
  <2>4. QED
    BY <2>2, <2>3
<1>4. QED
  BY <1>2, <1>3

\* FlushFrags, with its fold.
FragBody(w, n, old) == FragFold!Fold(<<n, old>>, w, w.pending)

\* The end of the flush: a write of the whole object.
FlushEnd(w, n, done) ==
  IF w.pending # <<>> /\ "W" \in Fragment(done.access, Complete).pending
  THEN [done EXCEPT !.writes = FlushCompleteWrite(@, n), !.access = SetPending(@, Complete, {})]
  ELSE done

\* No field is pending after the loop.
Emptied(body) == [body EXCEPT !.pending = <<>>]

\* The flush is its loop and its end.
LEMMA FlushFragsAs ==
  ASSUME NEW w, NEW n
  PROVE  FlushFrags(w, n) = FlushEnd(w, n, Emptied(FragBody(w, n, w.writes.nodeSlice # <<>>)))
  BY DEF FlushFrags, FlushEnd, Emptied, FragBody, FoldLeft, MapThenFoldSet, Max, FragFold!Fold, FragFold!MapThenFoldSet, FragFold!Greatest, FragTurn

\* The flush of the fragment watcher.
LEMMA FlushFragsIs ==
  ASSUME NEW N \in Nat, NEW w, FragType(w, N), NEW n \in 1 .. N
  PROVE  FragType(FlushFrags(w, n), N) /\ FragFlushed(w, FlushFrags(w, n), n)
<1>1. PICK old \in BOOLEAN : old = (w.writes.nodeSlice # <<>>)
  OBVIOUS
<1>2. PICK body : body = FragBody(w, n, old)
  OBVIOUS
<1>3. body = FragFold!Fold(<<n, old>>, w, w.pending)
  BY <1>2 DEF FragBody
<1>4. PICK done : done = Emptied(body)
  OBVIOUS
<1>5. PICK v : v = FlushFrags(w, n)
  OBVIOUS
<1>6. v = FlushEnd(w, n, done)
  BY <1>1, <1>2, <1>4, <1>5, FlushFragsAs, Zenon
<1>7. FragRun(w, body, n, N, Len(w.pending))
  BY <1>1, <1>3, FoldFlushed
<1> HIDE <1>2, <1>3, <1>5, <1>1
<1>8. FragType(body, N) /\ SameStacks(w.access, body.access) /\ AccGrown(w.acc, body.acc, n)
  BY <1>7 DEF FragRun
<1>9. /\ body = [access |-> body.access, pending |-> body.pending, acc |-> body.acc, writes |-> body.writes]
      /\ AccessMap(body.access) /\ AccType(body.acc, N) /\ WritesType(body.writes, N)
  BY <1>8, FragParts
<1>10. PendingFrags(<<>>, body.access)
  BY DEF PendingFrags
<1>11. done = [access |-> body.access, pending |-> <<>>, acc |-> body.acc, writes |-> body.writes]
  BY <1>4, <1>9 DEF Emptied
<1>12. FragRec(done, body.access, <<>>, body.acc, body.writes)
  BY <1>11, FragFields, Zenon
<1>13. FragType(done, N)
  BY <1>9, <1>10, <1>12, FragMade
<1>14. done.access = body.access /\ done.pending = <<>> /\ done.acc = body.acc /\ done.writes = body.writes
  BY <1>12, Zenon DEF FragRec
<1> HIDE <1>4
<1>15. \A f : FragPending(done, f) = FragPending(body, f) /\ FragWriter(done, f) = FragWriter(body, f)
  BY <1>14, Zenon DEF FragPending, FragWriter
<1>16. Fragment(done.access, Complete).pending = FragPending(body, Complete)
  <2>1. CASE Complete \in DOMAIN body.access
    BY <1>14, <2>1 DEF FragPending, Fragment
  <2>2. CASE Complete \notin DOMAIN body.access
    BY <1>14, <2>2, NewAccessIs DEF FragPending, Fragment
  <2>3. QED
    BY <2>1, <2>2
<1>17. CASE w.pending # <<>> /\ "W" \in FragPending(body, Complete)
  <2>1. PICK access, writes : access = SetPending(done.access, Complete, {}) /\ writes = FlushCompleteWrite(done.writes, n)
    OBVIOUS
  <2>2. v = [done EXCEPT !.writes = writes, !.access = access]
    BY <1>6, <1>16, <1>17, <2>1 DEF FlushEnd
  <2>3. v = [access |-> access, pending |-> <<>>, acc |-> body.acc, writes |-> writes]
    BY <1>11, <2>2
  <2>4. FragRec(v, access, <<>>, body.acc, writes)
    BY <2>3, FragFields, Zenon
  <2>5. Complete \in DOMAIN done.access
    BY <1>14, <1>17 DEF FragPending
  <2>6. Repended(done.access, access, Complete, {})
    <3>1. AccessMap(done.access) /\ {} \subseteq {"R", "W"}
      BY <1>9, <1>14
    <3>2. Repended(done.access, SetPending(done.access, Complete, {}), Complete, {})
      BY <2>5, <3>1, PendingSet
    <3>3. QED
      BY <2>1, <3>2, Zenon
  <2>7. AccessMap(access) /\ SameStacks(done.access, access)
    BY <2>6, Zenon DEF Repended
  <2>8. WritesType(writes, N)
    <3>1. WritesType(done.writes, N)
      BY <1>9, <1>14
    <3>2. WritesType(FlushCompleteWrite(done.writes, n), N)
      BY <3>1, CompleteWriteIs
    <3>3. QED
      BY <2>1, <3>2, Zenon
  <2>9. PendingFrags(<<>>, access)
    BY DEF PendingFrags
  <2>10. FragType(v, N)
    BY <1>9, <2>4, <2>7, <2>8, <2>9, FragMade
  <2>11. v.access = access /\ v.pending = <<>> /\ v.acc = body.acc
    BY <2>4, Zenon DEF FragRec
  <2>12. SameStacks(w.access, v.access)
    BY <1>8, <1>14, <2>7, <2>11 DEF SameStacks
  <2>13. ASSUME Listed(w) PROVE FragPending(v, Complete) = {} /\ \A f \in Frags : FragDone(w, v, n, f)
    <3>1. \A f \in Frags : FragDone(w, body, n, f)
      BY <1>7, <2>13, RunEnds
    <3>2. /\ DOMAIN access = DOMAIN done.access /\ access[Complete].pending = {}
          /\ \A f \in DOMAIN access : f # Complete => access[f] = done.access[f]
      BY <2>5, <2>6 DEF Repended, SameStacks
    <3>3. \A f : f # Complete => FragPending(v, f) = FragPending(body, f)
      BY <1>14, <2>11, <3>2 DEF FragPending
    <3>4. FragPending(v, Complete) = {}
      BY <2>5, <2>11, <3>2 DEF FragPending
    <3>5. v.writes = writes /\ writes.frags = Set(done.writes.frags, Complete, n)
      BY <2>1, <2>4 DEF FragRec, FlushCompleteWrite
    <3>6. \A f : f # Complete => FragWriter(v, f) = FragWriter(body, f)
      BY <1>14, <3>5 DEF FragWriter, Set
    <3>7. \A f \in Frags : f # Complete
      BY GraphAssumption
    <3>8. QED
      BY <2>11, <3>1, <3>3, <3>4, <3>6, <3>7 DEF FragDone
  <2>14. FragFlushed(w, v, n)
    BY <1>8, <2>11, <2>12, <2>13 DEF FragFlushed
  <2>15. QED
    BY <1>5, <2>10, <2>14, Zenon
<1>18. CASE ~(w.pending # <<>> /\ "W" \in FragPending(body, Complete))
  <2>1. v = done
    BY <1>6, <1>16, <1>18 DEF FlushEnd
  <2>2. FragPending(w, Complete) \subseteq {"R", "W"}
    BY DEF FragType, FragAccessType, FragPending
  <2>3. ASSUME Listed(w)
        PROVE  FragPending(body, Complete) = {} /\ \A f \in Frags : FragDone(w, body, n, f)
    <3>1. /\ FragPending(body, Complete) = FragPending(w, Complete) \ {"R"}
          /\ \A f \in Frags : FragDone(w, body, n, f)
      BY <1>7, <2>3, RunEnds
    <3>2. CASE w.pending = <<>>
      <4>1. \A f : ~InList(w.pending, Len(w.pending), f)
        BY <3>2 DEF InList
      <4>2. FragPending(w, Complete) = {}
        BY <2>3, <4>1 DEF Listed, FragPending
      <4>3. QED
        BY <3>1, <4>2
    <3>3. CASE "W" \notin FragPending(body, Complete)
      BY <2>2, <3>1, <3>3
    <3>4. QED
      BY <1>18, <3>2, <3>3
  <2>4. \A f \in Frags : FragDone(w, body, n, f) => FragDone(w, done, n, f)
    BY <1>14, <1>15 DEF FragDone
  <2>5. FragFlushed(w, done, n)
    BY <1>8, <1>14, <1>15, <2>3, <2>4 DEF FragFlushed
  <2>6. QED
    BY <1>5, <1>13, <2>1, <2>5, Zenon
<1>19. QED
  BY <1>17, <1>18

\* The fragment watcher without accesses.
LEMMA FragReset ==
  ASSUME NEW N \in Nat, NEW f, FragType(f, N), f.pending = <<>>, NEW v, v = [f EXCEPT !.access = <<>>, !.acc = NoAccesses]
  PROVE  /\ FragType(v, N) /\ v.access = <<>> /\ v.pending = <<>> /\ v.writes = f.writes /\ v.acc = NoAccesses
<1>1. /\ f = [access |-> f.access, pending |-> f.pending, acc |-> f.acc, writes |-> f.writes]
      /\ WritesType(f.writes, N)
  BY FragParts
<1>2. v = [access |-> <<>>, pending |-> f.pending, acc |-> NoAccesses, writes |-> f.writes]
  BY <1>1
<1>3. FragRec(v, <<>>, <<>>, NoAccesses, f.writes)
  BY <1>2, FragFields
<1>4. AccessMap(<<>>) /\ PendingFrags(<<>>, <<>>)
  BY DEF AccessMap, PendingFrags
<1>5. AccType(NoAccesses, N)
  BY DEF AccType, NoAccesses
<1>6. FragType(v, N)
  BY <1>1, <1>3, <1>4, <1>5, FragMade
<1>7. QED
  BY <1>3, <1>6 DEF FragRec

-----------------------------------------------------------------------------
(***************************************************************************)
(* What the fragment watcher knows of the fields: of the last writer of a  *)
(* field, unless that node wrote the whole object, and of the nodes with   *)
(* an access to a field or to the whole object.                            *)
(***************************************************************************)
\* The next flush makes node m a dependency of node n.
FragComing(w, c, n, m) ==
  n = c /\ \E f \in Frags : "R" \in FragPending(w, f) /\ m = FragWriter(w, f)

\* The watcher knows that n depends on m, or will after the next flush.
FieldDep(w, c, n, m) == m \in DepsOf(w.acc, n) \/ FragComing(w, c, n, m)

\* What the watcher holds of field f, which m wrote last, when c is the current
\* node: its writer, unless c is; and of a node with an access at some depth,
\* that it needs no more of m.
WriterAt(w, c, m, f) == m = IF "W" \in FragPending(w, f) THEN c ELSE FragWriter(w, f)

\* An entry with a write is of the last writer; one with any access needs no
\* more of it.
EntryOK(w, c, m, H, e) ==
  /\ "W" \in e.mode => m = e.node
  /\ e.mode # {} => m \in {0, e.node} \/ m \in H \/ FieldDep(w, c, e.node, m)

\* So it is at every depth of field f.
EntriesOK(w, c, m, H, f) ==
  f \in DOMAIN w.access => \A d \in 0 .. MaxDepth : EntryOK(w, c, m, H, w.access[f].stack[d])

\* The same of a node with an access to the whole object.
WholeOK(wf, H, nd, e) ==
  /\ "W" \in e.mode => e.node \in H
  /\ e.mode # {} => \A g \in Frags : wf[g] \in {0, e.node} \/ wf[g] \in H \/ <<"object", e.node, wf[g]>> \in nd

\* WholeOK for every depth of the stack of the whole object.
WholesOK(w, wf, H, nd) ==
  Complete \in DOMAIN w.access => \A d \in 0 .. MaxDepth : WholeOK(wf, H, nd, w.access[Complete].stack[d])

\* A write of the whole object clears the accesses of its fields, a write of a
\* field those of the whole object.
WrittenAt(w, f) == f \in DOMAIN w.access /\ \E d \in 0 .. MaxDepth : "W" \in w.access[f].stack[d].mode

\* A pending write of the whole object leaves no pending write of a field.
WholeAlone(w) == WrittenAt(w, Complete) => \A f \in Frags : ~WrittenAt(w, f)

\* What the watcher holds of all fields; wf has the last writers.
FieldsHold(w, c, wf, H, nd) ==
  /\ Listed(w) /\ WholeAlone(w) /\ WholesOK(w, wf, H, nd)
  /\ \A f \in Frags : (wf[f] \in H \/ WriterAt(w, c, wf[f], f)) /\ EntriesOK(w, c, wf[f], H, f)

\* old has the same pending modes as access.
SamePending(access, old) ==
  /\ DOMAIN old = DOMAIN access
  /\ \A g \in DOMAIN access : old[g].pending = access[g].pending

\* The entry of the depth d of field f after an access by node n.
AddedAt(v, old, d, n, f, mode) ==
  /\ v.access[f].stack[d].node = n
  /\ v.access[f].stack[d].mode = {mode} \cup GetMode(old, f, d, n)
  /\ \A c \in 0 .. MaxDepth : c # d => v.access[f].stack[c] = Fragment(old, f).stack[c]

\* The field f is pending with one mode more; no writer and no dependency
\* changed.
AddedPending(w, v, f, mode) ==
  /\ v.acc = w.acc /\ \A g : FragWriter(v, g) = FragWriter(w, g)
  /\ FragPending(v, f) = FragPending(w, f) \cup {mode}
  /\ \A g : g # f => FragPending(v, g) = FragPending(w, g)

\* What an access by node n at depth d to field f changes.
AddedTo(w, v, old, d, n, f, mode) ==
  /\ AddedPending(w, v, f, mode) /\ AddedAt(v, old, d, n, f, mode)
  /\ DOMAIN v.access = DOMAIN w.access \cup {f}
  /\ \A g \in DOMAIN w.access : g # f => v.access[g] = old[g]
  /\ Listed(w) => Listed(v)

\* FragAdded says so.
LEMMA AddedSays ==
  ASSUME NEW N, NEW w, FragType(w, N), NEW v, NEW old, AccessMap(old), SamePending(w.access, old),
         NEW d \in 0 .. MaxDepth, NEW n, NEW f \in FragSet, NEW mode \in {"R", "W"}, FragAdded(w, v, old, d, n, f, mode)
  PROVE  AddedTo(w, v, old, d, n, f, mode)
<1>1. PICK b : Entered(old, v.access, f, b) /\ AccessAdded(Fragment(old, f), b, d, n, mode)
  BY DEF FragAdded
<1>2. v.acc = w.acc /\ v.writes = w.writes /\ v.pending = Append(w.pending, f)
  BY DEF FragAdded
<1>3. /\ DOMAIN v.access = DOMAIN w.access \cup {f} /\ v.access[f] = b
      /\ \A g \in DOMAIN w.access : g # f => v.access[g] = old[g]
  BY <1>1 DEF Entered, SamePending
<1>4. PICK a : a = Fragment(old, f)
  OBVIOUS
<1>5. /\ f \in DOMAIN w.access => a = old[f] /\ a.pending = w.access[f].pending
      /\ f \notin DOMAIN w.access => a = NewFragAccess /\ a.pending = {}
  BY <1>4, FragmentIs, NewAccessIs DEF SamePending
<1>6. AccessAdded(a, b, d, n, mode)
  BY <1>1, <1>4
<1>7. b.pending = a.pending \cup {mode}
  BY <1>6 DEF AccessAdded
<1>8. a.pending = FragPending(w, f)
  BY <1>5 DEF FragPending
<1>9. FragPending(v, f) = FragPending(w, f) \cup {mode}
  BY <1>3, <1>7, <1>8 DEF FragPending
<1>10. ASSUME NEW g, g # f PROVE FragPending(v, g) = FragPending(w, g)
  <2>1. CASE g \in DOMAIN w.access
    <3>1. v.access[g].pending = w.access[g].pending /\ g \in DOMAIN v.access
      BY <1>3, <1>10, <2>1 DEF SamePending
    <3>2. QED
      BY <2>1, <3>1 DEF FragPending
  <2>2. CASE g \notin DOMAIN w.access
    <3>1. g \notin DOMAIN v.access
      BY <1>3, <1>10, <2>2
    <3>2. QED
      BY <2>2, <3>1 DEF FragPending
  <2>3. QED
    BY <2>1, <2>2
<1>11. \A g : FragWriter(v, g) = FragWriter(w, g)
  BY <1>2 DEF FragWriter
<1>12. AddedPending(w, v, f, mode)
  BY <1>2, <1>9, <1>10, <1>11 DEF AddedPending
<1>13. AddedAt(v, old, d, n, f, mode)
  <2>1. /\ b.stack[d] = [node |-> n, mode |-> {mode} \cup (IF a.stack[d].node = n THEN a.stack[d].mode ELSE {})]
        /\ \A c \in 0 .. MaxDepth : c # d => b.stack[c] = a.stack[c]
    BY <1>6 DEF AccessAdded
  <2>2. b.stack[d].node = n /\ b.stack[d].mode = {mode} \cup (IF a.stack[d].node = n THEN a.stack[d].mode ELSE {})
    BY <2>1
  <2>3. (IF a.stack[d].node = n THEN a.stack[d].mode ELSE {}) = GetMode(old, f, d, n)
    <3>1. CASE f \in DOMAIN w.access
      BY <1>5, <3>1 DEF GetMode, SamePending
    <3>2. CASE f \notin DOMAIN w.access
      <4>1. a.stack[d] = NoAccess
        BY <1>5, <3>2, NewAccessIs
      <4>2. a.stack[d].mode = {}
        BY <4>1 DEF NoAccess
      <4>3. GetMode(old, f, d, n) = {}
        BY <3>2 DEF GetMode, SamePending
      <4>4. QED
        BY <4>2, <4>3
    <3>3. QED
      BY <3>1, <3>2
  <2>4. QED
    BY <1>3, <1>4, <2>1, <2>2, <2>3 DEF AddedAt
<1>14. ASSUME Listed(w) PROVE Listed(v)
  <2>1. PendingFrags(w.pending, w.access)
    BY FragParts
  <2>2. /\ Len(w.pending) \in Nat /\ Len(v.pending) = Len(w.pending) + 1 /\ v.pending[Len(w.pending) + 1] = f
        /\ \A i \in 1 .. Len(w.pending) : v.pending[i] = w.pending[i]
    BY <1>2, <1>3, <2>1, PendingMore
  <2>3. SUFFICES ASSUME NEW g \in DOMAIN v.access, v.access[g].pending # {}
                 PROVE  InList(v.pending, Len(v.pending), g)
    BY DEF Listed
  <2>4. CASE g = f
    BY <2>2, <2>4 DEF InList
  <2>5. CASE g # f
    <3>1. g \in DOMAIN w.access /\ w.access[g].pending # {}
      BY <1>3, <2>3, <2>5 DEF SamePending
    <3>2. PICK i \in 1 .. Len(w.pending) : w.pending[i] = g
      BY <1>14, <3>1 DEF Listed, InList
    <3>3. i \in 1 .. Len(v.pending) /\ v.pending[i] = g
      BY <2>2, <3>2
    <3>4. QED
      BY <3>3 DEF InList
  <2>6. QED
    BY <2>4, <2>5
<1>15. QED
  BY <1>3, <1>12, <1>13, <1>14 DEF AddedTo

\* More that is pending makes no dependency unknown.
LEMMA AddedDeps ==
  ASSUME NEW w, NEW v, NEW f, NEW mode, AddedPending(w, v, f, mode), NEW c
  PROVE  \A n, m : FieldDep(w, c, n, m) => FieldDep(v, c, n, m)
<1>1. \A g : FragPending(w, g) \subseteq FragPending(v, g) /\ FragWriter(v, g) = FragWriter(w, g)
  BY DEF AddedPending
<1>2. v.acc = w.acc
  BY DEF AddedPending
<1>3. \A n, m : FragComing(w, c, n, m) => FragComing(v, c, n, m)
  BY <1>1 DEF FragComing
<1>4. QED
  BY <1>2, <1>3 DEF FieldDep

\* An entry stays sound while no dependency is forgotten.
LEMMA EntryLater ==
  ASSUME NEW w, NEW v, NEW c, NEW m, NEW e, \A x, y : FieldDep(w, c, x, y) => FieldDep(v, c, x, y),
         NEW H, EntryOK(w, c, m, H, e)
  PROVE  EntryOK(v, c, m, H, e)
  BY DEF EntryOK

\* More needs never falsify what is known of an access to the whole object.
LEMMA WholeLater ==
  ASSUME NEW wf, NEW H, NEW nd, NEW ne, nd \subseteq ne, NEW e, WholeOK(wf, H, nd, e)
  PROVE  WholeOK(wf, H, ne, e)
<1>1. /\ "W" \in e.mode => e.node \in H
      /\ e.mode # {} => \A g \in Frags : wf[g] \in {0, e.node} \/ wf[g] \in H \/ <<"object", e.node, wf[g]>> \in nd
  BY DEF WholeOK
<1>2. QED
  BY <1>1, Zenon DEF WholeOK

\* More needs.
LEMMA MoreNeeds ==
  ASSUME NEW w, NEW c, NEW wf, NEW H, NEW nd, NEW ne, nd \subseteq ne, FieldsHold(w, c, wf, H, nd)
  PROVE  FieldsHold(w, c, wf, H, ne)
<1>1. WholesOK(w, wf, H, nd)
  BY DEF FieldsHold
<1>2. WholesOK(w, wf, H, ne)
  <2>1. SUFFICES ASSUME Complete \in DOMAIN w.access, NEW d \in 0 .. MaxDepth
                 PROVE  WholeOK(wf, H, ne, w.access[Complete].stack[d])
    BY DEF WholesOK
  <2>2. PICK e : e = w.access[Complete].stack[d]
    OBVIOUS
  <2>3. WholeOK(wf, H, nd, e)
    BY <1>1, <2>1, <2>2 DEF WholesOK
  <2>4. QED
    BY <2>2, <2>3, WholeLater
<1>3. QED
  BY <1>2 DEF FieldsHold

\* An access that another replaces leaves the other depths alone.
LEMMA OtherDepth ==
  ASSUME NEW old, AccessMap(old), NEW f \in FragSet, NEW k \in 0 .. MaxDepth
  PROVE  Fragment(old, f).stack[k] = IF f \in DOMAIN old THEN old[f].stack[k] ELSE NoAccess
  BY NewAccessIs DEF Fragment, NewStack

\* A read of fragment f by the current node c.
LEMMA ReadKeeps ==
  ASSUME NEW N, NEW w, FragType(w, N), NEW v, NEW d \in 0 .. MaxDepth, NEW c, NEW f \in FragSet,
         FragAdded(w, v, w.access, d, c, f, "R"), GetMode(w.access, f, d, c) = {},
         NEW wf, NEW H, NEW nd, FieldsHold(w, c, wf, H, nd), NEW ne, nd \subseteq ne,
         f = Complete => \A g \in Frags : wf[g] \in {0, c} \/ <<"object", c, wf[g]>> \in ne
  PROVE  /\ FieldsHold(v, c, wf, H, ne) /\ \A n, m : FieldDep(w, c, n, m) => FieldDep(v, c, n, m)
         /\ f \in Frags => wf[f] \in {0, c} \/ wf[f] \in H \/ FieldDep(v, c, c, wf[f])
<1>1. AccessMap(w.access) /\ SamePending(w.access, w.access)
  BY FragParts DEF SamePending
<1>2. /\ AddedPending(w, v, f, "R") /\ AddedAt(v, w.access, d, c, f, "R")
      /\ DOMAIN v.access = DOMAIN w.access \cup {f}
      /\ \A g \in DOMAIN w.access : g # f => v.access[g] = w.access[g]
      /\ Listed(w) => Listed(v)
  <2>1. AddedTo(w, v, w.access, d, c, f, "R")
    BY <1>1, AddedSays
  <2>2. QED
    BY <2>1 DEF AddedTo
<1>3. \A n, m : FieldDep(w, c, n, m) => FieldDep(v, c, n, m)
  BY <1>2, AddedDeps
<1>4. /\ Listed(w) /\ WholeAlone(w) /\ WholesOK(w, wf, H, ne)
      /\ \A g \in Frags : (wf[g] \in H \/ WriterAt(w, c, wf[g], g)) /\ EntriesOK(w, c, wf[g], H, g)
  <2>1. FieldsHold(w, c, wf, H, ne)
    BY MoreNeeds
  <2>2. QED
    BY <2>1 DEF FieldsHold
<1>5. \A g : "W" \in FragPending(v, g) <=> "W" \in FragPending(w, g)
  BY <1>2 DEF AddedPending
<1>6. \A g : FragWriter(v, g) = FragWriter(w, g)
  BY <1>2 DEF AddedPending
<1>7. \A g \in Frags : wf[g] \in H \/ WriterAt(v, c, wf[g], g)
  BY <1>4, <1>5, <1>6 DEF WriterAt
<1>8. f \in Frags => wf[f] \in {0, c} \/ wf[f] \in H \/ FieldDep(v, c, c, wf[f])
  <2>1. SUFFICES ASSUME f \in Frags, wf[f] # 0, wf[f] # c, wf[f] \notin H PROVE FieldDep(v, c, c, wf[f])
    BY Zenon
  <2>2. wf[f] = FragWriter(v, f)
    BY <1>7, <2>1 DEF WriterAt
  <2>3. "R" \in FragPending(v, f)
    BY <1>2 DEF AddedPending
  <2>4. QED
    BY <2>1, <2>2, <2>3 DEF FieldDep, FragComing
<1>9. /\ v.access[f].stack[d].node = c /\ v.access[f].stack[d].mode = {"R"}
      /\ \A k \in 0 .. MaxDepth : k # d => v.access[f].stack[k] = Fragment(w.access, f).stack[k]
  BY <1>2 DEF AddedAt
<1>10. \A k \in 0 .. MaxDepth : k # d =>
         v.access[f].stack[k] = IF f \in DOMAIN w.access THEN w.access[f].stack[k] ELSE NoAccess
  BY <1>1, <1>9, OtherDepth
<1>11. NoAccess.mode = {}
  BY DEF NoAccess
<1>12. \A g : WrittenAt(v, g) => WrittenAt(w, g)
  <2>1. SUFFICES ASSUME NEW g, g \in DOMAIN v.access, NEW k \in 0 .. MaxDepth, "W" \in v.access[g].stack[k].mode
                 PROVE  WrittenAt(w, g)
    BY DEF WrittenAt
  <2>2. CASE g # f
    <3>1. g \in DOMAIN w.access /\ v.access[g] = w.access[g]
      BY <1>2, <2>1, <2>2
    <3>2. QED
      BY <2>1, <3>1 DEF WrittenAt
  <2>3. CASE g = f
    <3>1. k # d
      BY <1>9, <2>1, <2>3
    <3>2. f \in DOMAIN w.access /\ v.access[f].stack[k] = w.access[f].stack[k]
      BY <1>10, <1>11, <2>1, <2>3, <3>1
    <3>3. QED
      BY <2>1, <2>3, <3>2 DEF WrittenAt
  <2>4. QED
    BY <2>2, <2>3
<1>13. WholeAlone(v)
  BY <1>4, <1>12 DEF WholeAlone
<1>14. WholesOK(v, wf, H, ne)
  <2>1. SUFFICES ASSUME Complete \in DOMAIN v.access, NEW k \in 0 .. MaxDepth
                 PROVE  WholeOK(wf, H, ne, v.access[Complete].stack[k])
    BY DEF WholesOK
  <2>2. CASE f # Complete
    <3>1. Complete \in DOMAIN w.access /\ v.access[Complete] = w.access[Complete]
      BY <1>2, <2>1, <2>2
    <3>2. QED
      BY <1>4, <3>1 DEF WholesOK
  <2>3. CASE f = Complete /\ k = d
    <3>1. PICK e : e = v.access[Complete].stack[k]
      OBVIOUS
    <3>2. e.node = c /\ e.mode = {"R"}
      BY <1>9, <2>3, <3>1
    <3>3. \A g \in Frags : wf[g] \in {0, c} \/ <<"object", c, wf[g]>> \in ne
      BY <2>3
    <3>4. WholeOK(wf, H, ne, e)
      BY <3>2, <3>3 DEF WholeOK
    <3>5. QED
      BY <3>1, <3>4
  <2>4. CASE f = Complete /\ k # d
    <3>1. CASE Complete \in DOMAIN w.access
      <4>1. v.access[Complete].stack[k] = w.access[Complete].stack[k]
        BY <1>10, <2>4, <3>1
      <4>2. WholeOK(wf, H, ne, w.access[Complete].stack[k])
        BY <1>4, <3>1 DEF WholesOK
      <4>3. QED
        BY <4>1, <4>2
    <3>2. CASE Complete \notin DOMAIN w.access
      <4>1. v.access[Complete].stack[k] = NoAccess
        BY <1>10, <2>4, <3>2
      <4>2. WholeOK(wf, H, ne, NoAccess)
        BY <1>11 DEF WholeOK
      <4>3. QED
        BY <4>1, <4>2
    <3>3. QED
      BY <3>1, <3>2
  <2>5. QED
    BY <2>2, <2>3, <2>4
<1>15. ASSUME NEW g \in Frags PROVE EntriesOK(v, c, wf[g], H, g)
  <2>1. SUFFICES ASSUME g \in DOMAIN v.access, NEW k \in 0 .. MaxDepth
                 PROVE  EntryOK(v, c, wf[g], H, v.access[g].stack[k])
    BY DEF EntriesOK
  <2>2. CASE g # f
    <3>1. g \in DOMAIN w.access /\ v.access[g] = w.access[g]
      BY <1>2, <2>1, <2>2
    <3>2. EntryOK(w, c, wf[g], H, w.access[g].stack[k])
      BY <1>4, <3>1 DEF EntriesOK
    <3>3. EntryOK(v, c, wf[g], H, w.access[g].stack[k])
      BY <1>3, <3>2, EntryLater
    <3>4. QED
      BY <3>1, <3>3
  <2>3. CASE g = f /\ k = d
    <3>1. PICK e : e = v.access[f].stack[d]
      OBVIOUS
    <3>2. e.node = c /\ e.mode = {"R"}
      BY <1>9, <3>1
    <3>3. EntryOK(v, c, wf[f], H, e)
      BY <1>8, <2>3, <3>2 DEF EntryOK
    <3>4. QED
      BY <2>3, <3>1, <3>3
  <2>4. CASE g = f /\ k # d
    <3>1. CASE f \in DOMAIN w.access
      <4>1. v.access[f].stack[k] = w.access[f].stack[k]
        BY <1>10, <2>4, <3>1
      <4>2. EntryOK(w, c, wf[f], H, w.access[f].stack[k])
        BY <1>4, <2>4, <3>1 DEF EntriesOK
      <4>3. EntryOK(v, c, wf[f], H, w.access[f].stack[k])
        BY <1>3, <4>2, EntryLater
      <4>4. QED
        BY <2>4, <4>1, <4>3
    <3>2. CASE f \notin DOMAIN w.access
      <4>1. v.access[f].stack[k] = NoAccess
        BY <1>10, <2>4, <3>2
      <4>2. EntryOK(v, c, wf[f], H, NoAccess)
        BY <1>11 DEF EntryOK
      <4>3. QED
        BY <2>4, <4>1, <4>2
    <3>3. QED
      BY <3>1, <3>2
  <2>5. QED
    BY <2>2, <2>3, <2>4
<1>16. QED
  BY <1>2, <1>3, <1>4, <1>7, <1>8, <1>13, <1>14, <1>15 DEF FieldsHold

\* Cleared leaves the fields that a write of f does not cover.
ClearedTo(access, old, f) ==
  /\ \A g \in DOMAIN access : g \notin {f, Complete} => old[g] = access[g]
  /\ \A g \in DOMAIN access : g \in {f, Complete} => old[g].stack = NewStack

\* Cleared does so.
LEMMA ClearedSays ==
  ASSUME NEW access, AccessMap(access), NEW f \in Frags
  PROVE  /\ AccessMap(Cleared(access, f)) /\ SamePending(access, Cleared(access, f))
         /\ ClearedTo(access, Cleared(access, f), f)
<1>1. f # Complete
  BY GraphAssumption
<1>2. AccessMap(Cleared(access, f)) /\ DOMAIN Cleared(access, f) = DOMAIN access
  BY ClearedIs
<1>3. ASSUME NEW g \in DOMAIN access
      PROVE  /\ Cleared(access, f)[g].pending = access[g].pending
             /\ g \notin {f, Complete} => Cleared(access, f)[g] = access[g]
             /\ g \in {f, Complete} => Cleared(access, f)[g].stack = NewStack
  <2>1. PICK a : a = access[g]
    OBVIOUS
  <2>2. a = [stack |-> a.stack, pending |-> a.pending]
    BY <2>1 DEF AccessMap, FragAccessType
  <2>3. Cleared(access, f)[g] = IF g \in {f, Complete} THEN [a EXCEPT !.stack = NewStack] ELSE a
    BY <1>1, <2>1 DEF Cleared
  <2>4. [a EXCEPT !.stack = NewStack] = [stack |-> NewStack, pending |-> a.pending]
    BY <2>2
  <2>5. CASE g \in {f, Complete}
    <3>1. Cleared(access, f)[g] = [stack |-> NewStack, pending |-> a.pending]
      BY <2>3, <2>4, <2>5
    <3>2. QED
      BY <2>1, <2>5, <3>1
  <2>6. CASE g \notin {f, Complete}
    BY <2>1, <2>3, <2>6
  <2>7. QED
    BY <2>5, <2>6
<1>4. QED
  BY <1>2, <1>3 DEF SamePending, ClearedTo

\* A write of field f by the current node c.
LEMMA WriteKeeps ==
  ASSUME NEW N, NEW w, FragType(w, N), NEW v, NEW d \in 0 .. MaxDepth, NEW c, NEW f \in Frags,
         FragAdded(w, v, Cleared(w.access, f), d, c, f, "W"), NEW wf, NEW H, NEW nd, FieldsHold(w, c, wf, H, nd),
         NEW vf, vf[f] = c, \A g \in Frags : g # f => vf[g] = wf[g]
  PROVE  FieldsHold(v, c, vf, H, nd) /\ \A n, m : FieldDep(w, c, n, m) => FieldDep(v, c, n, m)
<1>1. PICK old : old = Cleared(w.access, f)
  OBVIOUS
<1>2. AccessMap(old) /\ SamePending(w.access, old) /\ ClearedTo(w.access, old, f)
  <2>1. AccessMap(w.access)
    BY FragParts
  <2>2. /\ AccessMap(Cleared(w.access, f)) /\ SamePending(w.access, Cleared(w.access, f))
        /\ ClearedTo(w.access, Cleared(w.access, f), f)
    BY <2>1, ClearedSays
  <2>3. QED
    BY <1>1, <2>2, Zenon
<1>3. FragAdded(w, v, old, d, c, f, "W") /\ f \in FragSet /\ f # Complete
  BY <1>1, GraphAssumption DEF FragSet
<1>4. /\ AddedPending(w, v, f, "W") /\ AddedAt(v, old, d, c, f, "W")
      /\ DOMAIN v.access = DOMAIN w.access \cup {f}
      /\ \A g \in DOMAIN w.access : g # f => v.access[g] = old[g]
      /\ Listed(w) => Listed(v)
  <2>1. AddedTo(w, v, old, d, c, f, "W")
    BY <1>2, <1>3, AddedSays
  <2>2. QED
    BY <2>1 DEF AddedTo
<1>5. \A n, m : FieldDep(w, c, n, m) => FieldDep(v, c, n, m)
  BY <1>4, AddedDeps
<1>6. /\ Listed(w)
      /\ \A g \in Frags : (wf[g] \in H \/ WriterAt(w, c, wf[g], g)) /\ EntriesOK(w, c, wf[g], H, g)
  BY DEF FieldsHold
<1>7. \A g \in Frags : vf[g] \in H \/ WriterAt(v, c, vf[g], g)
  <2>1. WriterAt(v, c, vf[f], f)
    BY <1>4 DEF WriterAt, AddedPending
  <2>2. ASSUME NEW g \in Frags, g # f PROVE vf[g] \in H \/ WriterAt(v, c, vf[g], g)
    <3>1. FragPending(v, g) = FragPending(w, g) /\ FragWriter(v, g) = FragWriter(w, g)
      BY <1>4, <2>2 DEF AddedPending
    <3>2. (wf[g] \in H \/ WriterAt(w, c, wf[g], g)) /\ vf[g] = wf[g]
      BY <1>6, <2>2
    <3>3. QED
      BY <3>1, <3>2 DEF WriterAt
  <2>3. QED
    BY <2>1, <2>2
<1>8. NewStack = [k \in 0 .. MaxDepth |-> NoAccess] /\ NoAccess.mode = {}
  BY DEF NewStack, NoAccess
<1>9. WholesOK(v, vf, H, nd) /\ WholeAlone(v)
  <2>1. ASSUME Complete \in DOMAIN v.access, NEW k \in 0 .. MaxDepth
        PROVE  v.access[Complete].stack[k].mode = {}
    <3>1. Complete \in DOMAIN w.access /\ v.access[Complete] = old[Complete]
      BY <1>3, <1>4, <2>1
    <3>2. v.access[Complete].stack[k] = NoAccess
      <4>1. old[Complete].stack = NewStack
        BY <1>2, <3>1 DEF ClearedTo
      <4>2. v.access[Complete].stack = NewStack
        BY <3>1, <4>1
      <4>3. QED
        BY <1>8, <4>2
    <3>3. QED
      BY <1>8, <3>2
  <2>2. WholeAlone(v)
    BY <2>1 DEF WholeAlone, WrittenAt
  <2>3. WholesOK(v, vf, H, nd)
    BY <2>1 DEF WholesOK, WholeOK
  <2>4. QED
    BY <2>2, <2>3
<1>10. \A e : e.mode = {} \/ e.node = c => EntryOK(v, c, c, H, e)
  BY DEF EntryOK
<1>11. ASSUME NEW g \in Frags PROVE EntriesOK(v, c, vf[g], H, g)
  <2>1. SUFFICES ASSUME g \in DOMAIN v.access, NEW k \in 0 .. MaxDepth
                 PROVE  EntryOK(v, c, vf[g], H, v.access[g].stack[k])
    BY DEF EntriesOK
  <2>2. CASE g # f
    <3>1. g # Complete
      BY GraphAssumption
    <3>2. g \in DOMAIN w.access /\ v.access[g] = w.access[g] /\ vf[g] = wf[g]
      BY <1>2, <1>4, <2>1, <2>2, <3>1 DEF ClearedTo
    <3>3. EntryOK(w, c, wf[g], H, w.access[g].stack[k])
      BY <1>6, <3>2 DEF EntriesOK
    <3>4. EntryOK(v, c, wf[g], H, w.access[g].stack[k])
      BY <1>5, <3>3, EntryLater
    <3>5. QED
      BY <3>2, <3>4
  <2>3. CASE g = f
    <3>1. PICK e : e = v.access[f].stack[k]
      OBVIOUS
    <3>2. CASE k = d
      <4>1. e.node = c
        BY <1>4, <3>1, <3>2 DEF AddedAt
      <4>2. EntryOK(v, c, c, H, e)
        BY <1>10, <4>1
      <4>3. QED
        BY <2>3, <3>1, <4>2
    <3>3. CASE k # d
      <4>1. e = Fragment(old, f).stack[k]
        BY <1>4, <3>1, <3>3 DEF AddedAt
      <4>2. Fragment(old, f).stack = NewStack
        <5>1. CASE f \in DOMAIN w.access
          BY <1>2, <5>1 DEF Fragment, SamePending, ClearedTo
        <5>2. CASE f \notin DOMAIN w.access
          BY <1>2, <5>2, NewAccessIs DEF Fragment, SamePending
        <5>3. QED
          BY <5>1, <5>2
      <4>3. e.mode = {}
        BY <1>8, <4>1, <4>2
      <4>4. EntryOK(v, c, c, H, e)
        BY <1>10, <4>3
      <4>5. QED
        BY <2>3, <3>1, <4>4
    <3>4. QED
      BY <3>2, <3>3
  <2>4. QED
    BY <2>2, <2>3
<1>12. QED
  BY <1>4, <1>5, <1>6, <1>7, <1>9, <1>11 DEF FieldsHold

\* What the accesses are after a write of the whole object has cleared those
\* of its fields.
WholeCleared(access, old) ==
  /\ AccessMap(old) /\ DOMAIN old = DOMAIN access
  /\ \A g \in DOMAIN access :
       IF g = Complete THEN old[g] = access[g]
       ELSE old[g].stack = NewStack /\ old[g].pending = access[g].pending \ {"W"}

\* Cleared does that.
LEMMA WholeClearedIs ==
  ASSUME NEW access, AccessMap(access)
  PROVE  WholeCleared(access, Cleared(access, Complete))
<1>1. AccessMap(Cleared(access, Complete)) /\ DOMAIN Cleared(access, Complete) = DOMAIN access
  BY ClearedIs
<1>2. \A g \in DOMAIN access :
        Cleared(access, Complete)[g] = IF g = Complete THEN access[g]
                                       ELSE [stack |-> NewStack, pending |-> access[g].pending \ {"W"}]
  BY DEF Cleared
<1>3. QED
  BY <1>1, <1>2 DEF WholeCleared

\* A write of the whole object by the current node c.
LEMMA WholeWriteKeeps ==
  ASSUME NEW N, NEW w, FragType(w, N), NEW v, NEW d \in 0 .. MaxDepth, NEW c,
         FragAdded(w, v, Cleared(w.access, Complete), d, c, Complete, "W"),
         NEW wf, NEW H, NEW nd, FieldsHold(w, c, wf, H, nd),
         NEW vf, \A g \in Frags : vf[g] = c, NEW G, G = H \cup {c}
  PROVE  FieldsHold(v, c, vf, G, nd) /\ \A n, m : FieldDep(w, c, n, m) => FieldDep(v, c, n, m)
<1>1. PICK old : old = Cleared(w.access, Complete)
  OBVIOUS
<1>2. AccessMap(w.access) /\ PendingFrags(w.pending, w.access)
  BY FragParts
<1>3. WholeCleared(w.access, old)
  BY <1>1, <1>2, WholeClearedIs, Zenon
<1>4. /\ AccessMap(old) /\ DOMAIN old = DOMAIN w.access
      /\ \A g \in DOMAIN w.access :
           IF g = Complete THEN old[g] = w.access[g]
           ELSE old[g].stack = NewStack /\ old[g].pending = w.access[g].pending \ {"W"}
  BY <1>3, Zenon DEF WholeCleared
<1>5. FragAdded(w, v, old, d, c, Complete, "W")
  BY <1>1, Zenon
<1>6. v.acc = w.acc /\ v.writes = w.writes /\ v.pending = Append(w.pending, Complete)
  BY <1>5 DEF FragAdded
<1>7. PICK b : Entered(old, v.access, Complete, b) /\ AccessAdded(Fragment(old, Complete), b, d, c, "W")
  BY <1>5 DEF FragAdded
<1>8. /\ DOMAIN v.access = DOMAIN w.access \cup {Complete} /\ v.access[Complete] = b
      /\ \A g \in DOMAIN w.access : g # Complete => v.access[g] = old[g]
  BY <1>4, <1>7 DEF Entered
<1>9. \A g \in DOMAIN v.access : g # Complete =>
        /\ g \in DOMAIN w.access /\ v.access[g].stack = NewStack
        /\ v.access[g].pending = w.access[g].pending \ {"W"}
  BY <1>4, <1>8
<1>10. \A g \in Frags : g # Complete
  BY GraphAssumption
<1>11. \A n, m : FieldDep(w, c, n, m) => FieldDep(v, c, n, m)
  <2>1. \A g : FragWriter(v, g) = FragWriter(w, g)
    BY <1>6 DEF FragWriter
  <2>2. \A g \in Frags : "R" \in FragPending(w, g) => "R" \in FragPending(v, g)
    BY <1>8, <1>9, <1>10 DEF FragPending
  <2>3. \A n, m : FragComing(w, c, n, m) => FragComing(v, c, n, m)
    BY <2>1, <2>2 DEF FragComing
  <2>4. QED
    BY <1>6, <2>3 DEF FieldDep
<1>12. Listed(w) /\ WholesOK(w, wf, H, nd)
  BY DEF FieldsHold
<1>13. Listed(v)
  <2>1. /\ Len(w.pending) \in Nat /\ Len(v.pending) = Len(w.pending) + 1 /\ v.pending[Len(w.pending) + 1] = Complete
        /\ \A i \in 1 .. Len(w.pending) : v.pending[i] = w.pending[i]
    <3>1. Complete \in FragSet
      BY DEF FragSet
    <3>2. QED
      BY <1>2, <1>6, <1>8, <3>1, PendingMore
  <2>2. SUFFICES ASSUME NEW g \in DOMAIN v.access, v.access[g].pending # {}
                 PROVE  InList(v.pending, Len(v.pending), g)
    BY DEF Listed
  <2>3. CASE g = Complete
    BY <2>1, <2>3 DEF InList
  <2>4. CASE g # Complete
    <3>1. g \in DOMAIN w.access /\ w.access[g].pending # {}
      BY <1>9, <2>2, <2>4
    <3>2. PICK i \in 1 .. Len(w.pending) : w.pending[i] = g
      BY <1>12, <3>1 DEF Listed, InList
    <3>3. i \in 1 .. Len(v.pending) /\ v.pending[i] = g
      BY <2>1, <3>2
    <3>4. QED
      BY <3>3 DEF InList
  <2>5. QED
    BY <2>3, <2>4
<1>14. NoAccess.mode = {} /\ \A k \in 0 .. MaxDepth : NewStack[k] = NoAccess
  BY DEF NewStack, NoAccess
<1>15. \A g \in Frags : g \in DOMAIN v.access => \A k \in 0 .. MaxDepth : v.access[g].stack[k].mode = {}
  BY <1>9, <1>10, <1>14
<1>16. WholeAlone(v)
  BY <1>15 DEF WholeAlone, WrittenAt
<1>17. \A g \in Frags : EntriesOK(v, c, vf[g], G, g)
  BY <1>15 DEF EntriesOK, EntryOK
<1>18. c \in G /\ \A x : x \in H => x \in G
  OBVIOUS
<1>19. WholesOK(v, vf, G, nd)
  <2>1. SUFFICES ASSUME Complete \in DOMAIN v.access, NEW k \in 0 .. MaxDepth
                 PROVE  WholeOK(vf, G, nd, v.access[Complete].stack[k])
    BY DEF WholesOK
  <2>2. PICK e : e = v.access[Complete].stack[k]
    OBVIOUS
  <2>3. "W" \in e.mode => e.node \in G
    <3>1. CASE k = d
      <4>1. PICK a : a = Fragment(old, Complete)
        OBVIOUS
      <4>2. AccessAdded(a, b, d, c, "W")
        BY <1>7, <4>1
      <4>3. b.stack[d] = [node |-> c, mode |-> {"W"} \cup (IF a.stack[d].node = c THEN a.stack[d].mode ELSE {})]
        BY <4>2 DEF AccessAdded
      <4>4. e.node = c
        BY <1>8, <2>2, <3>1, <4>3
      <4>5. QED
        BY <1>18, <4>4
    <3>2. CASE k # d
      <4>1. e = Fragment(old, Complete).stack[k]
        BY <1>7, <1>8, <2>2, <3>2 DEF AccessAdded
      <4>2. Complete \in FragSet
        BY DEF FragSet
      <4>3. e = IF Complete \in DOMAIN old THEN old[Complete].stack[k] ELSE NoAccess
        BY <1>4, <4>1, <4>2, OtherDepth
      <4>4. CASE Complete \in DOMAIN w.access
        <5>1. e = w.access[Complete].stack[k]
          BY <1>4, <4>3, <4>4
        <5>2. WholeOK(wf, H, nd, e)
          BY <1>12, <4>4, <5>1 DEF WholesOK
        <5>3. QED
          BY <1>18, <5>2 DEF WholeOK
      <4>5. CASE Complete \notin DOMAIN w.access
        BY <1>4, <1>14, <4>3, <4>5
      <4>6. QED
        BY <4>4, <4>5
    <3>3. QED
      BY <3>1, <3>2
  <2>4. \A g \in Frags : vf[g] \in G
    BY <1>18
  <2>5. WholeOK(vf, G, nd, e)
    BY <2>3, <2>4, Zenon DEF WholeOK
  <2>6. QED
    BY <2>2, <2>5
<1>20. QED
  BY <1>11, <1>13, <1>16, <1>17, <1>18, <1>19 DEF FieldsHold

\* A write that an access to the whole object covers: what c writes, c wrote.
LEMMA CoveredWrite ==
  ASSUME NEW w, NEW c, NEW d \in 0 .. MaxDepth, "W" \in GetMode(w.access, Complete, d, c),
         NEW wf, NEW H, NEW nd, FieldsHold(w, c, wf, H, nd), NEW vf, \A g \in Frags : vf[g] \in {wf[g], c}
  PROVE  c \in H /\ FieldsHold(w, c, vf, H, nd)
<1>1. /\ Listed(w) /\ WholeAlone(w) /\ WholesOK(w, wf, H, nd)
      /\ \A g \in Frags : (wf[g] \in H \/ WriterAt(w, c, wf[g], g)) /\ EntriesOK(w, c, wf[g], H, g)
  BY DEF FieldsHold
<1>2. Complete \in DOMAIN w.access /\ w.access[Complete].stack[d].node = c /\ "W" \in w.access[Complete].stack[d].mode
  BY DEF GetMode
<1>3. c \in H
  BY <1>1, <1>2 DEF WholesOK, WholeOK
<1>4. \A g \in Frags : ~WrittenAt(w, g)
  BY <1>1, <1>2 DEF WholeAlone, WrittenAt
<1>5. WholesOK(w, vf, H, nd)
  <2>1. SUFFICES ASSUME Complete \in DOMAIN w.access, NEW k \in 0 .. MaxDepth
                 PROVE  WholeOK(vf, H, nd, w.access[Complete].stack[k])
    BY DEF WholesOK
  <2>2. PICK e : e = w.access[Complete].stack[k]
    OBVIOUS
  <2>3. WholeOK(wf, H, nd, e)
    BY <1>1, <2>1, <2>2 DEF WholesOK
  <2>4. ASSUME e.mode # {}, NEW g \in Frags
        PROVE  vf[g] \in {0, e.node} \/ vf[g] \in H \/ <<"object", e.node, vf[g]>> \in nd
    <3>1. CASE vf[g] = c
      BY <1>3, <3>1
    <3>2. CASE vf[g] = wf[g]
      BY <2>3, <2>4, <3>2 DEF WholeOK
    <3>3. QED
      BY <3>1, <3>2
  <2>5. WholeOK(vf, H, nd, e)
    BY <2>3, <2>4 DEF WholeOK
  <2>6. QED
    BY <2>2, <2>5
<1>6. ASSUME NEW g \in Frags PROVE (vf[g] \in H \/ WriterAt(w, c, vf[g], g)) /\ EntriesOK(w, c, vf[g], H, g)
  <2>1. CASE vf[g] = c
    <3>1. ASSUME g \in DOMAIN w.access, NEW k \in 0 .. MaxDepth PROVE EntryOK(w, c, vf[g], H, w.access[g].stack[k])
      <4>1. "W" \notin w.access[g].stack[k].mode
        BY <1>4, <3>1 DEF WrittenAt
      <4>2. QED
        BY <1>3, <2>1, <4>1 DEF EntryOK
    <3>2. QED
      BY <1>3, <2>1, <3>1 DEF EntriesOK
  <2>2. CASE vf[g] = wf[g]
    BY <1>1, <2>2
  <2>3. QED
    BY <2>1, <2>2
<1>7. QED
  BY <1>1, <1>3, <1>5, <1>6 DEF FieldsHold

\* A flush for the current node c: nothing is pending, and what was coming is
\* a dependency.
LEMMA FlushKeeps ==
  ASSUME NEW N, NEW w, FragType(w, N), NEW v, FragType(v, N), NEW c, FragFlushed(w, v, c),
         NEW wf, NEW H, NEW nd, FieldsHold(w, c, wf, H, nd)
  PROVE  /\ \A k : FieldsHold(v, k, wf, H, nd)
         /\ \A n, m : FieldDep(w, c, n, m) /\ m # 0 => m \in DepsOf(v.acc, n)
<1>1. /\ Listed(w) /\ WholeAlone(w) /\ WholesOK(w, wf, H, nd)
      /\ \A g \in Frags : (wf[g] \in H \/ WriterAt(w, c, wf[g], g)) /\ EntriesOK(w, c, wf[g], H, g)
  BY DEF FieldsHold
<1>2. /\ SameStacks(w.access, v.access) /\ AccGrown(w.acc, v.acc, c)
      /\ FragPending(v, Complete) = {} /\ \A f \in Frags : FragDone(w, v, c, f)
  BY <1>1 DEF FragFlushed
<1>3. \A n : DepsOf(w.acc, n) \subseteq DepsOf(v.acc, n)
  BY <1>2 DEF AccGrown
<1>4. ASSUME NEW n, NEW m, FieldDep(w, c, n, m), m # 0 PROVE m \in DepsOf(v.acc, n)
  <2>1. CASE m \in DepsOf(w.acc, n)
    BY <1>3, <2>1
  <2>2. CASE FragComing(w, c, n, m)
    <3>1. PICK f \in Frags : n = c /\ "R" \in FragPending(w, f) /\ m = FragWriter(w, f)
      BY <2>2 DEF FragComing
    <3>2. QED
      BY <1>2, <1>4, <3>1 DEF FragDone
  <2>3. QED
    BY <1>4, <2>1, <2>2 DEF FieldDep
<1>5. \A f \in FragSet : FragPending(v, f) = {}
  BY <1>2 DEF FragDone, FragSet
<1>6. Listed(v)
  <2>1. \A f \in DOMAIN v.access : f \in FragSet
    BY DEF FragType
  <2>2. \A f \in DOMAIN v.access : v.access[f].pending = {}
    BY <1>5, <2>1 DEF FragPending
  <2>3. QED
    BY <2>2 DEF Listed
<1>7. WholeAlone(v) /\ WholesOK(v, wf, H, nd)
  <2>1. \A f : f \in DOMAIN v.access => f \in DOMAIN w.access /\ v.access[f].stack = w.access[f].stack
    BY <1>2 DEF SameStacks
  <2>2. WholesOK(v, wf, H, nd)
    BY <1>1, <2>1 DEF WholesOK
  <2>3. \A f : WrittenAt(v, f) <=> WrittenAt(w, f)
    BY <1>2 DEF SameStacks, WrittenAt
  <2>4. QED
    BY <1>1, <2>2, <2>3 DEF WholeAlone
<1>8. ASSUME NEW k, NEW f \in Frags PROVE wf[f] \in H \/ WriterAt(v, k, wf[f], f)
  <2>1. (wf[f] \in H \/ WriterAt(w, c, wf[f], f)) /\ FragDone(w, v, c, f)
    BY <1>1, <1>2
  <2>2. QED
    BY <2>1 DEF WriterAt, FragDone
<1>9. ASSUME NEW k, NEW f \in Frags PROVE EntriesOK(v, k, wf[f], H, f)
  <2>1. SUFFICES ASSUME f \in DOMAIN v.access, NEW d \in 0 .. MaxDepth
                 PROVE  EntryOK(v, k, wf[f], H, v.access[f].stack[d])
    BY DEF EntriesOK
  <2>2. PICK e : e = w.access[f].stack[d]
    OBVIOUS
  <2>3. f \in DOMAIN w.access /\ v.access[f].stack[d] = e
    BY <1>2, <2>1, <2>2 DEF SameStacks
  <2>4. EntryOK(w, c, wf[f], H, e)
    BY <1>1, <2>2, <2>3 DEF EntriesOK
  <2>5. PICK m : m = wf[f]
    OBVIOUS
  <2>6. /\ "W" \in e.mode => m = e.node
        /\ e.mode # {} => m \in {0, e.node} \/ m \in H \/ FieldDep(w, c, e.node, m)
    BY <2>4, <2>5 DEF EntryOK
  <2>7. e.mode # {} => m \in {0, e.node} \/ m \in H \/ FieldDep(v, k, e.node, m)
    BY <1>4, <2>6 DEF FieldDep
  <2>8. EntryOK(v, k, m, H, e)
    BY <2>6, <2>7 DEF EntryOK
  <2>9. QED
    BY <2>3, <2>5, <2>8
<1>10. QED
  BY <1>4, <1>6, <1>7, <1>8, <1>9 DEF FieldsHold

\* Between commands the watcher holds no accesses.
LEMMA NothingHeld ==
  ASSUME NEW w, NEW v, NEW c, NEW k, NEW wf, NEW H, NEW nd, FieldsHold(w, c, wf, H, nd), \A f : FragPending(w, f) = {},
         v.access = <<>>, v.writes = w.writes
  PROVE  FieldsHold(v, k, wf, H, nd)
<1>1. DOMAIN <<>> = {}
  OBVIOUS
<1>2. \A f : FragPending(v, f) = {} /\ FragWriter(v, f) = FragWriter(w, f)
  BY <1>1 DEF FragPending, FragWriter
<1>3. Listed(v) /\ WholeAlone(v) /\ WholesOK(v, wf, H, nd)
  BY <1>1, <1>2 DEF Listed, WholeAlone, WrittenAt, WholesOK
<1>4. \A f \in Frags : EntriesOK(v, k, wf[f], H, f)
  BY <1>1 DEF EntriesOK
<1>5. \A f \in Frags : wf[f] \in H \/ WriterAt(v, k, wf[f], f)
  BY <1>2 DEF FieldsHold, WriterAt
<1>6. QED
  BY <1>3, <1>4, <1>5 DEF FieldsHold

-----------------------------------------------------------------------------
(***************************************************************************)
(* New nodes.                                                              *)
(***************************************************************************)
\* A node.
NodeType == [kind : {"cmd", "sub", "obs"}, cmd : Nat]

\* A pending node.
PendingType == [node : Nat, parent : Nat, inits : SUBSET Nat]

\* A graph of n nodes.
GraphType(g, n) ==
  /\ g = [nodes |-> g.nodes, deps |-> g.deps, room |-> g.room, unopened |-> g.unopened,
          panicked |-> g.panicked]
  /\ g.nodes \in Seq(NodeType) /\ Len(g.nodes) = n
  /\ g.deps \in Seq(SUBSET Nat) /\ Len(g.deps) = n
  /\ g.room \in Seq(Nat) /\ Len(g.room) = n

\* h is g, of n nodes, with k more of a kind.
Added(g, h, n, k, kind, cmd) ==
  /\ GraphType(h, n + k)
  /\ \A i \in 1 .. n : h.nodes[i] = g.nodes[i] /\ h.deps[i] = g.deps[i] /\ h.room[i] = g.room[i]
  /\ \A i \in n + 1 .. n + k :
       h.nodes[i] = [kind |-> kind, cmd |-> cmd] /\ h.deps[i] = {} /\ h.room[i] = 0
  /\ h.unopened = g.unopened /\ h.panicked = g.panicked

\* One node more.
LEMMA AddedMore ==
  ASSUME NEW g, NEW n \in Nat, NEW k \in Nat, NEW h, NEW kind \in {"cmd", "sub", "obs"}, NEW cmd \in Nat,
         Added(g, h, n, k, kind, cmd)
  PROVE  Added(g, AddNode(h, kind, cmd), n, k + 1, kind, cmd)
<1>1. GraphType(h, n + k)
  BY DEF Added
<1>2. PICK a \in Seq(NodeType), b \in Seq(SUBSET Nat), c \in Seq(Nat) : a = h.nodes /\ b = h.deps /\ c = h.room
  BY <1>1 DEF GraphType
<1>3. PICK m \in Nat : m = n + k /\ Len(a) = m /\ Len(b) = m /\ Len(c) = m
  BY <1>1, <1>2 DEF GraphType
<1>4. PICK x \in NodeType : x = [kind |-> kind, cmd |-> cmd]
  BY DEF NodeType
<1>5. PICK u : u = AddNode(h, kind, cmd)
  OBVIOUS
<1>6. h = [nodes |-> a, deps |-> b, room |-> c, unopened |-> h.unopened, panicked |-> h.panicked]
  BY <1>1, <1>2 DEF GraphType
<1>7. u = [nodes |-> Append(a, x), deps |-> Append(b, {}), room |-> Append(c, 0),
           unopened |-> h.unopened, panicked |-> h.panicked]
  <2>1. u = [h EXCEPT !.nodes = Append(a, x), !.deps = Append(b, {}), !.room = Append(c, 0)]
    BY <1>2, <1>4, <1>5 DEF AddNode
  <2>2. QED
    BY <1>6, <2>1
<1>8. /\ u.nodes = Append(a, x) /\ u.deps = Append(b, {}) /\ u.room = Append(c, 0)
      /\ u.unopened = h.unopened /\ u.panicked = h.panicked
      /\ u = [nodes |-> u.nodes, deps |-> u.deps, room |-> u.room, unopened |-> u.unopened,
              panicked |-> u.panicked]
  BY <1>7
<1>9. /\ u.nodes \in Seq(NodeType) /\ Len(u.nodes) = m + 1 /\ u.nodes[m + 1] = x
      /\ \A i \in 1 .. m : u.nodes[i] = a[i]
  BY <1>3, <1>8, AppendIs
<1>10. /\ u.deps \in Seq(SUBSET Nat) /\ Len(u.deps) = m + 1 /\ u.deps[m + 1] = {}
       /\ \A i \in 1 .. m : u.deps[i] = b[i]
  <2>1. {} \in SUBSET Nat
    OBVIOUS
  <2>2. QED
    BY <1>3, <1>8, <2>1, AppendIs
<1>11. /\ u.room \in Seq(Nat) /\ Len(u.room) = m + 1 /\ u.room[m + 1] = 0
       /\ \A i \in 1 .. m : u.room[i] = c[i]
  <2>1. 0 \in Nat
    OBVIOUS
  <2>2. QED
    BY <1>3, <1>8, <2>1, AppendIs
<1>12. n + (k + 1) = m + 1 /\ 1 .. n \subseteq 1 .. m
  BY <1>3
<1>13. GraphType(u, n + (k + 1))
  BY <1>8, <1>9, <1>10, <1>11, <1>12 DEF GraphType
<1>14. \A i \in 1 .. n : u.nodes[i] = g.nodes[i] /\ u.deps[i] = g.deps[i] /\ u.room[i] = g.room[i]
  BY <1>2, <1>9, <1>10, <1>11, <1>12 DEF Added
<1>15. \A i \in n + 1 .. n + (k + 1) :
         u.nodes[i] = [kind |-> kind, cmd |-> cmd] /\ u.deps[i] = {} /\ u.room[i] = 0
  <2>1. TAKE i \in n + 1 .. n + (k + 1)
  <2>2. CASE i = m + 1
    BY <1>4, <1>9, <1>10, <1>11, <2>2
  <2>3. CASE i # m + 1
    <3>1. i \in n + 1 .. n + k /\ i \in 1 .. m
      BY <1>3, <2>3
    <3>2. QED
      BY <1>2, <1>9, <1>10, <1>11, <3>1 DEF Added
  <2>4. QED
    BY <2>2, <2>3
<1>16. u.unopened = g.unopened /\ u.panicked = g.panicked
  BY <1>8 DEF Added
<1>17. QED
  BY <1>5, <1>13, <1>14, <1>15, <1>16 DEF Added

\* No nodes.
LEMMA AddedNone ==
  ASSUME NEW g, NEW n \in Nat, GraphType(g, n), NEW kind, NEW cmd
  PROVE  Added(g, g, n, 0, kind, cmd)
  BY DEF Added

\* One node.
LEMMA AddedOne ==
  ASSUME NEW g, NEW n \in Nat, GraphType(g, n), NEW kind \in {"cmd", "sub", "obs"}, NEW cmd \in Nat
  PROVE  Added(g, AddNode(g, kind, cmd), n, 1, kind, cmd)
<1>1. Added(g, g, n, 0, kind, cmd)
  BY AddedNone
<1>2. Added(g, AddNode(g, kind, cmd), n, 0 + 1, kind, cmd)
  BY <1>1, AddedMore
<1>3. 0 + 1 = 1
  OBVIOUS
<1>4. QED
  BY <1>2, <1>3

\* A turn of the loop that makes nodes for observations.
NodeTurn(cmd, g, o) == AddNode(g, "obs", cmd)

\* That loop.
NodeFold == INSTANCE FoldLaws WITH Step <- NodeTurn

\* f has the states of that loop after each turn.
NodeRuns(q, base, xs, m, f) ==
  /\ f[0] = base /\ \A j \in 1 .. m : f[j] = NodeTurn(q, f[j - 1], xs[j])
  /\ NodeFold!Fold(q, base, xs) = f[m]

\* They exist.
LEMMA NodeSteps ==
  ASSUME NEW q, NEW base, NEW S, NEW xs \in Seq(S), NEW m \in Nat, m = Len(xs)
  PROVE  \E f : NodeRuns(q, base, xs, m, f)
  BY NodeFold!FoldSteps DEF NodeRuns

\* The nodes of observations are made by a fold.
LEMMA NodesAreFold ==
  ASSUME NEW g, NEW cmd, NEW obs
  PROVE  FoldLeft(LAMBDA h, o : AddNode(h, "obs", cmd), g, obs) = NodeFold!Fold(cmd, g, obs)
  BY DEF FoldLeft, MapThenFoldSet, Max, NodeFold!Fold, NodeFold!MapThenFoldSet, NodeFold!Greatest, NodeTurn

\* It adds one node for each observation.
LEMMA NodesAdded ==
  ASSUME NEW g, NEW n \in Nat, GraphType(g, n), NEW cmd \in Nat, NEW S, NEW obs \in Seq(S),
         NEW k \in Nat, k = Len(obs)
  PROVE  Added(g, NodeFold!Fold(cmd, g, obs), n, k, "obs", cmd)
<1>1. PICK f : NodeRuns(cmd, g, obs, k, f)
  BY NodeSteps
<1>2. /\ f[0] = g /\ \A j \in 1 .. k : f[j] = NodeTurn(cmd, f[j - 1], obs[j])
      /\ NodeFold!Fold(cmd, g, obs) = f[k]
  BY <1>1 DEF NodeRuns
<1> DEFINE Good == {j \in Nat : j <= k => Added(g, f[j], n, j, "obs", cmd)}
<1>3. 0 \in Good
  BY <1>2, AddedNone
<1>4. ASSUME NEW j \in Nat, j \in Good PROVE j + 1 \in Good
  <2>1. SUFFICES ASSUME j + 1 <= k PROVE Added(g, f[j + 1], n, j + 1, "obs", cmd)
    OBVIOUS
  <2>2. j + 1 \in 1 .. k /\ (j + 1) - 1 = j
    BY <2>1
  <2>3. f[j + 1] = AddNode(f[j], "obs", cmd)
    <3>1. f[j + 1] = NodeTurn(cmd, f[(j + 1) - 1], obs[j + 1])
      BY <1>2, <2>2
    <3>2. QED
      BY <2>2, <3>1 DEF NodeTurn
  <2>4. Added(g, f[j], n, j, "obs", cmd)
    BY <1>4, <2>1
  <2>5. QED
    BY <2>3, <2>4, AddedMore
<1> HIDE DEF Good
<1>5. Nat \subseteq Good
  BY <1>3, <1>4, NodeFold!NatSetInduction
<1>6. QED
  BY <1>2, <1>5 DEF Good

\* A pending node.
LEMMA PendingIs ==
  ASSUME NEW n \in Nat, NEW parent \in Nat, NEW inits, inits \subseteq Nat
  PROVE  Pending(n, parent, inits) \in PendingType
  BY DEF Pending, PendingType

-----------------------------------------------------------------------------
(***************************************************************************)
(* The forward watcher.                                                    *)
(***************************************************************************)
\* A forward access.
ForwardAccesses == [pair : Nat, mode : {"open", "close", "drop"}]

\* The forward accesses of node n that were put away; all of them, when c is
\* the current node.
Kept(w, n) == IF n \in DOMAIN w.node THEN w.node[n] ELSE <<>>

\* The forward accesses of node n, when c is the current node.
AccOf(w, c, n) == IF n = c THEN w.acc ELSE Kept(w, n)

\* The forward watcher, with N nodes: what is open has a pair of its own, not
\* closed yet.
ForwardType(w, N) ==
  /\ w = [open |-> w.open, pairs |-> w.pairs, acc |-> w.acc, node |-> w.node, unopened |-> w.unopened]
  /\ w.pairs \in Seq([open : Nat, close : Nat]) 
  /\ \A i \in 1 .. Len(w.pairs) : w.pairs[i].open \in 1 .. N /\ w.pairs[i].close \in 0 .. N
  /\ w.acc \in Seq(ForwardAccesses) /\ DOMAIN w.node \subseteq 1 .. N
  /\ \A n \in DOMAIN w.node : w.node[n] \in Seq(ForwardAccesses)
  /\ \A d \in DOMAIN w.open : w.open[d] \in 1 .. Len(w.pairs) /\ w.pairs[w.open[d]].close = 0
  /\ \A d, e \in DOMAIN w.open : w.open[d] = w.open[e] => d = e

\* The list s has an access of the pair i.
Holds(s, i, mode) == \E k \in 1 .. Len(s) : s[k] = [pair |-> i, mode |-> mode]

\* The accesses s of node n are of pairs that it opened or closed.
AccessList(s, pairs, n) ==
  \A k \in 1 .. Len(s) :
    /\ s[k].pair \in 1 .. Len(pairs)
    /\ s[k].mode = "open" => pairs[s[k].pair].open = n
    /\ s[k].mode = "close" => pairs[s[k].pair].close = n

\* Every pair opened or closed by a pending node has an access of that node.
AccessesHold(w, c, base, N) ==
  /\ \A i \in 1 .. Len(w.pairs) :
       /\ w.pairs[i].open > base => Holds(AccOf(w, c, w.pairs[i].open), i, "open")
       /\ w.pairs[i].close > base => Holds(AccOf(w, c, w.pairs[i].close), i, "close")
  /\ \A n \in base + 1 .. N : AccessList(AccOf(w, c, n), w.pairs, n)

\* A pair of forward nodes.
PairType == [open : Nat, close : Nat]

\* A forward watcher, field by field.
FwdRec(v, open, pairs, acc, node, unopened) ==
  /\ v.open = open /\ v.pairs = pairs /\ v.acc = acc /\ v.node = node /\ v.unopened = unopened
  /\ v = [open |-> v.open, pairs |-> v.pairs, acc |-> v.acc, node |-> v.node, unopened |-> v.unopened]

\* The parts of a forward watcher.
LEMMA FwdFields ==
  ASSUME NEW v, NEW open, NEW pairs, NEW acc, NEW node, NEW unopened,
         v = [open |-> open, pairs |-> pairs, acc |-> acc, node |-> node, unopened |-> unopened]
  PROVE  FwdRec(v, open, pairs, acc, node, unopened)
  BY DEF FwdRec

\* What Access makes of a watcher that is given field by field.
LEMMA AccessRec ==
  ASSUME NEW open, NEW pairs, NEW acc, NEW node, NEW unopened, NEW i, NEW mode
  PROVE  FwdRec(Access([open |-> open, pairs |-> pairs, acc |-> acc, node |-> node, unopened |-> unopened], i, mode),
                open, pairs, Append(acc, [pair |-> i, mode |-> mode]), node, unopened)
  BY DEF FwdRec, Access

\* The parts of ForwardType.
OpenType(open, pairs) ==
  /\ \A d \in DOMAIN open : open[d] \in 1 .. Len(pairs) /\ pairs[open[d]].close = 0
  /\ \A d, e \in DOMAIN open : open[d] = open[e] => d = e

\* Pairs of N nodes.
PairsType(pairs, N) ==
  /\ pairs \in Seq(PairType)
  /\ \A i \in 1 .. Len(pairs) : pairs[i].open \in 1 .. N /\ pairs[i].close \in 0 .. N

\* The accesses put away for nodes.
NodeAccType(node, N) == DOMAIN node \subseteq 1 .. N /\ \A n \in DOMAIN node : node[n] \in Seq(ForwardAccesses)

\* The type of the forward watcher, part by part.
LEMMA ForwardParts ==
  ASSUME NEW w, NEW N
  PROVE  ForwardType(w, N) <=>
           /\ w = [open |-> w.open, pairs |-> w.pairs, acc |-> w.acc, node |-> w.node, unopened |-> w.unopened]
           /\ PairsType(w.pairs, N) /\ w.acc \in Seq(ForwardAccesses) /\ NodeAccType(w.node, N)
           /\ OpenType(w.open, w.pairs)
  BY DEF ForwardType, PairsType, NodeAccType, OpenType, PairType

\* The accesses of a node are a sequence of accesses.
LEMMA AccSeq ==
  ASSUME NEW w, NEW N, ForwardType(w, N), NEW c, NEW n
  PROVE  AccOf(w, c, n) \in Seq(ForwardAccesses) /\ Kept(w, n) \in Seq(ForwardAccesses) /\ Len(AccOf(w, c, n)) \in Nat
<1>1. w.acc \in Seq(ForwardAccesses) /\ NodeAccType(w.node, N)
  BY ForwardParts
<1>2. <<>> \in Seq(ForwardAccesses)
  OBVIOUS
<1>3. Kept(w, n) \in Seq(ForwardAccesses)
  BY <1>1, <1>2 DEF Kept, NodeAccType
<1>4. AccOf(w, c, n) \in Seq(ForwardAccesses)
  BY <1>1, <1>3 DEF AccOf
<1>5. QED
  BY <1>3, <1>4

\* An access.
LEMMA AccessIs ==
  ASSUME NEW i \in Nat, NEW mode \in {"open", "close", "drop"}
  PROVE  /\ [pair |-> i, mode |-> mode] \in ForwardAccesses
         /\ [pair |-> i, mode |-> mode].pair = i /\ [pair |-> i, mode |-> mode].mode = mode
  BY DEF ForwardAccesses

\* What a list holds after one more access.
LEMMA HoldsAppend ==
  ASSUME NEW s \in Seq(ForwardAccesses), NEW a \in ForwardAccesses
  PROVE  /\ Append(s, a) \in Seq(ForwardAccesses)
         /\ \A i, mode : Holds(s, i, mode) => Holds(Append(s, a), i, mode)
         /\ \A i, mode : a = [pair |-> i, mode |-> mode] => Holds(Append(s, a), i, mode)
<1>1. PICK n \in Nat : n = Len(s)
  OBVIOUS
<1>2. PICK t : t = Append(s, a)
  OBVIOUS
<1>3. t \in Seq(ForwardAccesses) /\ Len(t) = n + 1 /\ t[n + 1] = a /\ \A k \in 1 .. n : t[k] = s[k]
  BY <1>1, <1>2, AppendIs
<1>4. ASSUME NEW i, NEW mode, Holds(s, i, mode) PROVE Holds(t, i, mode)
  <2>1. PICK k \in 1 .. n : s[k] = [pair |-> i, mode |-> mode]
    BY <1>1, <1>4 DEF Holds
  <2>2. k \in 1 .. n + 1 /\ t[k] = [pair |-> i, mode |-> mode]
    BY <1>3, <2>1
  <2>3. QED
    BY <1>3, <2>2 DEF Holds
<1>5. ASSUME NEW i, NEW mode, a = [pair |-> i, mode |-> mode] PROVE Holds(t, i, mode)
  <2>1. n + 1 \in 1 .. n + 1 /\ t[n + 1] = [pair |-> i, mode |-> mode]
    BY <1>3, <1>5
  <2>2. QED
    BY <1>3, <2>1 DEF Holds
<1>6. QED
  BY <1>2, <1>3, <1>4, <1>5

\* An access of a pair that the node opened or closed may be appended.
LEMMA ListAppend ==
  ASSUME NEW s \in Seq(ForwardAccesses), NEW a \in ForwardAccesses, NEW pairs, NEW n, AccessList(s, pairs, n),
         a.pair \in 1 .. Len(pairs), a.mode = "open" => pairs[a.pair].open = n,
         a.mode = "close" => pairs[a.pair].close = n
  PROVE  AccessList(Append(s, a), pairs, n)
<1>1. PICK m \in Nat : m = Len(s)
  OBVIOUS
<1>2. PICK t : t = Append(s, a)
  OBVIOUS
<1>3. t \in Seq(ForwardAccesses) /\ Len(t) = m + 1 /\ t[m + 1] = a /\ \A k \in 1 .. m : t[k] = s[k]
  BY <1>1, <1>2, AppendIs
<1>4. ASSUME NEW k \in 1 .. m + 1
      PROVE  /\ t[k].pair \in 1 .. Len(pairs)
             /\ t[k].mode = "open" => pairs[t[k].pair].open = n
             /\ t[k].mode = "close" => pairs[t[k].pair].close = n
  <2>1. CASE k = m + 1
    BY <1>3, <2>1
  <2>2. CASE k # m + 1
    <3>1. k \in 1 .. m
      BY <2>2
    <3>2. t[k] = s[k]
      BY <1>3, <3>1
    <3>3. QED
      BY <1>1, <3>1, <3>2 DEF AccessList
  <2>3. QED
    BY <2>1, <2>2
<1>5. QED
  BY <1>2, <1>3, <1>4 DEF AccessList

\* What opening, closing and dropping do, at node c.
Opened(w, v, c) ==
  /\ v.pairs = Append(w.pairs, [open |-> c, close |-> 0])
  /\ v.acc = Append(w.acc, [pair |-> Len(w.pairs) + 1, mode |-> "open"])
  /\ v.node = w.node /\ v.unopened = w.unopened

\* v is w after node c closed pair i.
Closed(w, v, i, c) ==
  /\ i \in 1 .. Len(w.pairs) /\ w.pairs[i].close = 0
  /\ Len(v.pairs) = Len(w.pairs)
  /\ \A j \in 1 .. Len(w.pairs) : j # i => v.pairs[j] = w.pairs[j]
  /\ v.pairs[i] = [open |-> w.pairs[i].open, close |-> c]
  /\ v.acc = Append(w.acc, [pair |-> i, mode |-> "close"])
  /\ v.node = w.node /\ v.unopened = w.unopened

\* v is w after pair i was dropped.
Dropped(w, v, i) ==
  /\ i \in 1 .. Len(w.pairs) /\ v.pairs = w.pairs
  /\ v.acc = Append(w.acc, [pair |-> i, mode |-> "drop"])
  /\ v.node = w.node /\ v.unopened = w.unopened

\* The list of pairs with a new one, which node c opened.
Wider(t, pairs, c) ==
  /\ Len(t) = Len(pairs) + 1 /\ t[Len(pairs) + 1] = [open |-> c, close |-> 0]
  /\ \A i \in 1 .. Len(pairs) : t[i] = pairs[i]

\* A new pair.
LEMMA PairsAppend ==
  ASSUME NEW N \in Nat, NEW pairs, PairsType(pairs, N), NEW c \in 1 .. N
  PROVE  /\ PairsType(Append(pairs, [open |-> c, close |-> 0]), N)
         /\ Wider(Append(pairs, [open |-> c, close |-> 0]), pairs, c)
<1>0. PICK k \in Nat : k = Len(pairs)
  BY DEF PairsType
<1>00. PICK t : t = Append(pairs, [open |-> c, close |-> 0])
  OBVIOUS
<1>1. [open |-> c, close |-> 0] \in PairType
  BY DEF PairType
<1>2. pairs \in Seq(PairType)
  BY DEF PairsType
<1>3. t \in Seq(PairType) /\ Len(t) = k + 1 /\ t[k + 1] = [open |-> c, close |-> 0] /\ \A i \in 1 .. k : t[i] = pairs[i]
  BY <1>0, <1>00, <1>1, <1>2, AppendIs
<1>4. ASSUME NEW i \in 1 .. k + 1 PROVE t[i].open \in 1 .. N /\ t[i].close \in 0 .. N
  <2>1. CASE i = k + 1
    BY <1>3, <2>1
  <2>2. CASE i # k + 1
    <3>1. i \in 1 .. k
      BY <2>2
    <3>2. QED
      BY <1>0, <1>3, <3>1 DEF PairsType
  <2>3. QED
    BY <2>1, <2>2
<1>5. PairsType(t, N)
  BY <1>3, <1>4 DEF PairsType
<1>6. Wider(t, pairs, c)
  BY <1>0, <1>3 DEF Wider
<1>7. QED
  BY <1>00, <1>5, <1>6, Zenon

\* The map of open dependencies after d was opened as pair i.
OpenedMap(open, old, d, i) ==
  \/ open = old
  \/ /\ d \notin DOMAIN old /\ DOMAIN open = DOMAIN old \cup {d} /\ open[d] = i
     /\ \A e \in DOMAIN old : open[e] = old[e]

\* t has one pair more than pairs, which is not closed.
Longer(t, pairs, k) == Len(t) = k + 1 /\ t[k + 1].close = 0 /\ \A i \in 1 .. k : t[i] = pairs[i]

\* The map of what is open with one more.
LEMMA OpenedType ==
  ASSUME NEW k \in Nat, NEW old, NEW open, NEW d, NEW pairs, NEW t, OpenType(old, pairs), k = Len(pairs),
         OpenedMap(open, old, d, k + 1), Longer(t, pairs, k)
  PROVE  OpenType(open, t)
<1>0. Len(t) = k + 1 /\ t[k + 1].close = 0 /\ \A i \in 1 .. k : t[i] = pairs[i]
  BY DEF Longer
<1>1. \A e \in DOMAIN old : old[e] \in 1 .. k /\ pairs[old[e]].close = 0
  BY DEF OpenType
<1>2. \A e \in DOMAIN old : old[e] \in 1 .. k + 1 /\ t[old[e]].close = 0 /\ old[e] # k + 1
  BY <1>0, <1>1
<1>3. \A e, f \in DOMAIN old : old[e] = old[f] => e = f
  BY DEF OpenType
<1>4. CASE open = old
  BY <1>0, <1>2, <1>3, <1>4 DEF OpenType
<1>5. CASE /\ d \notin DOMAIN old /\ DOMAIN open = DOMAIN old \cup {d} /\ open[d] = k + 1
           /\ \A e \in DOMAIN old : open[e] = old[e]
  <2>1. \A e \in DOMAIN open : open[e] \in 1 .. Len(t) /\ t[open[e]].close = 0
    <3>1. k + 1 \in 1 .. Len(t) /\ t[k + 1].close = 0
      BY <1>0
    <3>2. QED
      BY <1>0, <1>2, <1>5, <3>1
  <2>2. \A e, f \in DOMAIN open : open[e] = open[f] => e = f
    BY <1>2, <1>3, <1>5
  <2>3. QED
    BY <2>1, <2>2 DEF OpenType
<1>6. QED
  BY <1>4, <1>5 DEF OpenedMap

\* An identifier that is open already keeps its pair.
LEMMA OpenedMapIs ==
  ASSUME NEW old, NEW d, NEW i
  PROVE  OpenedMap(IF d \in DOMAIN old THEN old ELSE Set(old, d, i), old, d, i)
<1>1. CASE d \in DOMAIN old
  BY <1>1 DEF OpenedMap
<1>2. CASE d \notin DOMAIN old
  <2>1. /\ DOMAIN Set(old, d, i) = DOMAIN old \cup {d} /\ Set(old, d, i)[d] = i
        /\ \A e \in DOMAIN old : e # d => Set(old, d, i)[e] = old[e]
    BY DEF Set
  <2>2. \A e \in DOMAIN old : Set(old, d, i)[e] = old[e]
    BY <1>2, <2>1
  <2>3. QED
    BY <1>2, <2>1, <2>2 DEF OpenedMap
<1>3. QED
  BY <1>1, <1>2

\* The watcher after an opening is typed.
LEMMA OpenTyped ==
  ASSUME NEW N \in Nat, NEW w, ForwardType(w, N), NEW c \in 1 .. N, NEW d, NEW v, NEW open, NEW t, NEW acc,
         NEW k \in Nat, k = Len(w.pairs), OpenedMap(open, w.open, d, k + 1),
         t = Append(w.pairs, [open |-> c, close |-> 0]), acc = Append(w.acc, [pair |-> k + 1, mode |-> "open"]),
         FwdRec(v, open, t, acc, w.node, w.unopened)
  PROVE  Opened(w, v, c) /\ ForwardType(v, N)
<1>1. PairsType(w.pairs, N) /\ w.acc \in Seq(ForwardAccesses) /\ NodeAccType(w.node, N) /\ OpenType(w.open, w.pairs)
  BY ForwardParts
<1>2. /\ v.open = open /\ v.pairs = t /\ v.acc = acc /\ v.node = w.node /\ v.unopened = w.unopened
      /\ v = [open |-> v.open, pairs |-> v.pairs, acc |-> v.acc, node |-> v.node, unopened |-> v.unopened]
  BY Zenon DEF FwdRec
<1>3. /\ PairsType(t, N) /\ Len(t) = k + 1 /\ t[k + 1] = [open |-> c, close |-> 0]
      /\ \A i \in 1 .. k : t[i] = w.pairs[i]
  <2>1. PairsType(t, N) /\ Wider(t, w.pairs, c)
    BY <1>1, PairsAppend, Zenon
  <2>2. QED
    BY <2>1 DEF Wider
<1>4. acc \in Seq(ForwardAccesses)
  <2>1. k + 1 \in Nat
    OBVIOUS
  <2>2. [pair |-> k + 1, mode |-> "open"] \in ForwardAccesses
    BY <2>1, AccessIs
  <2>3. QED
    BY <1>1, <2>2, HoldsAppend
<1>5. OpenType(open, t)
  <2>1. t[k + 1].close = 0
    BY <1>3
  <2>2. Longer(t, w.pairs, k)
    BY <1>3, <2>1 DEF Longer
  <2>3. PICK old, pairs : old = w.open /\ pairs = w.pairs
    OBVIOUS
  <2>4. OpenType(old, pairs) /\ k = Len(pairs) /\ OpenedMap(open, old, d, k + 1) /\ Longer(t, pairs, k)
    BY <1>1, <2>2, <2>3, Zenon
  <2>5. QED
    BY <2>4, OpenedType, Zenon
<1>6. Opened(w, v, c)
  BY <1>2 DEF Opened
<1>7. ForwardType(v, N)
  BY <1>1, <1>2, <1>3, <1>4, <1>5, ForwardParts
<1>8. QED
  BY <1>6, <1>7

\* What the opening of a forward dependency does.
LEMMA OpenIs ==
  ASSUME NEW N \in Nat, NEW w, ForwardType(w, N), NEW c \in 1 .. N, NEW d
  PROVE  LET v == Access([w EXCEPT !.pairs = Append(@, [open |-> c, close |-> 0]),
                                   !.open = IF d \in DOMAIN @ THEN @ ELSE Set(@, d, Len(w.pairs) + 1)],
                         Len(w.pairs) + 1, "open")
         IN  Opened(w, v, c) /\ ForwardType(v, N)
<1>1. /\ w = [open |-> w.open, pairs |-> w.pairs, acc |-> w.acc, node |-> w.node, unopened |-> w.unopened]
      /\ PairsType(w.pairs, N)
  BY ForwardParts
<1>2. PICK k \in Nat : k = Len(w.pairs)
  BY <1>1 DEF PairsType
<1>3. PICK t, open, acc : /\ t = Append(w.pairs, [open |-> c, close |-> 0])
                          /\ open = (IF d \in DOMAIN w.open THEN w.open ELSE Set(w.open, d, k + 1))
                          /\ acc = Append(w.acc, [pair |-> k + 1, mode |-> "open"])
  OBVIOUS
<1>4. PICK u : u = [w EXCEPT !.pairs = Append(@, [open |-> c, close |-> 0]),
                                   !.open = IF d \in DOMAIN @ THEN @ ELSE Set(@, d, Len(w.pairs) + 1)]
  OBVIOUS
<1>5. u = [open |-> open, pairs |-> t, acc |-> w.acc, node |-> w.node, unopened |-> w.unopened]
  BY <1>1, <1>2, <1>3, <1>4
<1>6. PICK v : v = Access(u, k + 1, "open")
  OBVIOUS
<1>7. FwdRec(v, open, t, acc, w.node, w.unopened)
  <2>1. FwdRec(Access([open |-> open, pairs |-> t, acc |-> w.acc, node |-> w.node, unopened |-> w.unopened], k + 1, "open"),
               open, t, Append(w.acc, [pair |-> k + 1, mode |-> "open"]), w.node, w.unopened)
    BY AccessRec
  <2>2. QED
    BY <1>3, <1>5, <1>6, <2>1, Zenon
<1>8. OpenedMap(open, w.open, d, k + 1)
  BY <1>3, OpenedMapIs, Zenon
<1>9. Opened(w, v, c) /\ ForwardType(v, N)
  <2>1. t = Append(w.pairs, [open |-> c, close |-> 0]) /\ acc = Append(w.acc, [pair |-> k + 1, mode |-> "open"])
    BY <1>3
  <2> HIDE <1>3, <1>4, <1>5, <1>6
  <2>2. QED
    BY <1>2, <1>7, <1>8, <2>1, OpenTyped
<1>10. QED
  BY <1>2, <1>4, <1>6, <1>9, Zenon

\* The watcher without an open identifier.
LEMMA WithoutRec ==
  ASSUME NEW w, NEW d,
         w = [open |-> w.open, pairs |-> w.pairs, acc |-> w.acc, node |-> w.node, unopened |-> w.unopened]
  PROVE  Without(w, d) = [open |-> Restrict(w.open, DOMAIN w.open \ {d}), pairs |-> w.pairs, acc |-> w.acc,
                          node |-> w.node, unopened |-> w.unopened]
  BY DEF Without

\* What is left of the open dependencies when d goes.
Left(open, old, d) == DOMAIN open = DOMAIN old \ {d} /\ \A e \in DOMAIN old \ {d} : open[e] = old[e]

\* Pair i is closed by node c.
Shut(t, pairs, i, c) ==
  /\ t \in Seq(PairType) /\ Len(t) = Len(pairs) /\ t[i] = [open |-> pairs[i].open, close |-> c]
  /\ \A j \in 1 .. Len(pairs) : j # i => t[j] = pairs[j]

\* The watcher after a closing is typed.
LEMMA CloseTyped ==
  ASSUME NEW N \in Nat, NEW w, ForwardType(w, N), NEW c \in 1 .. N, NEW d \in DOMAIN w.open, NEW i, i = w.open[d],
         NEW v, NEW open, NEW t, NEW acc, Left(open, w.open, d), Shut(t, w.pairs, i, c),
         acc = Append(w.acc, [pair |-> i, mode |-> "close"]), FwdRec(v, open, t, acc, w.node, w.unopened)
  PROVE  Closed(w, v, i, c) /\ ForwardType(v, N)
<1>0. PICK k \in Nat : k = Len(w.pairs)
  <2>1. PairsType(w.pairs, N)
    BY ForwardParts
  <2>2. QED
    BY <2>1 DEF PairsType
<1>00. /\ DOMAIN open = DOMAIN w.open \ {d} /\ \A e \in DOMAIN w.open \ {d} : open[e] = w.open[e]
       /\ t \in Seq(PairType) /\ Len(t) = k /\ t[i] = [open |-> w.pairs[i].open, close |-> c]
       /\ \A j \in 1 .. k : j # i => t[j] = w.pairs[j]
  BY <1>0 DEF Left, Shut
<1>1. PairsType(w.pairs, N) /\ w.acc \in Seq(ForwardAccesses) /\ NodeAccType(w.node, N) /\ OpenType(w.open, w.pairs)
  BY ForwardParts
<1>2. i \in 1 .. k /\ w.pairs[i].close = 0
  BY <1>0, <1>00, <1>1 DEF OpenType
<1>3. /\ v.open = open /\ v.pairs = t /\ v.acc = acc /\ v.node = w.node /\ v.unopened = w.unopened
      /\ v = [open |-> v.open, pairs |-> v.pairs, acc |-> v.acc, node |-> v.node, unopened |-> v.unopened]
  BY Zenon DEF FwdRec
<1>4. PairsType(t, N)
  <2>1. ASSUME NEW j \in 1 .. k PROVE t[j].open \in 1 .. N /\ t[j].close \in 0 .. N
    <3>1. w.pairs[j].open \in 1 .. N /\ w.pairs[j].close \in 0 .. N
      BY <1>0, <1>00, <1>1 DEF PairsType
    <3>2. CASE j = i
      <4>1. t[j].open = w.pairs[i].open /\ t[j].close = c
        BY <1>0, <1>00, <3>2
      <4>2. QED
        BY <1>0, <1>00, <3>1, <3>2, <4>1
    <3>3. CASE j # i
      BY <1>0, <1>00, <3>1, <3>3
    <3>4. QED
      BY <3>2, <3>3
  <2>2. QED
    BY <1>0, <1>00, <2>1 DEF PairsType
<1>5. acc \in Seq(ForwardAccesses)
  <2>1. i \in Nat
    BY <1>2
  <2>2. [pair |-> i, mode |-> "close"] \in ForwardAccesses
    BY <2>1, AccessIs
  <2>3. QED
    BY <1>1, <2>2, HoldsAppend
<1>6. OpenType(open, t)
  <2>1. \A e \in DOMAIN w.open : w.open[e] \in 1 .. k /\ w.pairs[w.open[e]].close = 0
    BY <1>0, <1>00, <1>1 DEF OpenType
  <2>2. \A e, f \in DOMAIN w.open : w.open[e] = w.open[f] => e = f
    BY <1>0, <1>00, <1>1 DEF OpenType
  <2>3. \A e \in DOMAIN open : open[e] = w.open[e] /\ open[e] # i /\ open[e] \in 1 .. k
    BY <1>0, <1>00, <2>1, <2>2
  <2>4. \A e \in DOMAIN open : open[e] \in 1 .. Len(t) /\ t[open[e]].close = 0
    BY <1>0, <1>00, <2>1, <2>3
  <2>5. \A e, f \in DOMAIN open : open[e] = open[f] => e = f
    BY <1>0, <1>00, <2>2, <2>3
  <2>6. QED
    BY <2>4, <2>5 DEF OpenType
<1>7. Closed(w, v, i, c)
  BY <1>0, <1>00, <1>2, <1>3 DEF Closed
<1>8. ForwardType(v, N)
  BY <1>1, <1>3, <1>4, <1>5, <1>6, ForwardParts
<1>9. QED
  BY <1>7, <1>8

\* A record with a new pair.
LEMMA CloseRec ==
  ASSUME NEW open, NEW a, NEW acc, NEW node, NEW unopened, NEW i, NEW x
  PROVE  [[open |-> open, pairs |-> a, acc |-> acc, node |-> node, unopened |-> unopened] EXCEPT !.pairs[i] = x]
         = [open |-> open, pairs |-> [a EXCEPT ![i] = x], acc |-> acc, node |-> node, unopened |-> unopened]
  OBVIOUS

\* What the closing of a forward dependency does.
LEMMA CloseIs ==
  ASSUME NEW N \in Nat, NEW w, ForwardType(w, N), NEW c \in 1 .. N, NEW d \in DOMAIN w.open, NEW i, i = w.open[d]
  PROVE  LET v == Access([Without(w, d) EXCEPT !.pairs[i] = [open |-> w.pairs[i].open, close |-> c]], i, "close")
         IN  Closed(w, v, i, c) /\ ForwardType(v, N)
<1>1. /\ w = [open |-> w.open, pairs |-> w.pairs, acc |-> w.acc, node |-> w.node, unopened |-> w.unopened]
      /\ PairsType(w.pairs, N) /\ OpenType(w.open, w.pairs)
  BY ForwardParts
<1>2. PICK a \in Seq(PairType) : a = w.pairs
  BY <1>1 DEF PairsType
<1>3. PICK k \in Nat : k = Len(a)
  BY <1>2
<1>4. i \in 1 .. k
  BY <1>1, <1>2, <1>3 DEF OpenType
<1>5. PICK open : open = Restrict(w.open, DOMAIN w.open \ {d})
  OBVIOUS
<1>6. DOMAIN open = DOMAIN w.open \ {d} /\ \A e \in DOMAIN w.open \ {d} : open[e] = w.open[e]
  BY <1>5, WithoutIs
<1>7. PICK x : x = [open |-> a[i].open, close |-> c]
  OBVIOUS
<1>8. x \in PairType
  <2>1. a[i] \in PairType
    BY <1>3, <1>4
  <2>2. a[i].open \in Nat
    BY <2>1 DEF PairType
  <2>3. QED
    BY <1>7, <2>2 DEF PairType
<1>9. PICK t : t = [a EXCEPT ![i] = x]
  OBVIOUS
<1>10. t \in Seq(PairType) /\ Len(t) = k /\ t[i] = x /\ \A j \in 1 .. k : j # i => t[j] = a[j]
  BY <1>3, <1>4, <1>8, <1>9, SeqExcept
<1>11. Without(w, d) = [open |-> open, pairs |-> a, acc |-> w.acc, node |-> w.node, unopened |-> w.unopened]
  <2>1. Without(w, d) = [open |-> Restrict(w.open, DOMAIN w.open \ {d}), pairs |-> w.pairs, acc |-> w.acc,
                          node |-> w.node, unopened |-> w.unopened]
    BY <1>1, WithoutRec
  <2>2. QED
    BY <1>2, <1>5, <2>1, Zenon
<1>12. [Without(w, d) EXCEPT !.pairs[i] = [open |-> w.pairs[i].open, close |-> c]]
         = [open |-> open, pairs |-> t, acc |-> w.acc, node |-> w.node, unopened |-> w.unopened]
  <2>1. [[open |-> open, pairs |-> a, acc |-> w.acc, node |-> w.node, unopened |-> w.unopened] EXCEPT !.pairs[i] = x]
         = [open |-> open, pairs |-> [a EXCEPT ![i] = x], acc |-> w.acc, node |-> w.node, unopened |-> w.unopened]
    BY CloseRec
  <2>2. x = [open |-> w.pairs[i].open, close |-> c]
    BY <1>2, <1>7, Zenon
  <2>3. QED
    BY <1>9, <1>11, <2>1, <2>2, Zenon
<1>13. PICK v : v = Access([Without(w, d) EXCEPT !.pairs[i] = [open |-> w.pairs[i].open, close |-> c]], i, "close")
  OBVIOUS
<1>14. FwdRec(v, open, t, Append(w.acc, [pair |-> i, mode |-> "close"]), w.node, w.unopened)
  <2>1. FwdRec(Access([open |-> open, pairs |-> t, acc |-> w.acc, node |-> w.node, unopened |-> w.unopened], i, "close"),
               open, t, Append(w.acc, [pair |-> i, mode |-> "close"]), w.node, w.unopened)
    BY AccessRec
  <2>2. QED
    BY <1>12, <1>13, <2>1, Zenon
<1>15. Closed(w, v, i, c) /\ ForwardType(v, N)
  <2>1. Shut(t, w.pairs, i, c) /\ Left(open, w.open, d)
    BY <1>2, <1>3, <1>6, <1>7, <1>10 DEF Shut, Left
  <2>2. PICK acc : acc = Append(w.acc, [pair |-> i, mode |-> "close"])
    OBVIOUS
  <2>3. FwdRec(v, open, t, acc, w.node, w.unopened)
    BY <1>14, <2>2, Zenon
  <2>4. QED
    BY <2>1, <2>2, <2>3, CloseTyped, Zenon
<1>16. QED
  BY <1>13, <1>15, Zenon

\* The watcher after a drop is typed.
LEMMA DropTyped ==
  ASSUME NEW N \in Nat, NEW w, ForwardType(w, N), NEW d \in DOMAIN w.open, NEW i, i = w.open[d], NEW v, NEW open,
         NEW acc, Left(open, w.open, d),
         acc = Append(w.acc, [pair |-> i, mode |-> "drop"]), FwdRec(v, open, w.pairs, acc, w.node, w.unopened)
  PROVE  Dropped(w, v, i) /\ ForwardType(v, N)
<1>1. PairsType(w.pairs, N) /\ w.acc \in Seq(ForwardAccesses) /\ NodeAccType(w.node, N) /\ OpenType(w.open, w.pairs)
  BY ForwardParts
<1>2. i \in 1 .. Len(w.pairs)
  BY <1>1 DEF OpenType
<1>3. /\ v.open = open /\ v.pairs = w.pairs /\ v.acc = acc /\ v.node = w.node /\ v.unopened = w.unopened
      /\ v = [open |-> v.open, pairs |-> v.pairs, acc |-> v.acc, node |-> v.node, unopened |-> v.unopened]
  BY Zenon DEF FwdRec
<1>4. acc \in Seq(ForwardAccesses)
  <2>1. i \in Nat
    BY <1>1, <1>2 DEF PairsType
  <2>2. [pair |-> i, mode |-> "drop"] \in ForwardAccesses
    BY <2>1, AccessIs
  <2>3. QED
    BY <1>1, <2>2, HoldsAppend
<1>5. OpenType(open, w.pairs)
  BY <1>1 DEF OpenType, Left
<1>6. Dropped(w, v, i)
  BY <1>2, <1>3 DEF Dropped
<1>7. ForwardType(v, N)
  BY <1>1, <1>3, <1>4, <1>5, ForwardParts
<1>8. QED
  BY <1>6, <1>7

\* What the dropping of a forward dependency does.
LEMMA DropIs ==
  ASSUME NEW N \in Nat, NEW w, ForwardType(w, N), NEW d \in DOMAIN w.open, NEW i, i = w.open[d]
  PROVE  Dropped(w, Access(Without(w, d), i, "drop"), i) /\ ForwardType(Access(Without(w, d), i, "drop"), N)
<1>1. w = [open |-> w.open, pairs |-> w.pairs, acc |-> w.acc, node |-> w.node, unopened |-> w.unopened]
  BY ForwardParts
<1>2. PICK open : open = Restrict(w.open, DOMAIN w.open \ {d})
  OBVIOUS
<1>3. DOMAIN open = DOMAIN w.open \ {d} /\ \A e \in DOMAIN w.open \ {d} : open[e] = w.open[e]
  BY <1>2, WithoutIs
<1>4. Without(w, d) = [open |-> open, pairs |-> w.pairs, acc |-> w.acc, node |-> w.node, unopened |-> w.unopened]
  <2>1. Without(w, d) = [open |-> Restrict(w.open, DOMAIN w.open \ {d}), pairs |-> w.pairs, acc |-> w.acc,
                          node |-> w.node, unopened |-> w.unopened]
    BY <1>1, WithoutRec
  <2>2. QED
    BY <1>2, <2>1, Zenon
<1>5. PICK v, acc : v = Access(Without(w, d), i, "drop") /\ acc = Append(w.acc, [pair |-> i, mode |-> "drop"])
  OBVIOUS
<1>6. FwdRec(v, open, w.pairs, acc, w.node, w.unopened)
  <2>1. FwdRec(Access([open |-> open, pairs |-> w.pairs, acc |-> w.acc, node |-> w.node, unopened |-> w.unopened], i, "drop"),
               open, w.pairs, Append(w.acc, [pair |-> i, mode |-> "drop"]), w.node, w.unopened)
    BY AccessRec
  <2>2. QED
    BY <1>4, <1>5, <2>1, Zenon
<1>7. Dropped(w, v, i) /\ ForwardType(v, N)
  <2>1. acc = Append(w.acc, [pair |-> i, mode |-> "drop"])
    BY <1>5
  <2>2. Left(open, w.open, d)
    BY <1>3 DEF Left
  <2>3. QED
    BY <1>6, <2>1, <2>2, DropTyped, Zenon
<1>8. QED
  BY <1>5, <1>7, Zenon

-----------------------------------------------------------------------------
(***************************************************************************)
(* What the steps of the forward watcher make of its part of the           *)
(* invariant.                                                              *)
(***************************************************************************)
\* What the list of pairs is after an opening and after a closing.
LEMMA OpenedPairs ==
  ASSUME NEW N \in Nat, NEW w, ForwardType(w, N), NEW v, NEW c \in 1 .. N, Opened(w, v, c)
  PROVE  /\ Len(w.pairs) \in Nat /\ Wider(v.pairs, w.pairs, c)
         /\ v.acc = Append(w.acc, [pair |-> Len(w.pairs) + 1, mode |-> "open"])
         /\ v.node = w.node
<1>1. PairsType(w.pairs, N)
  BY ForwardParts
<1>2. Wider(Append(w.pairs, [open |-> c, close |-> 0]), w.pairs, c)
  BY <1>1, PairsAppend
<1>3. Len(w.pairs) \in Nat
  BY <1>1 DEF PairsType
<1>4. QED
  BY <1>2, <1>3, Zenon DEF Opened

\* The lists hold the accesses of the pairs they held before.
LEMMA AccOfSame ==
  ASSUME NEW w, NEW v, NEW c, NEW n, v.node = w.node, n # c
  PROVE  AccOf(v, c, n) = AccOf(w, c, n)
  BY DEF AccOf, Kept

\* The accesses of the current node.
LEMMA AccOfCur ==
  ASSUME NEW w, NEW c
  PROVE  AccOf(w, c, c) = w.acc
  BY DEF AccOf

\* An access more in the list of c.
OneMore(w, v, c, i, mode) == v.acc = Append(w.acc, [pair |-> i, mode |-> mode]) /\ v.node = w.node

\* One access more of the current node.
LEMMA HoldsMore ==
  ASSUME NEW N \in Nat, NEW w, ForwardType(w, N), NEW v, NEW c, NEW i \in Nat, NEW mode \in {"open", "close", "drop"},
         OneMore(w, v, c, i, mode)
  PROVE  /\ Holds(AccOf(v, c, c), i, mode)
         /\ \A n, j, m : Holds(AccOf(w, c, n), j, m) => Holds(AccOf(v, c, n), j, m)
<1>1. w.acc \in Seq(ForwardAccesses)
  BY ForwardParts
<1>2. PICK a : a = [pair |-> i, mode |-> mode]
  OBVIOUS
<1>3. a \in ForwardAccesses
  BY <1>2, AccessIs
<1>4. /\ \A j, m : Holds(w.acc, j, m) => Holds(Append(w.acc, a), j, m)
      /\ \A j, m : a = [pair |-> j, mode |-> m] => Holds(Append(w.acc, a), j, m)
  BY <1>1, <1>3, HoldsAppend
<1>5. v.acc = Append(w.acc, a) /\ v.node = w.node
  BY <1>2 DEF OneMore
<1>6. AccOf(v, c, c) = Append(w.acc, a) /\ AccOf(w, c, c) = w.acc
  BY <1>5, AccOfCur
<1>7. Holds(AccOf(v, c, c), i, mode)
  BY <1>2, <1>4, <1>6, Zenon
<1>8. ASSUME NEW n, NEW j, NEW m, Holds(AccOf(w, c, n), j, m) PROVE Holds(AccOf(v, c, n), j, m)
  <2>1. CASE n = c
    BY <1>4, <1>6, <1>8, <2>1, Zenon
  <2>2. CASE n # c
    <3>1. v.node = w.node
      BY <1>5
    <3>2. AccOf(v, c, n) = AccOf(w, c, n)
      BY <2>2, <3>1, AccOfSame
    <3>3. QED
      BY <1>8, <3>2, Zenon
  <2>3. QED
    BY <2>1, <2>2
<1>9. QED
  BY <1>7, <1>8

\* The pairs of a list keep their nodes.
PairsKept(pairs, t) ==
  /\ Len(pairs) \in Nat /\ Len(t) \in Nat /\ Len(pairs) <= Len(t)
  /\ \A i \in 1 .. Len(pairs) : t[i].open = pairs[i].open /\ (pairs[i].close # 0 => t[i].close = pairs[i].close)

\* Accesses stay of pairs that their node opened or closed.
LEMMA ListKept ==
  ASSUME NEW s \in Seq(ForwardAccesses), NEW pairs, NEW t, NEW n, n # 0, PairsKept(pairs, t), AccessList(s, pairs, n)
  PROVE  AccessList(s, t, n)
  BY DEF AccessList, PairsKept

\* So they do with one access more.
LEMMA ListMore ==
  ASSUME NEW N \in Nat, NEW w, ForwardType(w, N), NEW v, NEW c, NEW i \in Nat, NEW mode \in {"open", "close", "drop"},
         OneMore(w, v, c, i, mode), PairsKept(w.pairs, v.pairs), c # 0, i \in 1 .. Len(v.pairs),
         mode = "open" => v.pairs[i].open = c, mode = "close" => v.pairs[i].close = c, NEW n, n # 0,
         AccessList(AccOf(w, c, n), w.pairs, n)
  PROVE  AccessList(AccOf(v, c, n), v.pairs, n)
<1>1. AccOf(w, c, n) \in Seq(ForwardAccesses) /\ w.acc \in Seq(ForwardAccesses)
  BY AccSeq, ForwardParts
<1>2. AccessList(AccOf(w, c, n), v.pairs, n)
  BY <1>1, ListKept
<1>3. CASE n # c
  <2>1. v.node = w.node
    BY DEF OneMore
  <2>2. AccOf(v, c, n) = AccOf(w, c, n)
    BY <1>3, <2>1, AccOfSame
  <2>3. QED
    BY <1>2, <2>2, Zenon
<1>4. CASE n = c
  <2>1. PICK a, pairs : a = [pair |-> i, mode |-> mode] /\ pairs = v.pairs
    OBVIOUS
  <2>2. a \in ForwardAccesses /\ a.pair = i /\ a.mode = mode
    BY <2>1, AccessIs
  <2>3. AccOf(w, c, n) = w.acc /\ AccOf(v, c, n) = Append(w.acc, a)
    BY <1>4, <2>1, AccOfCur, Zenon DEF OneMore
  <2>4. AccessList(w.acc, pairs, n)
    BY <1>2, <2>1, <2>3, Zenon
  <2>5. AccessList(Append(w.acc, a), pairs, n)
    BY <1>1, <1>4, <2>1, <2>2, <2>4, ListAppend
  <2>6. QED
    BY <2>1, <2>3, <2>5, Zenon
<1>5. QED
  BY <1>3, <1>4

\* The accesses after one more.
LEMMA AccessesStep ==
  ASSUME NEW N \in Nat, NEW base \in Nat, NEW w, ForwardType(w, N), NEW v, NEW c \in 1 .. N, NEW i \in Nat,
         NEW mode \in {"open", "close", "drop"}, OneMore(w, v, c, i, mode), PairsKept(w.pairs, v.pairs),
         i \in 1 .. Len(v.pairs), mode = "open" => v.pairs[i].open = c, mode = "close" => v.pairs[i].close = c,
         \A j \in 1 .. Len(v.pairs) :
            /\ (mode = "open" /\ j = i) \/ (j \in 1 .. Len(w.pairs) /\ v.pairs[j].open = w.pairs[j].open)
            /\ \/ mode = "close" /\ j = i
               \/ v.pairs[j].close = 0
               \/ (j \in 1 .. Len(w.pairs) /\ v.pairs[j].close = w.pairs[j].close),
         AccessesHold(w, c, base, N)
  PROVE  AccessesHold(v, c, base, N)
<1>1. /\ Holds(AccOf(v, c, c), i, mode)
      /\ \A n, j, m : Holds(AccOf(w, c, n), j, m) => Holds(AccOf(v, c, n), j, m)
  BY HoldsMore
<1>2. ASSUME NEW j \in 1 .. Len(v.pairs)
      PROVE  /\ v.pairs[j].open > base => Holds(AccOf(v, c, v.pairs[j].open), j, "open")
             /\ v.pairs[j].close > base => Holds(AccOf(v, c, v.pairs[j].close), j, "close")
  <2>1. PICK o, e : o = v.pairs[j].open /\ e = v.pairs[j].close
    OBVIOUS
  <2>2. \A k \in 1 .. Len(w.pairs) :
          /\ w.pairs[k].open > base => Holds(AccOf(w, c, w.pairs[k].open), k, "open")
          /\ w.pairs[k].close > base => Holds(AccOf(w, c, w.pairs[k].close), k, "close")
    BY DEF AccessesHold
  <2>3. ASSUME o > base PROVE Holds(AccOf(v, c, o), j, "open")
    <3>1. CASE mode = "open" /\ j = i
      <4>1. o = c
        BY <2>1, <3>1
      <4>2. QED
        BY <1>1, <3>1, <4>1, Zenon
    <3>2. CASE j \in 1 .. Len(w.pairs) /\ o = w.pairs[j].open
      BY <1>1, <2>2, <2>3, <3>2
    <3>3. QED
      BY <2>1, <3>1, <3>2
  <2>4. ASSUME e > base PROVE Holds(AccOf(v, c, e), j, "close")
    <3>1. CASE mode = "close" /\ j = i
      <4>1. e = c
        BY <2>1, <3>1
      <4>2. QED
        BY <1>1, <3>1, <4>1, Zenon
    <3>2. CASE j \in 1 .. Len(w.pairs) /\ e = w.pairs[j].close
      BY <1>1, <2>2, <2>4, <3>2
    <3>3. e # 0
      BY <2>4
    <3>4. QED
      BY <2>1, <3>1, <3>2, <3>3
  <2>5. QED
    BY <2>1, <2>3, <2>4
<1>3. ASSUME NEW n \in base + 1 .. N PROVE AccessList(AccOf(v, c, n), v.pairs, n)
  <2>1. AccessList(AccOf(w, c, n), w.pairs, n) /\ n # 0 /\ c # 0
    BY DEF AccessesHold
  <2>2. QED
    BY <2>1, ListMore
<1>4. QED
  BY <1>2, <1>3 DEF AccessesHold

\* The accesses hold after an opening.
LEMMA AccessesOpened ==
  ASSUME NEW N \in Nat, NEW base \in Nat, NEW w, ForwardType(w, N), NEW v, NEW c \in 1 .. N, Opened(w, v, c),
         AccessesHold(w, c, base, N)
  PROVE  AccessesHold(v, c, base, N)
<1>1. PICK k \in Nat : k = Len(w.pairs)
  BY OpenedPairs
<1>2. /\ Wider(v.pairs, w.pairs, c) /\ v.acc = Append(w.acc, [pair |-> Len(w.pairs) + 1, mode |-> "open"])
      /\ v.node = w.node
  BY OpenedPairs
<1>3. OneMore(w, v, c, k + 1, "open")
  BY <1>1, <1>2, Zenon DEF OneMore
<1>4. /\ Len(v.pairs) = k + 1 /\ v.pairs[k + 1] = [open |-> c, close |-> 0]
      /\ \A i \in 1 .. k : v.pairs[i] = w.pairs[i]
  BY <1>1, <1>2 DEF Wider
<1>5. v.pairs[k + 1].open = c /\ v.pairs[k + 1].close = 0
  BY <1>4
<1>6. PairsKept(w.pairs, v.pairs)
  BY <1>1, <1>4 DEF PairsKept
<1>7. \A j \in 1 .. Len(v.pairs) : j = k + 1 \/ (j \in 1 .. Len(w.pairs) /\ v.pairs[j] = w.pairs[j])
  BY <1>1, <1>4
<1>8. k + 1 \in Nat /\ k + 1 \in 1 .. Len(v.pairs)
  BY <1>4
<1>9. \A j \in 1 .. Len(v.pairs) :
            /\ ("open" = "open" /\ j = k + 1) \/ (j \in 1 .. Len(w.pairs) /\ v.pairs[j].open = w.pairs[j].open)
            /\ \/ "open" = "close" /\ j = k + 1
               \/ v.pairs[j].close = 0
               \/ (j \in 1 .. Len(w.pairs) /\ v.pairs[j].close = w.pairs[j].close)
  BY <1>5, <1>7
<1>10. QED
  BY <1>3, <1>5, <1>6, <1>8, <1>9, AccessesStep

\* The same after a closing.
LEMMA AccessesClosed ==
  ASSUME NEW N \in Nat, NEW base \in Nat, NEW w, ForwardType(w, N), NEW v, NEW c \in 1 .. N, NEW i, Closed(w, v, i, c),
         AccessesHold(w, c, base, N)
  PROVE  AccessesHold(v, c, base, N)
<1>0. PairsType(w.pairs, N)
  BY ForwardParts
<1>1. PICK k \in Nat : k = Len(w.pairs)
  BY <1>0 DEF PairsType
<1>2. /\ i \in 1 .. k /\ w.pairs[i].close = 0 /\ Len(v.pairs) = k
      /\ \A j \in 1 .. k : j # i => v.pairs[j] = w.pairs[j]
      /\ v.pairs[i] = [open |-> w.pairs[i].open, close |-> c]
  BY <1>1 DEF Closed
<1>3. OneMore(w, v, c, i, "close")
  BY DEF OneMore, Closed
<1>4. v.pairs[i].open = w.pairs[i].open /\ v.pairs[i].close = c
  BY <1>2
<1>5. PairsKept(w.pairs, v.pairs)
  BY <1>1, <1>2, <1>4 DEF PairsKept
<1>6. i \in Nat /\ i \in 1 .. Len(v.pairs)
  BY <1>2
<1>7. \A j \in 1 .. Len(v.pairs) :
            /\ ("close" = "open" /\ j = i) \/ (j \in 1 .. Len(w.pairs) /\ v.pairs[j].open = w.pairs[j].open)
            /\ \/ "close" = "close" /\ j = i
               \/ v.pairs[j].close = 0
               \/ (j \in 1 .. Len(w.pairs) /\ v.pairs[j].close = w.pairs[j].close)
  BY <1>1, <1>2, <1>4
<1>8. QED
  BY <1>3, <1>4, <1>5, <1>6, <1>7, AccessesStep

\* The same after a drop.
LEMMA AccessesDropped ==
  ASSUME NEW N \in Nat, NEW base \in Nat, NEW w, ForwardType(w, N), NEW v, NEW c \in 1 .. N, NEW i, Dropped(w, v, i),
         AccessesHold(w, c, base, N)
  PROVE  AccessesHold(v, c, base, N)
<1>0. PairsType(w.pairs, N)
  BY ForwardParts
<1>1. PICK k \in Nat : k = Len(w.pairs)
  BY <1>0 DEF PairsType
<1>2. v.pairs = w.pairs /\ i \in 1 .. k
  BY <1>1 DEF Dropped
<1>3. OneMore(w, v, c, i, "drop")
  BY DEF OneMore, Dropped
<1>5. PairsKept(w.pairs, v.pairs)
  BY <1>1, <1>2 DEF PairsKept
<1>6. i \in Nat /\ i \in 1 .. Len(v.pairs)
  BY <1>1, <1>2
<1>7. \A j \in 1 .. Len(v.pairs) :
            /\ ("drop" = "open" /\ j = i) \/ (j \in 1 .. Len(w.pairs) /\ v.pairs[j].open = w.pairs[j].open)
            /\ \/ "drop" = "close" /\ j = i
               \/ v.pairs[j].close = 0
               \/ (j \in 1 .. Len(w.pairs) /\ v.pairs[j].close = w.pairs[j].close)
  BY <1>2
<1>8. QED
  BY <1>3, <1>5, <1>6, <1>7, AccessesStep

\* The lists stay the same.
LEMMA AccessesSame ==
  ASSUME NEW N \in Nat, NEW k \in Nat, NEW base \in Nat, NEW w, NEW v, NEW c, NEW d, v.pairs = w.pairs,
         \A n : AccOf(v, d, n) = AccOf(w, c, n), \A n \in N + 1 .. N + k : AccOf(v, d, n) = <<>>,
         AccessesHold(w, c, base, N)
  PROVE  AccessesHold(v, d, base, N + k)
<1>1. /\ \A i \in 1 .. Len(w.pairs) :
           /\ w.pairs[i].open > base => Holds(AccOf(w, c, w.pairs[i].open), i, "open")
           /\ w.pairs[i].close > base => Holds(AccOf(w, c, w.pairs[i].close), i, "close")
      /\ \A n \in base + 1 .. N : AccessList(AccOf(w, c, n), w.pairs, n)
  BY DEF AccessesHold
<1>2. \A i \in 1 .. Len(v.pairs) :
           /\ v.pairs[i].open > base => Holds(AccOf(v, d, v.pairs[i].open), i, "open")
           /\ v.pairs[i].close > base => Holds(AccOf(v, d, v.pairs[i].close), i, "close")
  BY <1>1, Zenon
<1>3. ASSUME NEW n \in base + 1 .. N + k PROVE AccessList(AccOf(v, d, n), v.pairs, n)
  <2>1. CASE n \in base + 1 .. N
    BY <1>1, <2>1, Zenon
  <2>2. CASE n \in N + 1 .. N + k
    <3>1. AccOf(v, d, n) = <<>>
      BY <2>2
    <3>2. AccessList(<<>>, v.pairs, n)
      BY DEF AccessList
    <3>3. QED
      BY <3>1, <3>2, Zenon
  <2>3. QED
    BY <2>1, <2>2
<1>4. QED
  BY <1>2, <1>3 DEF AccessesHold

\* A node that has no number yet has no accesses.
LEMMA NoAccOf ==
  ASSUME NEW N \in Nat, NEW w, ForwardType(w, N), NEW c, NEW n, n \notin 1 .. N, n # c
  PROVE  AccOf(w, c, n) = <<>> /\ Kept(w, n) = <<>>
<1>1. DOMAIN w.node \subseteq 1 .. N
  BY DEF ForwardType
<1>2. QED
  BY <1>1 DEF AccOf, Kept

\* The flush puts the accesses of c away.
PutAway(w, v, c) ==
  /\ v = [open |-> v.open, pairs |-> v.pairs, acc |-> v.acc, node |-> v.node, unopened |-> v.unopened]
  /\ v.open = w.open /\ v.pairs = w.pairs /\ v.acc = <<>> /\ v.unopened = w.unopened
  /\ v.node = Set(w.node, c, w.acc)

\* A flush puts the accesses of the current node away.
LEMMA FlushForwardIs ==
  ASSUME NEW N \in Nat, NEW w, ForwardType(w, N), NEW c \in 1 .. N
  PROVE  PutAway(w, FlushForward(w, c), c) /\ ForwardType(FlushForward(w, c), N)
<1>1. /\ w = [open |-> w.open, pairs |-> w.pairs, acc |-> w.acc, node |-> w.node, unopened |-> w.unopened]
      /\ PairsType(w.pairs, N) /\ w.acc \in Seq(ForwardAccesses) /\ NodeAccType(w.node, N) /\ OpenType(w.open, w.pairs)
  BY ForwardParts
<1>2. PICK v : v = FlushForward(w, c)
  OBVIOUS
<1>3. v = [open |-> w.open, pairs |-> w.pairs, acc |-> <<>>, node |-> Set(w.node, c, w.acc), unopened |-> w.unopened]
  BY <1>1, <1>2 DEF FlushForward
<1>4. FwdRec(v, w.open, w.pairs, <<>>, Set(w.node, c, w.acc), w.unopened)
  BY <1>3, FwdFields
<1>5. PutAway(w, v, c)
  BY <1>4 DEF FwdRec, PutAway
<1>6. NodeAccType(Set(w.node, c, w.acc), N)
  <2>1. DOMAIN w.node \subseteq 1 .. N /\ \A n \in DOMAIN w.node : w.node[n] \in Seq(ForwardAccesses)
    BY <1>1 DEF NodeAccType
  <2>2. \A x \in DOMAIN Set(w.node, c, w.acc) : Set(w.node, c, w.acc)[x] \in Seq(ForwardAccesses)
    BY <1>1, <2>1, SetValues
  <2>3. DOMAIN Set(w.node, c, w.acc) \subseteq 1 .. N
    BY <2>1 DEF Set
  <2>4. QED
    BY <2>2, <2>3 DEF NodeAccType
<1>7. <<>> \in Seq(ForwardAccesses)
  OBVIOUS
<1>8. ForwardType(v, N)
  <2>1. /\ v = [open |-> v.open, pairs |-> v.pairs, acc |-> v.acc, node |-> v.node, unopened |-> v.unopened]
        /\ PairsType(v.pairs, N) /\ v.acc \in Seq(ForwardAccesses) /\ NodeAccType(v.node, N) /\ OpenType(v.open, v.pairs)
    BY <1>1, <1>5, <1>6, <1>7, Zenon DEF PutAway
  <2>2. QED
    BY <2>1, ForwardParts
<1>9. QED
  BY <1>2, <1>5, <1>8, Zenon

\* What is put away is what there was.
LEMMA KeptAfter ==
  ASSUME NEW w, NEW v, NEW c, PutAway(w, v, c), NEW n
  PROVE  Kept(v, n) = AccOf(w, c, n)
<1>1. v.node = Set(w.node, c, w.acc)
  BY DEF PutAway
<1>2. DOMAIN v.node = DOMAIN w.node \cup {c} /\ v.node[c] = w.acc /\ \A m \in DOMAIN w.node : m # c => v.node[m] = w.node[m]
  BY <1>1 DEF Set
<1>3. QED
  BY <1>2 DEF Kept, AccOf

\* Node d is the current one next, and nothing of it was put away.
LEMMA AccAfterFlush ==
  ASSUME NEW w, NEW v, NEW c, PutAway(w, v, c), NEW d, d # c, Kept(w, d) = <<>>, NEW n
  PROVE  AccOf(v, d, n) = AccOf(w, c, n)
<1>1. Kept(v, n) = AccOf(w, c, n)
  BY KeptAfter
<1>2. CASE n # d
  BY <1>1, <1>2 DEF AccOf
<1>3. CASE n = d
  <2>1. AccOf(v, d, n) = <<>>
    BY <1>3 DEF AccOf, PutAway
  <2>2. AccOf(w, c, n) = <<>>
    BY <1>3 DEF AccOf
  <2>3. QED
    BY <2>1, <2>2
<1>4. QED
  BY <1>2, <1>3

\* The accesses hold after a flush, also with k more nodes.
LEMMA AccessesFlushed ==
  ASSUME NEW N \in Nat, NEW k \in Nat, NEW base \in Nat, NEW w, ForwardType(w, N), NEW c \in 1 .. N, NEW v,
         PutAway(w, v, c), NEW d, d # c, Kept(w, d) = <<>>, AccessesHold(w, c, base, N)
  PROVE  AccessesHold(v, d, base, N + k)
<1>1. \A n : AccOf(v, d, n) = AccOf(w, c, n)
  BY AccAfterFlush
<1>2. ASSUME NEW n \in N + 1 .. N + k PROVE AccOf(v, d, n) = <<>>
  <2>1. n \notin 1 .. N /\ n # c
    OBVIOUS
  <2>2. AccOf(w, c, n) = <<>>
    BY <2>1, NoAccOf
  <2>3. QED
    BY <1>1, <2>2, Zenon
<1>3. v.pairs = w.pairs
  BY DEF PutAway
<1>4. QED
  BY <1>1, <1>2, <1>3, AccessesSame

\* The forward watcher without accesses put away.
LEMMA FwdReset ==
  ASSUME NEW N \in Nat, NEW w, ForwardType(w, N), w.acc = <<>>, NEW v, v = [w EXCEPT !.node = <<>>, !.unopened = FALSE]
  PROVE  ForwardType(v, N) /\ v.pairs = w.pairs /\ v.acc = <<>> /\ v.node = <<>>
<1>1. /\ w = [open |-> w.open, pairs |-> w.pairs, acc |-> w.acc, node |-> w.node, unopened |-> w.unopened]
      /\ PairsType(w.pairs, N) /\ w.acc \in Seq(ForwardAccesses) /\ OpenType(w.open, w.pairs)
  BY ForwardParts
<1>2. v = [open |-> w.open, pairs |-> w.pairs, acc |-> w.acc, node |-> <<>>, unopened |-> FALSE]
  BY <1>1
<1>3. FwdRec(v, w.open, w.pairs, w.acc, <<>>, FALSE)
  BY <1>2, FwdFields
<1>4. /\ v.open = w.open /\ v.pairs = w.pairs /\ v.acc = w.acc /\ v.node = <<>>
      /\ v = [open |-> v.open, pairs |-> v.pairs, acc |-> v.acc, node |-> v.node, unopened |-> v.unopened]
  BY <1>3, Zenon DEF FwdRec
<1>5. NodeAccType(<<>>, N)
  BY DEF NodeAccType
<1>6. /\ PairsType(v.pairs, N) /\ v.acc \in Seq(ForwardAccesses) /\ OpenType(v.open, v.pairs) /\ NodeAccType(v.node, N)
  BY <1>1, <1>4, <1>5, Zenon
<1>7. ForwardType(v, N)
  BY <1>4, <1>6, ForwardParts
<1>8. QED
  BY <1>4, <1>7

-----------------------------------------------------------------------------
(***************************************************************************)
(* The order of the nodes that a pending node depends on, and the room for *)
(* the pairs that settled nodes opened.                                    *)
(***************************************************************************)
\* The dependencies that a pending node has without the forward ones.
OwnDeps(p, f, m) ==
  (IF p.parent = 0 THEN {} ELSE {p.parent}) \cup p.inits
     \cup DepsOf(f.acc, p.node) \cup DepsOf(m.acc, p.node)

\* Nodes base + 1 .. N are pending, S is the stack of subcommands and c is on
\* top of it.  A node that has ended depends on nothing after the nodes of the
\* stack that came after it, nor on nodes after the one that closes a forward
\* dependency of it; the nodes under c open none.
EndedHold(own, S, c, pairs, base, N) ==
  /\ \A n \in (base + 1 .. N) \ S, s \in S : n < s => own[n] \subseteq 1 .. s
  /\ \A k \in 1 .. Len(pairs) :
       pairs[k].open > base /\ pairs[k].open < pairs[k].close =>
         pairs[k].open \notin S /\ own[pairs[k].open] \subseteq 1 .. pairs[k].close
  /\ \A s \in S \ {c} : \A k \in 1 .. Len(pairs) : pairs[k].open # s

\* The pairs that node n opened and does not depend on the closing node of.
Unclosed(g, pairs, n) == {i \in 1 .. Len(pairs) : pairs[i].open = n /\ pairs[i].close \notin g.deps[n]}

\* There is room for them, and the pairs of settled nodes are dependencies.
RoomHold(g, pairs, base) ==
  /\ \A n \in 1 .. base : Cardinality(Unclosed(g, pairs, n)) <= g.room[n]
  /\ \A i \in 1 .. Len(pairs) :
       pairs[i].open <= base /\ pairs[i].close \in 1 .. base => pairs[i].close \in g.deps[pairs[i].open]

\* The pair i is of nodes n and m.
IsPair(pairs, i, n, m) == i \in 1 .. Len(pairs) /\ pairs[i].open = n /\ pairs[i].close = m /\ m # 0

\* Some pair is.
Paired(pairs, n, m) == \E i : IsPair(pairs, i, n, m)

\* own changes only for the nodes of the stack.
OwnKept(own, new, S, base, N) == \A n \in (base + 1 .. N) \ S : new[n] = own[n]

\* Pairs of N nodes.
OpensIn(pairs, N) == Len(pairs) \in Nat /\ \A k \in 1 .. Len(pairs) : pairs[k].open \in 1 .. N /\ pairs[k].close \in 0 .. N

\* The pairs of a typed watcher are.
LEMMA OpensAre ==
  ASSUME NEW N \in Nat, NEW w, ForwardType(w, N)
  PROVE  OpensIn(w.pairs, N)
  BY DEF ForwardType, OpensIn

\* What ended nodes depend on stays in bounds, also with k more nodes.
LEMMA EndedSame ==
  ASSUME NEW N \in Nat, NEW k \in Nat, NEW base \in Nat, NEW own, NEW new, NEW S, S \subseteq 1 .. N, NEW c, NEW pairs,
         OpensIn(pairs, N), OwnKept(own, new, S, base, N), EndedHold(own, S, c, pairs, base, N)
  PROVE  EndedHold(new, S, c, pairs, base, N + k)
<1>1. ASSUME NEW n \in (base + 1 .. N + k) \ S, NEW s \in S, n < s PROVE new[n] \subseteq 1 .. s
  <2>1. n \in (base + 1 .. N) \ S
    BY <1>1
  <2>2. own[n] \subseteq 1 .. s
    BY <1>1, <2>1 DEF EndedHold
  <2>3. QED
    BY <2>1, <2>2 DEF OwnKept
<1>2. ASSUME NEW i \in 1 .. Len(pairs), pairs[i].open > base, pairs[i].open < pairs[i].close
      PROVE  pairs[i].open \notin S /\ new[pairs[i].open] \subseteq 1 .. pairs[i].close
  <2>1. PICK o, e : o = pairs[i].open /\ e = pairs[i].close
    OBVIOUS
  <2>2. o \in 1 .. N /\ o > base
    BY <1>2, <2>1 DEF OpensIn
  <2>3. o \notin S /\ own[o] \subseteq 1 .. e
    BY <1>2, <2>1 DEF EndedHold
  <2>4. new[o] = own[o]
    BY <2>2, <2>3 DEF OwnKept
  <2>5. QED
    BY <2>1, <2>3, <2>4, Zenon
<1>3. \A s \in S \ {c} : \A i \in 1 .. Len(pairs) : pairs[i].open # s
  BY DEF EndedHold
<1>4. QED
  BY <1>1, <1>2, <1>3 DEF EndedHold

\* The same after an opening.
LEMMA EndedOpened ==
  ASSUME NEW N \in Nat, NEW base \in Nat, NEW own, NEW S, NEW c \in 1 .. N, NEW pairs, NEW t,
         OpensIn(pairs, N), Wider(t, pairs, c), EndedHold(own, S, c, pairs, base, N)
  PROVE  EndedHold(own, S, c, t, base, N)
<1>1. PICK k \in Nat : k = Len(pairs)
  BY DEF OpensIn
<1>2. Len(t) = k + 1 /\ t[k + 1] = [open |-> c, close |-> 0] /\ \A i \in 1 .. k : t[i] = pairs[i]
  BY <1>1 DEF Wider
<1>3. t[k + 1].open = c /\ t[k + 1].close = 0
  BY <1>2
<1>4. ASSUME NEW i \in 1 .. k + 1, t[i].open > base, t[i].open < t[i].close
      PROVE  t[i].open \notin S /\ own[t[i].open] \subseteq 1 .. t[i].close
  <2>1. i # k + 1
    BY <1>3, <1>4
  <2>2. i \in 1 .. k
    BY <2>1
  <2>3. t[i] = pairs[i]
    BY <1>2, <2>2
  <2>4. pairs[i].open > base /\ pairs[i].open < pairs[i].close
    BY <1>4, <2>3
  <2>5. pairs[i].open \notin S /\ own[pairs[i].open] \subseteq 1 .. pairs[i].close
    BY <1>1, <2>2, <2>4 DEF EndedHold
  <2>6. QED
    BY <2>3, <2>5, Zenon
<1>5. ASSUME NEW s \in S \ {c}, NEW i \in 1 .. k + 1 PROVE t[i].open # s
  <2>1. CASE i = k + 1
    BY <1>3, <2>1
  <2>2. CASE i # k + 1
    <3>1. i \in 1 .. k
      BY <2>2
    <3>2. t[i] = pairs[i] /\ pairs[i].open # s
      BY <1>1, <1>2, <3>1 DEF EndedHold
    <3>3. QED
      BY <3>2
  <2>3. QED
    BY <2>1, <2>2
<1>6. \A n \in (base + 1 .. N) \ S, s \in S : n < s => own[n] \subseteq 1 .. s
  BY DEF EndedHold
<1>7. QED
  BY <1>2, <1>4, <1>5, <1>6 DEF EndedHold

\* Pair i of the list is closed by node c.
ShutBy(t, pairs, i, c) ==
  /\ i \in 1 .. Len(pairs) /\ pairs[i].close = 0 /\ Len(t) = Len(pairs)
  /\ t[i].open = pairs[i].open /\ t[i].close = c
  /\ \A j \in 1 .. Len(pairs) : j # i => t[j] = pairs[j]

\* A closing shuts its pair.
LEMMA ClosedShut ==
  ASSUME NEW w, NEW v, NEW i, NEW c, Closed(w, v, i, c)
  PROVE  ShutBy(v.pairs, w.pairs, i, c)
  BY DEF Closed, ShutBy

\* The same after a closing: the current node is the last one that can be a
\* dependency of the node that opened.
LEMMA EndedClosed ==
  ASSUME NEW N \in Nat, NEW base \in Nat, NEW own, NEW S, S \subseteq 1 .. N, NEW c \in S, NEW pairs, NEW t, NEW i,
         OpensIn(pairs, N), ShutBy(t, pairs, i, c), EndedHold(own, S, c, pairs, base, N)
  PROVE  EndedHold(own, S, c, t, base, N)
<1>1. PICK k \in Nat : k = Len(pairs)
  BY DEF OpensIn
<1>2. /\ i \in 1 .. k /\ pairs[i].close = 0 /\ Len(t) = k /\ t[i].open = pairs[i].open /\ t[i].close = c
      /\ \A j \in 1 .. k : j # i => t[j] = pairs[j]
  BY <1>1 DEF ShutBy
<1>3. \A s \in S \ {c} : \A j \in 1 .. k : pairs[j].open # s
  BY <1>1 DEF EndedHold
<1>4. ASSUME NEW j \in 1 .. k, t[j].open > base, t[j].open < t[j].close
      PROVE  t[j].open \notin S /\ own[t[j].open] \subseteq 1 .. t[j].close
  <2>1. CASE j = i
    <3>1. PICK o : o = pairs[i].open
      OBVIOUS
    <3>2. o \in 1 .. N /\ o > base /\ o < c
      BY <1>1, <1>2, <1>4, <2>1, <3>1 DEF OpensIn
    <3>3. o \notin S
      BY <1>2, <1>3, <3>1, <3>2
    <3>4. own[o] \subseteq 1 .. c
      <4>1. o \in (base + 1 .. N) \ S
        BY <3>2, <3>3
      <4>2. QED
        BY <3>2, <4>1 DEF EndedHold
    <3>5. QED
      BY <1>2, <2>1, <3>1, <3>3, <3>4, Zenon
  <2>2. CASE j # i
    <3>1. t[j] = pairs[j]
      BY <1>2, <2>2
    <3>2. pairs[j].open > base /\ pairs[j].open < pairs[j].close
      BY <1>4, <3>1
    <3>3. pairs[j].open \notin S /\ own[pairs[j].open] \subseteq 1 .. pairs[j].close
      BY <1>1, <3>2 DEF EndedHold
    <3>4. QED
      BY <3>1, <3>3, Zenon
  <2>3. QED
    BY <2>1, <2>2
<1>5. ASSUME NEW s \in S \ {c}, NEW j \in 1 .. k PROVE t[j].open # s
  BY <1>2, <1>3
<1>6. \A n \in (base + 1 .. N) \ S, s \in S : n < s => own[n] \subseteq 1 .. s
  BY DEF EndedHold
<1>7. QED
  BY <1>2, <1>4, <1>5, <1>6 DEF EndedHold

\* A first node of a command.
LEMMA EndedBegins ==
  ASSUME NEW N \in Nat, NEW own, NEW pairs, OpensIn(pairs, N)
  PROVE  EndedHold(own, {N + 1}, N + 1, pairs, N, N + 1)
<1>1. \A n \in (N + 1 .. N + 1) \ {N + 1}, s \in {N + 1} : n < s => own[n] \subseteq 1 .. s
  OBVIOUS
<1>2. \A k \in 1 .. Len(pairs) : ~(pairs[k].open > N)
  BY DEF OpensIn
<1>3. QED
  BY <1>1, <1>2 DEF EndedHold

\* No command.
LEMMA EndedNone ==
  ASSUME NEW N \in Nat, NEW own, NEW pairs, OpensIn(pairs, N)
  PROVE  EndedHold(own, {}, 0, pairs, N, N)
<1>2. \A k \in 1 .. Len(pairs) : ~(pairs[k].open > N)
  BY DEF OpensIn
<1>3. QED
  BY <1>2 DEF EndedHold

\* A subcommand begins, and c has opened nothing.
LEMMA EndedDeeper ==
  ASSUME NEW N \in Nat, NEW base \in Nat, NEW own, NEW new, NEW S, S \subseteq 1 .. N, NEW c, NEW pairs,
         OpensIn(pairs, N), OwnKept(own, new, S, base, N), \A n \in base + 1 .. N : own[n] \subseteq 1 .. N,
         \A k \in 1 .. Len(pairs) : pairs[k].open # c, EndedHold(own, S, c, pairs, base, N)
  PROVE  EndedHold(new, S \cup {N + 1}, N + 1, pairs, base, N + 1)
<1>1. ASSUME NEW n \in (base + 1 .. N + 1) \ (S \cup {N + 1}), NEW s \in S \cup {N + 1}, n < s PROVE new[n] \subseteq 1 .. s
  <2>1. n \in (base + 1 .. N) \ S
    OBVIOUS
  <2>2. CASE s \in S
    BY <1>1, <2>1, <2>2 DEF EndedHold, OwnKept
  <2>3. CASE s = N + 1
    <3>1. own[n] \subseteq 1 .. N /\ new[n] = own[n]
      BY <2>1 DEF OwnKept
    <3>2. 1 .. N \subseteq 1 .. s
      BY <2>3
    <3>3. QED
      BY <3>1, <3>2
  <2>4. QED
    BY <2>2, <2>3
<1>2. ASSUME NEW i \in 1 .. Len(pairs), pairs[i].open > base, pairs[i].open < pairs[i].close
      PROVE  pairs[i].open \notin S \cup {N + 1} /\ new[pairs[i].open] \subseteq 1 .. pairs[i].close
  <2>1. PICK o, e : o = pairs[i].open /\ e = pairs[i].close
    OBVIOUS
  <2>2. o \in 1 .. N /\ o > base
    BY <1>2, <2>1 DEF OpensIn
  <2>3. o \notin S /\ own[o] \subseteq 1 .. e
    BY <1>2, <2>1 DEF EndedHold
  <2>4. new[o] = own[o] /\ o # N + 1
    BY <2>2, <2>3 DEF OwnKept
  <2>5. QED
    BY <2>1, <2>3, <2>4
<1>3. \A s \in (S \cup {N + 1}) \ {N + 1} : \A i \in 1 .. Len(pairs) : pairs[i].open # s
  BY DEF EndedHold
<1>4. QED
  BY <1>1, <1>2, <1>3 DEF EndedHold

\* A subcommand ends.
LEMMA EndedShallower ==
  ASSUME NEW N \in Nat, NEW base \in Nat, NEW own, NEW new, NEW S, S \subseteq 1 .. N, NEW c, NEW d, NEW pairs,
         OpensIn(pairs, N), OwnKept(own, new, S, base, N), \A s \in S \ {c} : s < c, c \in S,
         EndedHold(own, S, c, pairs, base, N)
  PROVE  EndedHold(new, S \ {c}, d, pairs, base, N)
<1>1. ASSUME NEW n \in (base + 1 .. N) \ (S \ {c}), NEW s \in S \ {c}, n < s PROVE new[n] \subseteq 1 .. s
  <2>0. s < c /\ n \in Nat /\ s \in Nat /\ c \in Nat
    OBVIOUS
  <2>1. n # c
    BY <1>1, <2>0
  <2>2. n \in (base + 1 .. N) \ S
    BY <2>1
  <2>3. QED
    BY <1>1, <2>2 DEF EndedHold, OwnKept
<1>2. ASSUME NEW i \in 1 .. Len(pairs), pairs[i].open > base, pairs[i].open < pairs[i].close
      PROVE  pairs[i].open \notin S \ {c} /\ new[pairs[i].open] \subseteq 1 .. pairs[i].close
  <2>1. PICK o, e : o = pairs[i].open /\ e = pairs[i].close
    OBVIOUS
  <2>2. o \in 1 .. N /\ o > base
    BY <1>2, <2>1 DEF OpensIn
  <2>3. o \notin S /\ own[o] \subseteq 1 .. e
    BY <1>2, <2>1 DEF EndedHold
  <2>4. new[o] = own[o]
    BY <2>2, <2>3 DEF OwnKept
  <2>5. QED
    BY <2>1, <2>3, <2>4
<1>3. \A s \in (S \ {c}) \ {d} : \A i \in 1 .. Len(pairs) : pairs[i].open # s
  BY DEF EndedHold
<1>4. QED
  BY <1>1, <1>2, <1>3 DEF EndedHold

\* The room of settled nodes stays enough.
LEMMA RoomSame ==
  ASSUME NEW base \in Nat, NEW g, NEW h, NEW pairs, RoomHold(g, pairs, base),
         \A n \in 1 .. base : h.deps[n] = g.deps[n] /\ h.room[n] = g.room[n],
         \A i \in 1 .. Len(pairs) : pairs[i].open \in Nat \ {0}
  PROVE  RoomHold(h, pairs, base)
<1>1. ASSUME NEW n \in 1 .. base PROVE Cardinality(Unclosed(h, pairs, n)) <= h.room[n]
  <2>1. Unclosed(h, pairs, n) = Unclosed(g, pairs, n)
    BY DEF Unclosed
  <2>2. Cardinality(Unclosed(g, pairs, n)) <= g.room[n] /\ h.room[n] = g.room[n]
    BY DEF RoomHold
  <2>3. QED
    BY <2>1, <2>2, Zenon
<1>2. ASSUME NEW i \in 1 .. Len(pairs), pairs[i].open <= base, pairs[i].close \in 1 .. base
      PROVE  pairs[i].close \in h.deps[pairs[i].open]
  <2>1. pairs[i].close \in g.deps[pairs[i].open]
    BY <1>2 DEF RoomHold
  <2>2. pairs[i].open \in 1 .. base
    BY <1>2
  <2>3. QED
    BY <2>1, <2>2
<1>3. QED
  BY <1>1, <1>2 DEF RoomHold

\* The same after an opening by a pending node.
LEMMA RoomOpened ==
  ASSUME NEW N \in Nat, NEW base \in Nat, NEW g, NEW pairs, OpensIn(pairs, N), NEW c \in base + 1 .. N, NEW t,
         Wider(t, pairs, c), RoomHold(g, pairs, base)
  PROVE  RoomHold(g, t, base)
<1>1. PICK k \in Nat : k = Len(pairs)
  BY DEF OpensIn
<1>2. Len(t) = k + 1 /\ t[k + 1] = [open |-> c, close |-> 0] /\ \A i \in 1 .. k : t[i] = pairs[i]
  BY <1>1 DEF Wider
<1>3. t[k + 1].open = c /\ t[k + 1].close = 0
  BY <1>2
<1>4. ASSUME NEW n \in 1 .. base PROVE Cardinality(Unclosed(g, t, n)) <= g.room[n]
  <2>1. n # c
    OBVIOUS
  <2>2. \A i \in 1 .. k + 1 : i = k + 1 \/ i \in 1 .. k
    OBVIOUS
  <2>3. \A i \in 1 .. k : i \in 1 .. k + 1
    OBVIOUS
  <2>4. Unclosed(g, t, n) = Unclosed(g, pairs, n)
    BY <1>1, <1>2, <1>3, <2>1, <2>2, <2>3 DEF Unclosed
  <2>5. Cardinality(Unclosed(g, pairs, n)) <= g.room[n]
    BY DEF RoomHold
  <2>6. QED
    BY <2>4, <2>5, Zenon
<1>5. ASSUME NEW i \in 1 .. k + 1, t[i].open <= base, t[i].close \in 1 .. base PROVE t[i].close \in g.deps[t[i].open]
  <2>1. i # k + 1
    BY <1>3, <1>5
  <2>2. i \in 1 .. k
    BY <2>1
  <2>3. t[i] = pairs[i]
    BY <1>2, <2>2
  <2>4. QED
    BY <1>1, <1>5, <2>2, <2>3 DEF RoomHold
<1>6. QED
  BY <1>2, <1>4, <1>5 DEF RoomHold

\* The same after a closing by a pending node.
LEMMA RoomClosed ==
  ASSUME NEW N \in Nat, NEW base \in Nat, NEW g, NEW pairs, OpensIn(pairs, N), NEW c \in base + 1 .. N, NEW t, NEW i,
         ShutBy(t, pairs, i, c), RoomHold(g, pairs, base), \A n \in 1 .. base : g.deps[n] \subseteq 1 .. base
  PROVE  RoomHold(g, t, base)
<1>1. PICK k \in Nat : k = Len(pairs)
  BY DEF OpensIn
<1>2. /\ i \in 1 .. k /\ pairs[i].close = 0 /\ Len(t) = k /\ t[i].open = pairs[i].open /\ t[i].close = c
      /\ \A j \in 1 .. k : j # i => t[j] = pairs[j]
  BY <1>1 DEF ShutBy
<1>3. ASSUME NEW n \in 1 .. base PROVE Cardinality(Unclosed(g, t, n)) <= g.room[n]
  <2>1. 0 \notin g.deps[n] /\ c \notin g.deps[n]
    OBVIOUS
  <2>2. Unclosed(g, t, n) = Unclosed(g, pairs, n)
    BY <1>1, <1>2, <2>1 DEF Unclosed
  <2>3. Cardinality(Unclosed(g, pairs, n)) <= g.room[n]
    BY DEF RoomHold
  <2>4. QED
    BY <2>2, <2>3, Zenon
<1>4. ASSUME NEW j \in 1 .. k, t[j].open <= base, t[j].close \in 1 .. base PROVE t[j].close \in g.deps[t[j].open]
  <2>1. j # i
    BY <1>2, <1>4
  <2>2. t[j] = pairs[j]
    BY <1>2, <2>1
  <2>3. QED
    BY <1>1, <1>4, <2>2 DEF RoomHold
<1>5. QED
  BY <1>2, <1>3, <1>4 DEF RoomHold

\* A pair stays a pair.
LEMMA PairedLater ==
  ASSUME NEW pairs, NEW t, PairsKept(pairs, t), NEW n, NEW m, Paired(pairs, n, m)
  PROVE  Paired(t, n, m)
<1>1. PICK i : IsPair(pairs, i, n, m)
  BY DEF Paired
<1>2. i \in 1 .. Len(pairs) /\ pairs[i].open = n /\ pairs[i].close = m /\ m # 0
  BY <1>1 DEF IsPair
<1>3. i \in 1 .. Len(t) /\ t[i].open = n /\ t[i].close = m
  BY <1>2 DEF PairsKept
<1>4. IsPair(t, i, n, m)
  BY <1>2, <1>3 DEF IsPair
<1>5. QED
  BY <1>4 DEF Paired

\* No pending node has accesses.
LEMMA AccessesNone ==
  ASSUME NEW N \in Nat, NEW w, OpensIn(w.pairs, N), NEW c
  PROVE  AccessesHold(w, c, N, N)
<1>1. \A i \in 1 .. Len(w.pairs) : ~(w.pairs[i].open > N) /\ ~(w.pairs[i].close > N)
  BY DEF OpensIn
<1>2. QED
  BY <1>1 DEF AccessesHold

\* The forward watcher stays typed when there are more nodes.
LEMMA ForwardGrow ==
  ASSUME NEW n \in Nat, NEW k \in Nat, NEW w, ForwardType(w, n)
  PROVE  ForwardType(w, n + k)
<1>1. /\ w = [open |-> w.open, pairs |-> w.pairs, acc |-> w.acc, node |-> w.node, unopened |-> w.unopened]
      /\ PairsType(w.pairs, n) /\ w.acc \in Seq(ForwardAccesses) /\ NodeAccType(w.node, n) /\ OpenType(w.open, w.pairs)
  BY ForwardParts
<1>2. 1 .. n \subseteq 1 .. n + k /\ 0 .. n \subseteq 0 .. n + k
  OBVIOUS
<1>3. PairsType(w.pairs, n + k)
  BY <1>1, <1>2 DEF PairsType
<1>4. NodeAccType(w.node, n + k)
  BY <1>1, <1>2 DEF NodeAccType
<1>5. QED
  BY <1>1, <1>3, <1>4, ForwardParts

-----------------------------------------------------------------------------
(***************************************************************************)
(* The end of a command: forward accesses become dependencies. own[n] is   *)
(* what node n depends on otherwise; acc[n] are its forward accesses, for  *)
(* the nodes n that the command made, those above low.                     *)
(***************************************************************************)
\* h is g but for the dependencies and the room of node n.
Changed(g, h, N, n, deps, room) ==
  /\ GraphType(h, N) /\ h.nodes = g.nodes /\ h.unopened = g.unopened /\ h.panicked = g.panicked
  /\ h.deps[n] = deps /\ h.room[n] = room
  /\ \A m \in 1 .. N : m # n => h.deps[m] = g.deps[m] /\ h.room[m] = g.room[m]

\* The parts of a graph.
LEMMA GraphFields ==
  ASSUME NEW h, NEW nodes, NEW deps, NEW room, NEW unopened, NEW panicked,
         h = [nodes |-> nodes, deps |-> deps, room |-> room, unopened |-> unopened, panicked |-> panicked]
  PROVE  /\ h.nodes = nodes /\ h.deps = deps /\ h.room = room /\ h.unopened = unopened
         /\ h.panicked = panicked
         /\ h = [nodes |-> h.nodes, deps |-> h.deps, room |-> h.room, unopened |-> h.unopened,
                 panicked |-> h.panicked]
  OBVIOUS

\* The dependencies and the room of a typed graph.
LEMMA GraphParts ==
  ASSUME NEW N \in Nat, NEW g, GraphType(g, N)
  PROVE  /\ g.deps \in Seq(SUBSET Nat) /\ Len(g.deps) = N /\ g.room \in Seq(Nat) /\ Len(g.room) = N
         /\ \A n \in 1 .. N : g.deps[n] \subseteq Nat /\ g.room[n] \in Nat
<1>1. g.deps \in Seq(SUBSET Nat) /\ Len(g.deps) = N /\ g.room \in Seq(Nat) /\ Len(g.room) = N
  BY DEF GraphType
<1>2. PICK a \in Seq(SUBSET Nat), b \in Seq(Nat) : a = g.deps /\ b = g.room
  BY <1>1
<1>3. \A n \in 1 .. N : a[n] \in SUBSET Nat /\ b[n] \in Nat
  BY <1>1, <1>2
<1>4. QED
  BY <1>1, <1>2, <1>3

\* A graph with new dependencies and room at one node.
LEMMA Rebuilt ==
  ASSUME NEW N \in Nat, NEW g, GraphType(g, N), NEW n \in 1 .. N, NEW X, NEW y, NEW h,
         NEW d \in Seq(SUBSET Nat), NEW r \in Seq(Nat), Len(d) = N, Len(r) = N, d[n] = X, r[n] = y,
         \A m \in 1 .. N : m # n => d[m] = g.deps[m] /\ r[m] = g.room[m],
         h = [nodes |-> g.nodes, deps |-> d, room |-> r, unopened |-> g.unopened, panicked |-> g.panicked]
  PROVE  Changed(g, h, N, n, X, y)
<1>1. /\ h.nodes = g.nodes /\ h.deps = d /\ h.room = r /\ h.unopened = g.unopened
      /\ h.panicked = g.panicked
      /\ h = [nodes |-> h.nodes, deps |-> h.deps, room |-> h.room, unopened |-> h.unopened,
              panicked |-> h.panicked]
  BY GraphFields, Zenon
<1>2. GraphType(h, N)
  BY <1>1 DEF GraphType
<1>3. QED
  BY <1>1, <1>2 DEF Changed

\* New dependencies and room at one node.
LEMMA SetBoth ==
  ASSUME NEW N \in Nat, NEW g, GraphType(g, N), NEW n \in 1 .. N, NEW X, X \subseteq Nat, NEW y \in Nat
  PROVE  Changed(g, [g EXCEPT !.deps[n] = X, !.room[n] = y], N, n, X, y)
<1>1. PICK a \in Seq(SUBSET Nat), b \in Seq(Nat) : a = g.deps /\ b = g.room /\ Len(a) = N /\ Len(b) = N
  BY GraphParts
<1>2. g = [nodes |-> g.nodes, deps |-> a, room |-> b, unopened |-> g.unopened, panicked |-> g.panicked]
  BY <1>1 DEF GraphType
<1>3. PICK d, r : d = [a EXCEPT ![n] = X] /\ r = [b EXCEPT ![n] = y]
  OBVIOUS
<1>0. PICK h : h = [g EXCEPT !.deps[n] = X, !.room[n] = y]
  OBVIOUS
<1>4. h = [nodes |-> g.nodes, deps |-> d, room |-> r, unopened |-> g.unopened, panicked |-> g.panicked]
  BY <1>0, <1>1, <1>2, <1>3
<1>5. /\ d \in Seq(SUBSET Nat) /\ Len(d) = N /\ d[n] = X /\ r \in Seq(Nat) /\ Len(r) = N /\ r[n] = y
      /\ \A m \in 1 .. N : m # n => d[m] = g.deps[m] /\ r[m] = g.room[m]
  BY <1>1, <1>3, SeqExcept
<1>6. Changed(g, h, N, n, X, y)
  BY <1>1, <1>4, <1>5, Rebuilt
<1>7. QED
  BY <1>0, <1>6

\* New dependencies at one node.
LEMMA SetDeps ==
  ASSUME NEW N \in Nat, NEW g, GraphType(g, N), NEW n \in 1 .. N, NEW X, X \subseteq Nat
  PROVE  Changed(g, [g EXCEPT !.deps[n] = X], N, n, X, g.room[n])
<1>1. PICK a \in Seq(SUBSET Nat), b \in Seq(Nat) : a = g.deps /\ b = g.room /\ Len(a) = N /\ Len(b) = N
  BY GraphParts
<1>2. g = [nodes |-> g.nodes, deps |-> a, room |-> b, unopened |-> g.unopened, panicked |-> g.panicked]
  BY <1>1 DEF GraphType
<1>3. PICK d : d = [a EXCEPT ![n] = X]
  OBVIOUS
<1>0. PICK h : h = [g EXCEPT !.deps[n] = X]
  OBVIOUS
<1>4. h = [nodes |-> g.nodes, deps |-> d, room |-> b, unopened |-> g.unopened, panicked |-> g.panicked]
  BY <1>0, <1>1, <1>2, <1>3
<1>5. /\ d \in Seq(SUBSET Nat) /\ Len(d) = N /\ d[n] = X
      /\ \A m \in 1 .. N : m # n => d[m] = g.deps[m] /\ b[m] = g.room[m]
  BY <1>1, <1>3, SeqExcept
<1>6. Changed(g, h, N, n, X, g.room[n])
  BY <1>1, <1>4, <1>5, Rebuilt
<1>7. QED
  BY <1>0, <1>6

\* New room at one node.
LEMMA SetRoom ==
  ASSUME NEW N \in Nat, NEW g, GraphType(g, N), NEW n \in 1 .. N, NEW y \in Nat
  PROVE  Changed(g, [g EXCEPT !.room[n] = y], N, n, g.deps[n], y)
<1>1. PICK a \in Seq(SUBSET Nat), b \in Seq(Nat) : a = g.deps /\ b = g.room /\ Len(a) = N /\ Len(b) = N
  BY GraphParts
<1>2. g = [nodes |-> g.nodes, deps |-> a, room |-> b, unopened |-> g.unopened, panicked |-> g.panicked]
  BY <1>1 DEF GraphType
<1>3. PICK r : r = [b EXCEPT ![n] = y]
  OBVIOUS
<1>0. PICK h : h = [g EXCEPT !.room[n] = y]
  OBVIOUS
<1>4. h = [nodes |-> g.nodes, deps |-> a, room |-> r, unopened |-> g.unopened, panicked |-> g.panicked]
  BY <1>0, <1>1, <1>2, <1>3
<1>5. /\ r \in Seq(Nat) /\ Len(r) = N /\ r[n] = y
      /\ \A m \in 1 .. N : m # n => a[m] = g.deps[m] /\ r[m] = g.room[m]
  BY <1>1, <1>3, SeqExcept
<1>6. Changed(g, h, N, n, g.deps[n], y)
  BY <1>1, <1>4, <1>5, Rebuilt
<1>7. QED
  BY <1>0, <1>6

\* What the watchers give to the end of a command: the dependencies own[n]
\* and the forward accesses acc[n] of nodes low + 1 .. N are such that none
\* is added after a later one.
Ready(own, pairs, acc, low, N) ==
  /\ pairs \in Seq([open : Nat, close : Nat])
  /\ \A i \in 1 .. Len(pairs) : pairs[i].open \in 1 .. N /\ pairs[i].close \in 0 .. N
  /\ \A n \in 1 .. N : own[n] \subseteq 1 .. N
  /\ \A i \in 1 .. Len(pairs) :
       pairs[i].open < pairs[i].close /\ pairs[i].close > low => own[pairs[i].open] \subseteq 1 .. pairs[i].close
  /\ \A n \in low + 1 .. N :
       /\ acc[n] \in Seq(ForwardAccesses)
       /\ \A k \in 1 .. Len(acc[n]) :
            /\ acc[n][k].pair \in 1 .. Len(pairs)
            /\ acc[n][k].mode = "open" => pairs[acc[n][k].pair].open = n
            /\ acc[n][k].mode = "close" => pairs[acc[n][k].pair].close = n
  /\ \A i \in 1 .. Len(pairs) :
       /\ pairs[i].open > low => Holds(acc[pairs[i].open], i, "open")
       /\ pairs[i].close > low => Holds(acc[pairs[i].close], i, "close")

\* Up to node n the graph is complete.
Completed(g, g0, own, pairs, N, n) ==
  /\ GraphType(g, N) /\ g.nodes = g0.nodes /\ g.unopened = g0.unopened /\ g.panicked = FALSE
  /\ \A m \in 1 .. n : own[m] \subseteq g.deps[m] /\ g.deps[m] \subseteq own[m] \cup (1 .. n)
  /\ \A m \in 1 .. n : Cardinality(Unclosed(g, pairs, m)) <= g.room[m]
  /\ \A m \in n + 1 .. N : g.deps[m] = {} /\ g.room[m] = 0
  /\ \A i \in 1 .. Len(pairs) :
       pairs[i].open \in 1 .. n /\ pairs[i].close \in 1 .. n => pairs[i].close \in g.deps[pairs[i].open]

\* The pairs that node n opened in the first k of its accesses.
Seen(g, pairs, a, n, k) ==
  {i \in Unclosed(g, pairs, n) : \E c \in 1 .. k : a[c] = [pair |-> i, mode |-> "open"]}

\* Node n, the next one, is being done: so far k of its accesses a.
Partial(g, g0, own, pairs, a, N, n, k) ==
  /\ GraphType(g, N) /\ g.nodes = g0.nodes /\ g.unopened = g0.unopened /\ g.panicked = FALSE
  /\ \A m \in 1 .. n : own[m] \subseteq g.deps[m] /\ g.deps[m] \subseteq own[m] \cup (1 .. n)
  /\ \A m \in 1 .. n - 1 : Cardinality(Unclosed(g, pairs, m)) <= g.room[m]
  /\ Cardinality(Seen(g, pairs, a, n, k)) <= g.room[n]
  /\ \A m \in n + 1 .. N : g.deps[m] = {} /\ g.room[m] = 0
  /\ \A i \in 1 .. Len(pairs) :
       pairs[i].open \in 1 .. n - 1 /\ pairs[i].close \in 1 .. n - 1 => pairs[i].close \in g.deps[pairs[i].open]
  /\ \A c \in 1 .. k :
       /\ a[c].mode = "open" /\ pairs[a[c].pair].close \in 1 .. n => pairs[a[c].pair].close \in g.deps[n]
       /\ a[c].mode = "close" /\ pairs[a[c].pair].open < n => n \in g.deps[pairs[a[c].pair].open]

\* Counting pairs.
LEMMA PairSets ==
  ASSUME NEW S, NEW pairs \in Seq(S), NEW T, T \subseteq 1 .. Len(pairs)
  PROVE  /\ IsFiniteSet(T) /\ Cardinality(T) \in Nat
         /\ \A U2 : U2 \subseteq T => Cardinality(U2) <= Cardinality(T)
         /\ \A i \in T : \A U2 : U2 \subseteq T \ {i} => Cardinality(U2) + 1 <= Cardinality(T)
         /\ \A i : \A U2 : U2 \subseteq T \cup {i} => Cardinality(U2) <= Cardinality(T) + 1
<1>1. IsFiniteSet(T) /\ Cardinality(T) \in Nat
  <2>1. Len(pairs) \in Nat
    OBVIOUS
  <2>2. IsFiniteSet(1 .. Len(pairs))
    BY <2>1, FS_Interval
  <2>3. QED
    BY <2>2, FS_Subset, FS_CardinalityType
<1>2. \A U2 : U2 \subseteq T => Cardinality(U2) <= Cardinality(T)
  BY <1>1, FS_Subset
<1>3. ASSUME NEW i \in T, NEW U2, U2 \subseteq T \ {i} PROVE Cardinality(U2) + 1 <= Cardinality(T)
  <2>1. IsFiniteSet(T \ {i}) /\ Cardinality(T \ {i}) = Cardinality(T) - 1
    BY <1>1, FS_RemoveElement
  <2>2. IsFiniteSet(U2) /\ Cardinality(U2) <= Cardinality(T \ {i})
    BY <1>3, <2>1, FS_Subset
  <2>3. Cardinality(U2) \in Nat
    BY <2>2, FS_CardinalityType
  <2>4. QED
    BY <1>1, <2>1, <2>2, <2>3
<1>4. ASSUME NEW i, NEW U2, U2 \subseteq T \cup {i} PROVE Cardinality(U2) <= Cardinality(T) + 1
  <2>1. IsFiniteSet(T \cup {i}) /\ Cardinality(T \cup {i}) <= Cardinality(T) + 1
    <3>1. IsFiniteSet(T \cup {i}) /\ (Cardinality(T \cup {i}) = Cardinality(T) \/ Cardinality(T \cup {i}) = Cardinality(T) + 1)
      BY <1>1, FS_AddElement
    <3>2. QED
      BY <1>1, <3>1
  <2>2. IsFiniteSet(U2) /\ Cardinality(U2) <= Cardinality(T \cup {i})
    BY <1>4, <2>1, FS_Subset
  <2>3. Cardinality(U2) \in Nat /\ Cardinality(T \cup {i}) \in Nat
    BY <2>1, <2>2, FS_CardinalityType
  <2>4. QED
    BY <1>1, <2>1, <2>2, <2>3
<1>5. QED
  BY <1>1, <1>2, <1>3, <1>4

\* The pairs that a node waits for are pairs.
LEMMA UnclosedIn ==
  ASSUME NEW g, NEW pairs, NEW n, NEW a, NEW k
  PROVE  /\ Unclosed(g, pairs, n) \subseteq 1 .. Len(pairs)
         /\ Seen(g, pairs, a, n, k) \subseteq 1 .. Len(pairs)
         /\ Seen(g, pairs, a, n, k) \subseteq Unclosed(g, pairs, n)
  BY DEF Unclosed, Seen

\* The access of a pair.
LEMMA ReadyAt ==
  ASSUME NEW N, NEW low, NEW own, NEW pairs, NEW acc, Ready(own, pairs, acc, low, N),
         NEW i \in 1 .. Len(pairs), NEW n
  PROVE  /\ pairs[i].open = n /\ n > low => Holds(acc[n], i, "open")
         /\ pairs[i].close = n /\ n > low => Holds(acc[n], i, "close")
  BY Zenon DEF Ready

\* The next node starts with its own dependencies.
LEMMA PartialStarts ==
  ASSUME NEW N \in Nat, NEW low \in Nat, NEW own, NEW pairs, NEW acc, Ready(own, pairs, acc, low, N),
         NEW g, NEW g0, NEW n \in Nat, n + 1 <= N, Completed(g, g0, own, pairs, N, n)
  PROVE  Partial([g EXCEPT !.deps[n + 1] = own[n + 1]], g0, own, pairs, acc[n + 1], N, n + 1, 0)
<1>1. PICK p \in 1 .. N : p = n + 1 /\ n = p - 1 /\ 1 .. n \subseteq 1 .. N /\ n + 1 .. N \subseteq 1 .. N
  OBVIOUS
<1>2. own[p] \subseteq 1 .. N /\ own[p] \subseteq Nat
  BY <1>1 DEF Ready
<1>3. GraphType(g, N)
  BY DEF Completed
<1>4. PICK h : h = [g EXCEPT !.deps[p] = own[p]]
  OBVIOUS
<1>5. Changed(g, h, N, p, own[p], g.room[p])
  BY <1>2, <1>3, <1>4, SetDeps
<1>6. /\ GraphType(h, N) /\ h.nodes = g0.nodes /\ h.unopened = g0.unopened /\ h.panicked = FALSE
  BY <1>5 DEF Changed, Completed
<1>7. \A m \in 1 .. n : h.deps[m] = g.deps[m] /\ h.room[m] = g.room[m]
  BY <1>1, <1>5 DEF Changed
<1>8. h.deps[p] = own[p] /\ h.room[p] = 0
  BY <1>1, <1>5 DEF Changed, Completed
<1>9. \A m \in 1 .. p : own[m] \subseteq h.deps[m] /\ h.deps[m] \subseteq own[m] \cup (1 .. p)
  <2>1. TAKE m \in 1 .. p
  <2>2. CASE m = p
    BY <1>8, <2>2
  <2>3. CASE m # p
    <3>1. m \in 1 .. n /\ 1 .. n \subseteq 1 .. p
      BY <1>1, <2>3
    <3>2. own[m] \subseteq g.deps[m] /\ g.deps[m] \subseteq own[m] \cup (1 .. n)
      BY <3>1 DEF Completed
    <3>3. QED
      BY <1>7, <3>1, <3>2
  <2>4. QED
    BY <2>2, <2>3
<1>10. \A m \in 1 .. n : Cardinality(Unclosed(h, pairs, m)) <= h.room[m]
  <2>1. TAKE m \in 1 .. n
  <2>2. Unclosed(h, pairs, m) = Unclosed(g, pairs, m)
    BY <1>7 DEF Unclosed
  <2>3. QED
    BY <1>7, <2>2 DEF Completed
<1>11. Cardinality(Seen(h, pairs, acc[p], p, 0)) <= h.room[p]
  <2>1. Seen(h, pairs, acc[p], p, 0) = {}
    BY DEF Seen
  <2>2. QED
    BY <1>8, <2>1, FS_EmptySet
<1>12. \A m \in p + 1 .. N : h.deps[m] = {} /\ h.room[m] = 0
  <2>1. TAKE m \in p + 1 .. N
  <2>2. m \in 1 .. N /\ m # p /\ m \in n + 1 .. N
    BY <1>1
  <2>3. QED
    BY <1>5, <2>2 DEF Changed, Completed
<1>13. \A i \in 1 .. Len(pairs) :
         pairs[i].open \in 1 .. n /\ pairs[i].close \in 1 .. n => pairs[i].close \in h.deps[pairs[i].open]
  BY <1>7 DEF Completed
<1>14. Partial(h, g0, own, pairs, acc[p], N, p, 0)
  BY <1>1, <1>6, <1>9, <1>10, <1>11, <1>12, <1>13 DEF Partial
<1>15. QED
  BY <1>1, <1>4, <1>14

\* A node whose accesses are all done is complete.
LEMMA PartialEnds ==
  ASSUME NEW N \in Nat, NEW low \in Nat, NEW own, NEW pairs, NEW acc, Ready(own, pairs, acc, low, N),
         NEW g, NEW g0, NEW n \in low + 1 .. N,
         Partial(g, g0, own, pairs, acc[n], N, n, Len(acc[n]))
  PROVE  Completed(g, g0, own, pairs, N, n)
<1>1. PICK a : a = acc[n]
  OBVIOUS
<1>2. n \in 1 .. N /\ n > low
  OBVIOUS
<1>3. Unclosed(g, pairs, n) = Seen(g, pairs, a, n, Len(a))
  <2>1. ASSUME NEW i \in Unclosed(g, pairs, n) PROVE \E c \in 1 .. Len(a) : a[c] = [pair |-> i, mode |-> "open"]
    <3>1. i \in 1 .. Len(pairs) /\ pairs[i].open = n
      BY DEF Unclosed
    <3>2. QED
      <4>1. Holds(a, i, "open")
        BY <1>1, <1>2, <3>1, ReadyAt
      <4>2. QED
        BY <4>1, Zenon DEF Holds
  <2>2. QED
    BY <2>1 DEF Seen
<1>4. \A m \in 1 .. n : Cardinality(Unclosed(g, pairs, m)) <= g.room[m]
  <2>1. TAKE m \in 1 .. n
  <2>2. CASE m = n
    BY <1>1, <1>3, <2>2 DEF Partial
  <2>3. CASE m # n
    <3>1. m \in 1 .. n - 1
      BY <2>3
    <3>2. QED
      BY <3>1 DEF Partial
  <2>4. QED
    BY <2>2, <2>3
<1>5. ASSUME NEW i \in 1 .. Len(pairs), pairs[i].open \in 1 .. n, pairs[i].close \in 1 .. n
      PROVE  pairs[i].close \in g.deps[pairs[i].open]
  <2>1. CASE pairs[i].open = n
    <3>1. PICK c \in 1 .. Len(a) : a[c] = [pair |-> i, mode |-> "open"]
      <4>1. Holds(a, i, "open")
        BY <1>1, <1>2, <2>1, ReadyAt
      <4>2. QED
        BY <4>1, Zenon DEF Holds
    <3>2. a[c].pair = i /\ a[c].mode = "open"
      BY <3>1
    <3>3. pairs[a[c].pair].close \in g.deps[n]
      BY <1>1, <1>5, <3>2 DEF Partial
    <3>4. QED
      BY <2>1, <3>2, <3>3
  <2>2. CASE pairs[i].open # n /\ pairs[i].close = n
    <3>1. PICK c \in 1 .. Len(a) : a[c] = [pair |-> i, mode |-> "close"]
      <4>1. Holds(a, i, "close")
        BY <1>1, <1>2, <2>2, ReadyAt
      <4>2. QED
        BY <4>1, Zenon DEF Holds
    <3>2. a[c].pair = i /\ a[c].mode = "close" /\ pairs[i].open < n
      BY <1>5, <2>2, <3>1
    <3>3. n \in g.deps[pairs[a[c].pair].open]
      BY <1>1, <3>2 DEF Partial
    <3>4. QED
      BY <2>2, <3>2, <3>3
  <2>3. CASE pairs[i].open # n /\ pairs[i].close # n
    <3>1. pairs[i].open \in 1 .. n - 1 /\ pairs[i].close \in 1 .. n - 1
      BY <1>5, <2>3
    <3>2. QED
      BY <3>1 DEF Partial
  <2>4. QED
    BY <2>1, <2>2, <2>3
<1>6. QED
  BY <1>4, <1>5 DEF Partial, Completed

\* What the access x of node n asks of the graph.
Answered(g, pairs, x, n) ==
  /\ x.mode = "open" /\ pairs[x.pair].close \in 1 .. n => pairs[x.pair].close \in g.deps[n]
  /\ x.mode = "close" /\ pairs[x.pair].open < n => n \in g.deps[pairs[x.pair].open]

\* A change at node m takes the dependencies of node n one access further.
LEMMA PartialStep ==
  ASSUME NEW N \in Nat, NEW own, NEW pairs, NEW a, NEW g, NEW g0, NEW n \in 1 .. N, NEW k \in Nat,
         Partial(g, g0, own, pairs, a, N, n, k),
         NEW h, NEW m \in 1 .. n, NEW D, NEW r, Changed(g, h, N, m, D, r),
         g.deps[m] \subseteq D, D \subseteq own[m] \cup (1 .. n),
         m < n => Cardinality(Unclosed(h, pairs, m)) <= r,
         Cardinality(Seen(h, pairs, a, n, k + 1)) <= h.room[n],
         \A c \in 1 .. k : pairs[a[c].pair].open \in 1 .. N,
         Answered(h, pairs, a[k + 1], n)
  PROVE  Partial(h, g0, own, pairs, a, N, n, k + 1)
<1>1. /\ GraphType(h, N) /\ h.nodes = g0.nodes /\ h.unopened = g0.unopened /\ h.panicked = FALSE
  BY DEF Changed, Partial
<1>2. 1 .. n \subseteq 1 .. N /\ h.deps[m] = D /\ h.room[m] = r
  BY DEF Changed
<1>3. \A i \in 1 .. N : i # m => h.deps[i] = g.deps[i] /\ h.room[i] = g.room[i]
  BY DEF Changed
<1>4. \A i \in 1 .. N : g.deps[i] \subseteq h.deps[i]
  BY <1>2, <1>3
<1>5. \A i \in 1 .. n : own[i] \subseteq h.deps[i] /\ h.deps[i] \subseteq own[i] \cup (1 .. n)
  <2>1. TAKE i \in 1 .. n
  <2>2. own[i] \subseteq g.deps[i] /\ g.deps[i] \subseteq own[i] \cup (1 .. n)
    BY DEF Partial
  <2>3. CASE i = m
    BY <1>2, <2>2, <2>3
  <2>4. CASE i # m
    BY <1>2, <1>3, <2>2, <2>4
  <2>5. QED
    BY <2>3, <2>4
<1>6. \A i \in 1 .. n - 1 : Cardinality(Unclosed(h, pairs, i)) <= h.room[i]
  <2>1. TAKE i \in 1 .. n - 1
  <2>2. CASE i = m
    BY <1>2, <2>2
  <2>3. CASE i # m
    <3>1. i \in 1 .. N
      OBVIOUS
    <3>2. h.deps[i] = g.deps[i] /\ h.room[i] = g.room[i]
      BY <1>3, <2>3, <3>1
    <3>3. Unclosed(h, pairs, i) = Unclosed(g, pairs, i)
      BY <3>2 DEF Unclosed
    <3>4. QED
      BY <3>2, <3>3 DEF Partial
  <2>4. QED
    BY <2>2, <2>3
<1>7. \A i \in n + 1 .. N : h.deps[i] = {} /\ h.room[i] = 0
  <2>1. TAKE i \in n + 1 .. N
  <2>2. i \in 1 .. N /\ i # m
    OBVIOUS
  <2>3. QED
    BY <1>3, <2>2 DEF Partial
<1>8. \A i \in 1 .. Len(pairs) :
        pairs[i].open \in 1 .. n - 1 /\ pairs[i].close \in 1 .. n - 1 => pairs[i].close \in h.deps[pairs[i].open]
  <2>1. 1 .. n - 1 \subseteq 1 .. N
    OBVIOUS
  <2>2. QED
    BY <1>4, <2>1 DEF Partial
<1>9. \A c \in 1 .. k : Answered(h, pairs, a[c], n)
  <2>1. TAKE c \in 1 .. k
  <2>2. Answered(g, pairs, a[c], n)
    BY DEF Partial, Answered
  <2>3. n \in 1 .. N /\ pairs[a[c].pair].open \in 1 .. N
    OBVIOUS
  <2>4. QED
    BY <1>4, <2>2, <2>3 DEF Answered
<1>10. \A c \in 1 .. k + 1 : Answered(h, pairs, a[c], n)
  <2>1. \A c \in 1 .. k + 1 : c \in 1 .. k \/ c = k + 1
    OBVIOUS
  <2>2. QED
    BY <1>9, <2>1
<1>11. \A c \in 1 .. k + 1 :
         /\ a[c].mode = "open" /\ pairs[a[c].pair].close \in 1 .. n => pairs[a[c].pair].close \in h.deps[n]
         /\ a[c].mode = "close" /\ pairs[a[c].pair].open < n => n \in h.deps[pairs[a[c].pair].open]
  BY <1>10 DEF Answered
<1>12. QED
  BY <1>1, <1>5, <1>6, <1>7, <1>8, <1>11 DEF Partial

\* One access more of the node that is being done.
LEMMA SeenNext ==
  ASSUME NEW pairs, NEW a, NEW n, NEW k \in Nat, NEW g, NEW h, g.deps[n] \subseteq h.deps[n]
  PROVE  /\ Seen(h, pairs, a, n, k + 1) \subseteq Seen(g, pairs, a, n, k) \cup {a[k + 1].pair}
         /\ a[k + 1].mode # "open" \/ pairs[a[k + 1].pair].close \in h.deps[n]
              => Seen(h, pairs, a, n, k + 1) \subseteq Seen(g, pairs, a, n, k)
<1>1. ASSUME NEW i \in Seen(h, pairs, a, n, k + 1)
      PROVE  \/ i \in Seen(g, pairs, a, n, k)
             \/ a[k + 1].pair = i /\ a[k + 1].mode = "open" /\ pairs[i].close \notin h.deps[n]
  <2>1. i \in 1 .. Len(pairs) /\ pairs[i].open = n /\ pairs[i].close \notin h.deps[n]
    BY DEF Seen, Unclosed
  <2>2. PICK c \in 1 .. k + 1 : a[c] = [pair |-> i, mode |-> "open"]
    BY DEF Seen
  <2>3. i \in Unclosed(g, pairs, n)
    BY <2>1 DEF Unclosed
  <2>4. CASE c = k + 1
    BY <2>1, <2>2, <2>4
  <2>5. CASE c # k + 1
    <3>1. c \in 1 .. k
      BY <2>5
    <3>2. QED
      BY <2>2, <2>3, <3>1 DEF Seen
  <2>6. QED
    BY <2>4, <2>5
<1>2. QED
  BY <1>1

\* AddForward, case by case.
Reserves(g, h, n) == h = [g EXCEPT !.room[n] = g.room[n] + 1]

\* h is g with the dependency of n on c.
Gains(g, h, n, c) == h = [g EXCEPT !.deps[n] = g.deps[n] \cup {c}]

\* An opening whose closing is later, or not yet there, reserves room.
LEMMA ForwardLate ==
  ASSUME NEW g, NEW n \in Nat, NEW w, NEW x, x.mode = "open", w.pairs[x.pair].close \in Nat,
         w.pairs[x.pair].close = 0 \/ w.pairs[x.pair].close > n
  PROVE  Reserves(g, AddForward(g, n, w, x), n)
<1>1. w.pairs[x.pair].close \notin 1 .. n /\ x.mode # "close"
  OBVIOUS
<1>2. QED
  BY <1>1, Zenon DEF AddForward, Reserves, Gains

\* An opening that this node or an earlier one closed is a dependency at
\* once.
LEMMA ForwardEarly ==
  ASSUME NEW g, NEW n \in Nat, NEW w, NEW x, x.mode = "open", w.pairs[x.pair].close \in 1 .. n
  PROVE  Gains(g, AddForward(g, n, w, x), n, w.pairs[x.pair].close)
<1>1. ~(w.pairs[x.pair].close = 0 \/ w.pairs[x.pair].close > n)
  OBVIOUS
<1>2. QED
  BY <1>1, Zenon DEF AddForward, Reserves, Gains

\* A closing adds the dependency to the node that opened; another access
\* changes nothing.
LEMMA ForwardClose ==
  ASSUME NEW g, NEW n, NEW w, NEW x, x.mode # "open"
  PROVE  /\ x.mode = "close" /\ w.pairs[x.pair].open < w.pairs[x.pair].close
              => AddForward(g, n, w, x) = AddDependency(g, w.pairs[x.pair].open, w.pairs[x.pair].close)
         /\ ~(x.mode = "close" /\ w.pairs[x.pair].open < w.pairs[x.pair].close)
              => AddForward(g, n, w, x) = g
  BY Zenon DEF AddForward

\* Each forward access of a node takes its dependencies further: there is
\* room for it, and no dependency on a later node.
LEMMA AddForwardKeeps ==
  ASSUME NEW N \in Nat, NEW low \in Nat, NEW own, NEW w, NEW acc, Ready(own, w.pairs, acc, low, N),
         NEW g, NEW g0, NEW n \in low + 1 .. N, NEW k \in Nat, k + 1 <= Len(acc[n]),
         Partial(g, g0, own, w.pairs, acc[n], N, n, k)
  PROVE  Partial(AddForward(g, n, w, acc[n][k + 1]), g0, own, w.pairs, acc[n], N, n, k + 1)
<1>1. PICK a, pairs : a = acc[n] /\ pairs = w.pairs
  OBVIOUS
<1>2. /\ a \in Seq(ForwardAccesses) /\ pairs \in Seq([open : Nat, close : Nat])
      /\ \A c \in 1 .. Len(a) : /\ a[c].pair \in 1 .. Len(pairs)
                                /\ a[c].mode = "open" => pairs[a[c].pair].open = n
                                /\ a[c].mode = "close" => pairs[a[c].pair].close = n
      /\ \A i \in 1 .. Len(pairs) : pairs[i].open \in 1 .. N /\ pairs[i].close \in 0 .. N
  BY <1>1 DEF Ready
<1>3. Len(a) \in Nat /\ k + 1 \in 1 .. Len(a) /\ \A c \in 1 .. k : c \in 1 .. Len(a)
  BY <1>1, <1>2
<1>4. PICK x, i : x = a[k + 1] /\ i = x.pair
  OBVIOUS
<1>5. /\ i \in 1 .. Len(pairs) /\ pairs[i].open \in 1 .. N /\ pairs[i].close \in 0 .. N
      /\ x.mode = "open" => pairs[i].open = n
      /\ x.mode = "close" => pairs[i].close = n
  BY <1>2, <1>3, <1>4
<1>6. \A c \in 1 .. k : pairs[a[c].pair].open \in 1 .. N
  BY <1>2, <1>3
<1>7. PICK h : h = AddForward(g, n, w, x)
  OBVIOUS
<1>8. n \in 1 .. N /\ n > low /\ n \in 1 .. n
  OBVIOUS
<1>9. GraphType(g, N) /\ Partial(g, g0, own, pairs, a, N, n, k)
  BY <1>1 DEF Partial
<1>10. /\ g.deps[n] \subseteq Nat /\ g.room[n] \in Nat /\ g.deps[n] \subseteq own[n] \cup (1 .. n)
       /\ Cardinality(Seen(g, pairs, a, n, k)) <= g.room[n]
  BY <1>8, <1>9, GraphParts DEF Partial
<1>11. PICK T : T = Seen(g, pairs, a, n, k)
  OBVIOUS
<1>12. /\ IsFiniteSet(T) /\ Cardinality(T) \in Nat
       /\ \A U2 : U2 \subseteq T => Cardinality(U2) <= Cardinality(T)
       /\ \A j : \A U2 : U2 \subseteq T \cup {j} => Cardinality(U2) \in Nat /\ Cardinality(U2) <= Cardinality(T) + 1
  <2>1. T \subseteq 1 .. Len(pairs)
    BY <1>11, UnclosedIn
  <2>2. /\ IsFiniteSet(T) /\ Cardinality(T) \in Nat
        /\ \A U2 : U2 \subseteq T => Cardinality(U2) <= Cardinality(T)
        /\ \A j : \A U2 : U2 \subseteq T \cup {j} => Cardinality(U2) <= Cardinality(T) + 1
    BY <1>2, <2>1, PairSets
  <2>3. \A j : \A U2 : U2 \subseteq T \cup {j} => Cardinality(U2) \in Nat
    BY <2>2, FS_AddElement, FS_Subset, FS_CardinalityType
  <2>4. QED
    BY <2>2, <2>3
<1>13. CASE x.mode = "open" /\ (pairs[i].close = 0 \/ pairs[i].close > n)
  <2>0. PICK y \in Nat : y = g.room[n] + 1
    BY <1>10
  <2>1. h = [g EXCEPT !.room[n] = y]
    <3>1. Reserves(g, AddForward(g, n, w, x), n)
      <4>1. n \in Nat /\ x.mode = "open" /\ w.pairs[x.pair].close \in Nat
        BY <1>1, <1>4, <1>5, <1>8, <1>13
      <4>2. w.pairs[x.pair].close = 0 \/ w.pairs[x.pair].close > n
        BY <1>1, <1>4, <1>13
      <4>3. QED
        BY <4>1, <4>2, ForwardLate
    <3>2. QED
      BY <1>7, <2>0, <3>1, Zenon DEF Reserves
  <2>2. Changed(g, h, N, n, g.deps[n], y)
    <3>1. Changed(g, [g EXCEPT !.room[n] = y], N, n, g.deps[n], y)
      BY <1>8, <1>9, SetRoom
    <3>2. QED
      BY <2>1, <3>1, Zenon
  <2>3. h.deps[n] = g.deps[n] /\ h.room[n] = g.room[n] + 1
    BY <2>0, <2>2 DEF Changed
  <2>4. Cardinality(Seen(h, pairs, a, n, k + 1)) <= h.room[n]
    <3>1. Seen(h, pairs, a, n, k + 1) \subseteq T \cup {i}
      BY <1>4, <1>11, <2>3, SeenNext
    <3>2. PICK A, B, C \in Nat : A = Cardinality(Seen(h, pairs, a, n, k + 1)) /\ B = Cardinality(T) /\ C = g.room[n]
      BY <1>10, <1>12, <3>1
    <3>3. A <= B + 1 /\ B <= C
      BY <1>10, <1>11, <1>12, <3>1, <3>2
    <3>4. A <= C + 1
      BY <3>3
    <3>5. QED
      BY <2>3, <3>2, <3>4
  <2>5. Answered(h, pairs, x, n)
    BY <1>4, <1>5, <1>13 DEF Answered
  <2>6. Partial(h, g0, own, pairs, a, N, n, k + 1)
    <3>1. ~(n < n)
      BY <1>8
    <3>2. QED
      BY <1>4, <1>6, <1>8, <1>9, <1>10, <2>2, <2>4, <2>5, <3>1, PartialStep
  <2>7. QED
    BY <1>1, <1>4, <1>7, <2>6, Zenon
<1>14. CASE x.mode = "open" /\ pairs[i].close \in 1 .. n
  <2>1. PICK D : D = g.deps[n] \cup {pairs[i].close}
    OBVIOUS
  <2>2. h = [g EXCEPT !.deps[n] = D]
    <3>0. n \in Nat
      BY <1>8
    <3>1. Gains(g, AddForward(g, n, w, x), n, w.pairs[x.pair].close)
      <4>1. x.mode = "open" /\ w.pairs[x.pair].close \in 1 .. n
        BY <1>1, <1>4, <1>14
      <4>2. QED
        BY <3>0, <4>1, ForwardEarly
    <3>2. QED
      BY <1>1, <1>4, <1>7, <2>1, <3>1, Zenon DEF Gains
  <2>3. Changed(g, h, N, n, D, g.room[n]) /\ g.deps[n] \subseteq D /\ D \subseteq own[n] \cup (1 .. n)
    <3>1. g.deps[n] \subseteq D /\ D \subseteq own[n] \cup (1 .. n) /\ D \subseteq Nat
      BY <1>8, <1>10, <1>14, <2>1
    <3>2. Changed(g, [g EXCEPT !.deps[n] = D], N, n, D, g.room[n])
      BY <1>8, <1>9, <3>1, SetDeps
    <3>3. QED
      BY <2>2, <3>1, <3>2, Zenon
  <2>4. h.deps[n] = D /\ h.room[n] = g.room[n]
    BY <2>3 DEF Changed
  <2>5. Cardinality(Seen(h, pairs, a, n, k + 1)) <= h.room[n]
    <3>1. Seen(h, pairs, a, n, k + 1) \subseteq T
      BY <1>4, <1>11, <2>1, <2>4, SeenNext
    <3>2. Cardinality(Seen(h, pairs, a, n, k + 1)) \in Nat
      BY <1>12, <3>1, FS_Subset, FS_CardinalityType
    <3>3. QED
      BY <1>10, <1>11, <1>12, <2>4, <3>1, <3>2
  <2>6. Answered(h, pairs, x, n)
    BY <1>4, <1>14, <2>1, <2>4 DEF Answered
  <2>7. Partial(h, g0, own, pairs, a, N, n, k + 1)
    <3>1. ~(n < n)
      BY <1>8
    <3>2. QED
      BY <1>4, <1>6, <1>8, <1>9, <2>3, <2>5, <2>6, <3>1, PartialStep
  <2>8. QED
    BY <1>1, <1>4, <1>7, <2>7, Zenon
<1>15. ASSUME x.mode # "open" \/ pairs[i].close \in g.deps[n], h = g, Answered(g, pairs, x, n)
       PROVE  Partial(h, g0, own, pairs, a, N, n, k + 1)
  <2>1. Changed(g, h, N, n, g.deps[n], g.room[n])
    BY <1>9, <1>15 DEF Changed
  <2>2. Cardinality(Seen(h, pairs, a, n, k + 1)) <= h.room[n]
    <3>1. Seen(h, pairs, a, n, k + 1) \subseteq T
      BY <1>4, <1>11, <1>15, SeenNext
    <3>2. Cardinality(Seen(h, pairs, a, n, k + 1)) \in Nat
      BY <1>12, <3>1, FS_Subset, FS_CardinalityType
    <3>3. QED
      BY <1>10, <1>11, <1>12, <1>15, <3>1, <3>2
  <2>3. g.deps[n] \subseteq g.deps[n] /\ ~(n < n) /\ Answered(h, pairs, x, n)
    BY <1>8, <1>15
  <2>4. QED
    BY <1>4, <1>6, <1>8, <1>9, <1>10, <2>1, <2>2, <2>3, PartialStep
<1>16. CASE x.mode = "close" /\ pairs[i].open < pairs[i].close
  <2>1. PICK o \in 1 .. N : o = pairs[i].open /\ pairs[i].close = n /\ o < n
    BY <1>5, <1>16
  <2>2. h = AddDependency(g, o, n)
    <3>1. x.mode # "open"
      BY <1>16
    <3>2. x.mode = "close" /\ w.pairs[x.pair].open < w.pairs[x.pair].close
      BY <1>1, <1>4, <1>16
    <3>3. h = AddDependency(g, w.pairs[x.pair].open, w.pairs[x.pair].close)
      BY <1>7, <3>1, <3>2, ForwardClose
    <3>4. QED
      BY <1>1, <1>4, <2>1, <3>3, Zenon
  <2>3. CASE n \in g.deps[o]
    <3>1. h = g
      BY <2>2, <2>3 DEF AddDependency
    <3>2. Answered(g, pairs, x, n) /\ x.mode # "open"
      BY <1>4, <1>16, <2>1, <2>3 DEF Answered
    <3>3. QED
      BY <1>1, <1>4, <1>7, <1>15, <3>1, <3>2
  <2>4. CASE n \notin g.deps[o]
    <3>0. o \in 1 .. n /\ o \in 1 .. n - 1
      BY <1>8, <2>1
    <3>1. g.deps[o] \subseteq Nat /\ g.room[o] \in Nat /\ o \in 1 .. n /\ o \in 1 .. n - 1
      BY <1>9, <2>1, <3>0, GraphParts
    <3>2. own[o] \subseteq 1 .. n
      BY <1>1, <1>5, <1>8, <2>1 DEF Ready
    <3>3. g.deps[o] \subseteq 1 .. n /\ g.deps[o] \subseteq own[o] \cup (1 .. n)
      BY <1>9, <3>1, <3>2 DEF Partial
    <3>4. PICK Q : Q = Unclosed(g, pairs, o)
      OBVIOUS
    <3>5. i \in Q /\ Q \subseteq 1 .. Len(pairs)
      BY <1>5, <2>1, <2>4, <3>4 DEF Unclosed
    <3>6. Cardinality(Q) <= g.room[o]
      BY <1>9, <3>1, <3>4 DEF Partial
    <3>7. /\ Cardinality(Q) \in Nat
          /\ \A U2 : U2 \subseteq Q \ {i} => Cardinality(U2) + 1 <= Cardinality(Q)
      BY <1>2, <3>5, PairSets
    <3>8. g.room[o] # 0
      <4>1. Cardinality({}) + 1 <= Cardinality(Q) /\ Cardinality({}) = 0
        BY <3>7, FS_EmptySet
      <4>2. QED
        BY <3>1, <3>6, <3>7, <4>1
    <3>9. PICK D, r : D = g.deps[o] \cup {n} /\ r = g.room[o] - 1
      OBVIOUS
    <3>10. r \in Nat /\ D \subseteq Nat /\ g.deps[o] \subseteq D /\ D \subseteq own[o] \cup (1 .. n)
      BY <1>8, <3>1, <3>3, <3>8, <3>9
    <3>11. h = [g EXCEPT !.deps[o] = D, !.room[o] = r]
      <4>1. ~(\E d \in g.deps[o] : d > n)
        BY <3>3
      <4>2. QED
        BY <2>2, <2>4, <3>8, <3>9, <4>1 DEF AddDependency
    <3>12. Changed(g, h, N, o, D, r)
      BY <1>9, <3>10, <3>11, SetBoth
    <3>13. /\ h.deps[o] = D /\ h.deps[n] = g.deps[n] /\ h.room[n] = g.room[n]
      BY <1>8, <2>1, <3>12 DEF Changed
    <3>14. Cardinality(Unclosed(h, pairs, o)) <= r
      <4>1. Unclosed(h, pairs, o) \subseteq Q \ {i}
        BY <2>1, <3>4, <3>9, <3>13 DEF Unclosed
      <4>2. Cardinality(Unclosed(h, pairs, o)) + 1 <= Cardinality(Q)
        BY <3>7, <4>1
      <4>3. Cardinality(Unclosed(h, pairs, o)) \in Nat
        <5>1. Unclosed(h, pairs, o) \subseteq 1 .. Len(pairs)
          BY UnclosedIn
        <5>2. QED
          BY <1>2, <5>1, PairSets
      <4>4. QED
        BY <3>1, <3>6, <3>7, <3>9, <4>2, <4>3
    <3>15. Cardinality(Seen(h, pairs, a, n, k + 1)) <= h.room[n]
      <4>1. Seen(h, pairs, a, n, k + 1) \subseteq T
        BY <1>4, <1>11, <1>16, <3>13, SeenNext
      <4>2. Cardinality(Seen(h, pairs, a, n, k + 1)) \in Nat
        BY <1>12, <4>1, FS_Subset, FS_CardinalityType
      <4>3. QED
        BY <1>10, <1>11, <1>12, <3>13, <4>1, <4>2
    <3>16. Answered(h, pairs, x, n)
      BY <1>4, <1>16, <2>1, <3>9, <3>13 DEF Answered
    <3>17. QED
      BY <1>1, <1>4, <1>6, <1>7, <1>8, <1>9, <3>1, <3>10, <3>12, <3>14, <3>15, <3>16, PartialStep
  <2>5. QED
    BY <2>3, <2>4
<1>17. CASE (x.mode = "close" /\ ~(pairs[i].open < pairs[i].close)) \/ x.mode \notin {"open", "close"}
  <2>1. h = g
    BY <1>1, <1>4, <1>7, <1>17, ForwardClose
  <2>2. Answered(g, pairs, x, n) /\ x.mode # "open"
    BY <1>4, <1>5, <1>17 DEF Answered
  <2>3. QED
    BY <1>1, <1>4, <1>7, <1>15, <2>1, <2>2
<1>18. x.mode = "open" => pairs[i].close = 0 \/ pairs[i].close > n \/ pairs[i].close \in 1 .. n
  BY <1>5, <1>8
<1>19. QED
  BY <1>13, <1>14, <1>16, <1>17, <1>18

\* A turn of the loop over the forward accesses of a node.
FwdTurn(q, h, x) == AddForward(h, q[1], q[2], x)

\* That loop.
FwdFold == INSTANCE FoldLaws WITH Step <- FwdTurn

\* f has the states of that loop after each turn.
FwdRuns(q, base, xs, m, f) ==
  /\ f[0] = base /\ \A j \in 1 .. m : f[j] = FwdTurn(q, f[j - 1], xs[j])
  /\ FwdFold!Fold(q, base, xs) = f[m]

\* They exist.
LEMMA FwdSteps ==
  ASSUME NEW q, NEW base, NEW S, NEW xs \in Seq(S), NEW m \in Nat, m = Len(xs)
  PROVE  \E f : FwdRuns(q, base, xs, m, f)
  BY FwdFold!FoldSteps DEF FwdRuns

\* The dependencies of a node are added by a fold.
LEMMA NodeIsFold ==
  ASSUME NEW g, NEW p, NEW f, NEW m, NEW w
  PROVE  AddNodeDependencies(g, p, f, m, w)
           = FwdFold!Fold(<<p.node, w>>, [g EXCEPT !.deps[p.node] = OwnDeps(p, f, m)], Kept(w, p.node))
<1>1. AddNodeDependencies(g, p, f, m, w)
        = FoldLeft(LAMBDA h, x : AddForward(h, p.node, w, x), [g EXCEPT !.deps[p.node] = OwnDeps(p, f, m)],
                   Kept(w, p.node))
  BY DEF AddNodeDependencies, OwnDeps, Kept
<1>2. ASSUME NEW base, NEW xs, NEW n
      PROVE  FoldLeft(LAMBDA h, x : AddForward(h, n, w, x), base, xs) = FwdFold!Fold(<<n, w>>, base, xs)
  BY DEF FoldLeft, MapThenFoldSet, Max, FwdFold!Fold, FwdFold!MapThenFoldSet, FwdFold!Greatest, FwdTurn
<1>3. QED
  BY <1>1, <1>2

\* The loop over its accesses completes the node.
LEMMA NodeDone ==
  ASSUME NEW N \in Nat, NEW low \in Nat, NEW own, NEW w, NEW acc, Ready(own, w.pairs, acc, low, N),
         NEW g, NEW g0, NEW n \in Nat, low <= n, n + 1 <= N, Completed(g, g0, own, w.pairs, N, n)
  PROVE  Completed(FwdFold!Fold(<<n + 1, w>>, [g EXCEPT !.deps[n + 1] = own[n + 1]], acc[n + 1]),
                   g0, own, w.pairs, N, n + 1)
<1>1. PICK p \in low + 1 .. N : p = n + 1
  OBVIOUS
<1>2. PICK base : base = [g EXCEPT !.deps[p] = own[p]]
  OBVIOUS
<1>3. Partial(base, g0, own, w.pairs, acc[p], N, p, 0)
  BY <1>1, <1>2, PartialStarts
<1>4. acc[p] \in Seq(ForwardAccesses)
  BY DEF Ready
<1>5. PICK k \in Nat : k = Len(acc[p])
  BY <1>4
<1>6. PICK f : FwdRuns(<<p, w>>, base, acc[p], k, f)
  BY <1>4, <1>5, FwdSteps
<1>7. /\ f[0] = base /\ \A j \in 1 .. k : f[j] = FwdTurn(<<p, w>>, f[j - 1], acc[p][j])
      /\ FwdFold!Fold(<<p, w>>, base, acc[p]) = f[k]
  BY <1>6 DEF FwdRuns
<1> DEFINE Good == {j \in Nat : j <= k => Partial(f[j], g0, own, w.pairs, acc[p], N, p, j)}
<1>8. 0 \in Good
  BY <1>3, <1>7
<1>9. ASSUME NEW j \in Nat, j \in Good PROVE j + 1 \in Good
  <2>1. SUFFICES ASSUME j + 1 <= k PROVE Partial(f[j + 1], g0, own, w.pairs, acc[p], N, p, j + 1)
    OBVIOUS
  <2>2. j + 1 \in 1 .. k /\ (j + 1) - 1 = j /\ j + 1 <= Len(acc[p])
    BY <1>5, <2>1
  <2>3. f[j + 1] = AddForward(f[j], p, w, acc[p][j + 1])
    <3>1. f[j + 1] = FwdTurn(<<p, w>>, f[(j + 1) - 1], acc[p][j + 1])
      BY <1>7, <2>2
    <3>2. QED
      BY <2>2, <3>1 DEF FwdTurn
  <2>4. Partial(f[j], g0, own, w.pairs, acc[p], N, p, j)
    BY <1>9, <2>1
  <2>5. QED
    BY <2>2, <2>3, <2>4, AddForwardKeeps
<1> HIDE DEF Good
<1>10. Nat \subseteq Good
  BY <1>8, <1>9, FwdFold!NatSetInduction
<1>11. Partial(f[k], g0, own, w.pairs, acc[p], N, p, Len(acc[p]))
  BY <1>5, <1>10 DEF Good
<1>12. Completed(f[k], g0, own, w.pairs, N, p)
  BY <1>11, PartialEnds
<1>13. QED
  BY <1>1, <1>2, <1>7, <1>12

\* A turn of the loop over the pending nodes.
EndTurn(q, h, p) == AddNodeDependencies(h, p, q[1], q[2], q[3])

\* That loop.
EndFold == INSTANCE FoldLaws WITH Step <- EndTurn

\* f has the states of that loop after each turn.
EndRuns(q, base, xs, m, f) ==
  /\ f[0] = base /\ \A j \in 1 .. m : f[j] = EndTurn(q, f[j - 1], xs[j])
  /\ EndFold!Fold(q, base, xs) = f[m]

\* They exist.
LEMMA EndSteps ==
  ASSUME NEW q, NEW base, NEW S, NEW xs \in Seq(S), NEW m \in Nat, m = Len(xs)
  PROVE  \E f : EndRuns(q, base, xs, m, f)
  BY EndFold!FoldSteps DEF EndRuns

\* The end of a command is a fold over its nodes.
LEMMA EndIsFold ==
  ASSUME NEW g, NEW f, NEW m, NEW w, NEW xs
  PROVE  FoldLeft(LAMBDA h, p : AddNodeDependencies(h, p, f, m, w), g, xs) = EndFold!Fold(<<f, m, w>>, g, xs)
  BY DEF FoldLeft, MapThenFoldSet, Max, EndFold!Fold, EndFold!MapThenFoldSet, EndFold!Greatest, EndTurn

\* The end of a command completes all its nodes.
LEMMA AllDone ==
  ASSUME NEW N \in Nat, NEW low \in Nat, low <= N, NEW own, NEW w, NEW acc, Ready(own, w.pairs, acc, low, N),
         NEW g, Completed(g, g, own, w.pairs, N, low), NEW f, NEW m,
         NEW S, NEW xs \in Seq(S), Len(xs) = N - low,
         \A i \in 1 .. Len(xs) : /\ xs[i].node = low + i
                                 /\ own[low + i] = OwnDeps(xs[i], f, m)
                                 /\ acc[low + i] = Kept(w, low + i)
  PROVE  Completed(EndFold!Fold(<<f, m, w>>, g, xs), g, own, w.pairs, N, N)
<1>1. PICK k \in Nat : k = Len(xs) /\ low + k = N
  OBVIOUS
<1>2. PICK r : EndRuns(<<f, m, w>>, g, xs, k, r)
  BY <1>1, EndSteps
<1>3. /\ r[0] = g /\ \A j \in 1 .. k : r[j] = EndTurn(<<f, m, w>>, r[j - 1], xs[j])
      /\ EndFold!Fold(<<f, m, w>>, g, xs) = r[k]
  BY <1>2 DEF EndRuns
<1> DEFINE Good == {j \in Nat : j <= k => Completed(r[j], g, own, w.pairs, N, low + j)}
<1>4. 0 \in Good
  BY <1>3
<1>5. ASSUME NEW j \in Nat, j \in Good PROVE j + 1 \in Good
  <2>1. SUFFICES ASSUME j + 1 <= k PROVE Completed(r[j + 1], g, own, w.pairs, N, low + (j + 1))
    OBVIOUS
  <2>2. PICK n \in Nat : n = low + j
    OBVIOUS
  <2>3. /\ j + 1 \in 1 .. k /\ j + 1 \in 1 .. Len(xs) /\ (j + 1) - 1 = j /\ low + (j + 1) = n + 1
        /\ low <= n /\ n + 1 <= N
    BY <1>1, <2>1, <2>2
  <2>4. PICK x : x = xs[j + 1]
    OBVIOUS
  <2>5. x.node = n + 1 /\ own[n + 1] = OwnDeps(x, f, m) /\ acc[n + 1] = Kept(w, n + 1)
    BY <2>3, <2>4
  <2>6. r[j + 1] = AddNodeDependencies(r[j], x, f, m, w)
    <3>1. r[j + 1] = EndTurn(<<f, m, w>>, r[(j + 1) - 1], xs[j + 1])
      BY <1>3, <2>3
    <3>2. QED
      BY <2>3, <2>4, <3>1 DEF EndTurn
  <2>7. r[j + 1] = FwdFold!Fold(<<n + 1, w>>, [r[j] EXCEPT !.deps[n + 1] = own[n + 1]], acc[n + 1])
    BY <2>5, <2>6, NodeIsFold
  <2>8. Completed(r[j], g, own, w.pairs, N, n)
    BY <1>5, <2>1, <2>2
  <2>9. Completed(r[j + 1], g, own, w.pairs, N, n + 1)
    <3>1. PICK h : h = r[j]
      OBVIOUS
    <3>2. Completed(FwdFold!Fold(<<n + 1, w>>, [h EXCEPT !.deps[n + 1] = own[n + 1]], acc[n + 1]),
                    g, own, w.pairs, N, n + 1)
      BY <2>3, <2>8, <3>1, NodeDone
    <3>3. QED
      BY <2>7, <3>1, <3>2, Zenon
  <2>10. QED
    BY <2>3, <2>9
<1> HIDE DEF Good
<1>6. Nat \subseteq Good
  BY <1>4, <1>5, EndFold!NatSetInduction
<1>7. QED
  BY <1>1, <1>3, <1>6 DEF Good

\* A graph with a command more that is alive by itself.
LEMMA UnopenedRec ==
  ASSUME NEW a, NEW b, NEW c, NEW d, NEW e, NEW x
  PROVE  [[nodes |-> a, deps |-> b, room |-> c, unopened |-> d, panicked |-> e] EXCEPT !.unopened = @ \cup x]
           = [nodes |-> a, deps |-> b, room |-> c, unopened |-> d \cup x, panicked |-> e]
  OBVIOUS

\* It changes no node.
LEMMA UnopenedMore ==
  ASSUME NEW N \in Nat, NEW g, GraphType(g, N), NEW x, NEW h, h = g \/ h = [g EXCEPT !.unopened = @ \cup x]
  PROVE  /\ GraphType(h, N) /\ h.nodes = g.nodes /\ h.deps = g.deps /\ h.room = g.room /\ h.panicked = g.panicked
         /\ h.unopened \subseteq g.unopened \cup x
<1>1. PICK a, b, c, d, e : /\ a = g.nodes /\ b = g.deps /\ c = g.room /\ d = g.unopened /\ e = g.panicked
                           /\ g = [nodes |-> a, deps |-> b, room |-> c, unopened |-> d, panicked |-> e]
  BY DEF GraphType
<1>2. h = g \/ h = [nodes |-> a, deps |-> b, room |-> c, unopened |-> d \cup x, panicked |-> e]
  BY <1>1, UnopenedRec, Zenon
<1>3. /\ h.nodes = a /\ h.deps = b /\ h.room = c /\ h.panicked = e /\ h.unopened \subseteq d \cup x
      /\ h = [nodes |-> h.nodes, deps |-> h.deps, room |-> h.room, unopened |-> h.unopened, panicked |-> h.panicked]
  <2>1. CASE h = g
    BY <1>1, <2>1, GraphFields
  <2>2. CASE h = [nodes |-> a, deps |-> b, room |-> c, unopened |-> d \cup x, panicked |-> e]
    <3>1. h.unopened = d \cup x
      BY <2>2, GraphFields
    <3>2. QED
      BY <2>2, <3>1, GraphFields
  <2>3. QED
    BY <1>2, <2>1, <2>2
<1>4. GraphType(h, N)
  BY <1>1, <1>3 DEF GraphType
<1>5. QED
  BY <1>1, <1>3, <1>4
=============================================================================
