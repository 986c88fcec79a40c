------------------------ MODULE ResourceCacheProofs -------------------------
(***************************************************************************)
(* Proofs about ResourceCache, for every heap size, every set of resources *)
(* with their sizes, every list of a replay, every volatile memory size    *)
(* and both builds: the resource cache, its loader, the memory manager and *)
(* the allocator that they share. First what each operator of Allocator    *)
(* leaves of the regions, of the handles and of the bytes, if it finds a   *)
(* sound allocator; the invariant of the cache is built from these.        *)
(***************************************************************************)
EXTENDS ResourceCache, SequenceTheorems, FiniteSetTheorems, TLAPS

\* The loops of compactPurgableMemory and of purgeOrRelocateRange.
P == INSTANCE FoldLaws WITH Step <- PackRegion
M == INSTANCE FoldLaws WITH Step <- MoveRegion

\* The loops of prefetchImpl (which resources are not cached) and of clear.
U == INSTANCE FoldLaws WITH Step <- KeepUncached
C == INSTANCE FoldLaws WITH Step <- ReleaseHandle

\* What FiniteSetsExt!Min chooses is the least element.
LEMMA MinProperties ==
  ASSUME NEW T, T \subseteq Nat, T # {}
  PROVE  Min(T) \in T /\ \A y \in T : Min(T) <= y
<1>1. PICK m \in T : \A n \in T : m <= n
  BY P!LeastNat
<1>2. QED
  BY <1>1 DEF Min

-----------------------------------------------------------------------------
(***************************************************************************)
(* The invariant of the allocator. The memory manager owns the only static *)
(* region, at address 0, so the heap is that region, free bytes, and       *)
(* purgable regions from the head up. T is the set of the tags of bytes.   *)
(***************************************************************************)
\* The allocator is a record with these six fields.
IsHeap(a) == a = [head |-> a.head, static |-> a.static, purgable |-> a.purgable,
                  reloc |-> a.reloc, inv |-> a.inv, mem |-> a.mem]

\* The static region and the head: what the search for a free gap reads.
Frame(a) ==
  /\ IsHeap(a)
  /\ a.head \in 0 .. HeapSize
  /\ DOMAIN a.static = {0} /\ a.static[0] \in 1 .. HeapSize

\* The head is not inside the static region, so that the subtraction of line 109
\* does not wrap round. Growth of the static region past the head loses this.
Snug(a) == a.head = 0 \/ a.static[0] <= a.head

\* The regions lie inside the heap, apart from each other, the purgable ones
\* above the head and above the static one. A head of 0 is what a failed
\* allocation leaves.
Layout(a, T) ==
  /\ IsHeap(a)
  /\ a.head \in 0 .. HeapSize
  /\ DOMAIN a.static = {0} /\ a.static[0] \in 1 .. HeapSize
  /\ DOMAIN a.purgable \subseteq 0 .. HeapSize
  /\ \A o \in DOMAIN a.purgable :
       /\ a.purgable[o] \in Nat \ {0} /\ o + a.purgable[o] <= HeapSize
       /\ a.head <= o /\ a.static[0] <= o
  /\ \A o, q \in DOMAIN a.purgable : o < q => o + a.purgable[o] <= q
  /\ a.mem \in [0 .. HeapSize - 1 -> T]

\* The two relocation maps are inverse to each other where the regions are; a
\* handle that leads to no region was purged.
Handles(a) ==
  /\ IsFiniteSet(DOMAIN a.reloc)
  /\ DOMAIN a.inv = {0} \cup DOMAIN a.purgable
  /\ \A o \in DOMAIN a.inv : a.inv[o] \in DOMAIN a.reloc /\ a.reloc[a.inv[o]] = o
  /\ \A u \in DOMAIN a.reloc :
       a.reloc[u] = Purged \/ (a.reloc[u] \in DOMAIN a.inv /\ a.inv[a.reloc[u]] = u)

\* What every operation of the allocator finds and leaves.
Sound(a, T) == Layout(a, T) /\ Handles(a)

-----------------------------------------------------------------------------
(***************************************************************************)
(* Updates of several fields, as records.                                  *)
(***************************************************************************)
\* registerPurgableAllocation and registerPurge.
LEMMA ExceptPIR ==
  ASSUME NEW a, IsHeap(a), NEW x, NEW y, NEW z
  PROVE  [a EXCEPT !.purgable = x, !.inv = y, !.reloc = z] =
           [head |-> a.head, static |-> a.static, purgable |-> x,
            reloc |-> z, inv |-> y, mem |-> a.mem]
<1>1. PICK b1 : b1 = [head |-> a.head, static |-> a.static, purgable |-> x,
            reloc |-> a.reloc, inv |-> a.inv, mem |-> a.mem]
  OBVIOUS
<1>2. [a EXCEPT !.purgable = x] = b1
  BY <1>1 DEF IsHeap
<1>3. PICK b2 : b2 = [head |-> a.head, static |-> a.static, purgable |-> x,
            reloc |-> a.reloc, inv |-> y, mem |-> a.mem]
  OBVIOUS
<1>4. [b1 EXCEPT !.inv = y] = b2
  BY <1>3, <1>1 DEF IsHeap
<1>5. PICK b3 : b3 = [head |-> a.head, static |-> a.static, purgable |-> x,
            reloc |-> z, inv |-> y, mem |-> a.mem]
  OBVIOUS
<1>6. [b2 EXCEPT !.reloc = z] = b3
  BY <1>5, <1>3 DEF IsHeap
<1>7. [a EXCEPT !.purgable = x, !.inv = y, !.reloc = z] =
        [[[a EXCEPT !.purgable = x] EXCEPT !.inv = y] EXCEPT !.reloc = z]
  BY Zenon
<1>8. QED
  BY <1>1, <1>2, <1>3, <1>4, <1>5, <1>6, <1>7

\* The handles follow a region that moved.
LEMMA ExceptRI ==
  ASSUME NEW a, IsHeap(a), NEW x, NEW y
  PROVE  [a EXCEPT !.reloc = x, !.inv = y] =
           [head |-> a.head, static |-> a.static, purgable |-> a.purgable,
            reloc |-> x, inv |-> y, mem |-> a.mem]
<1>1. PICK b1 : b1 = [head |-> a.head, static |-> a.static, purgable |-> a.purgable,
            reloc |-> x, inv |-> a.inv, mem |-> a.mem]
  OBVIOUS
<1>2. [a EXCEPT !.reloc = x] = b1
  BY <1>1 DEF IsHeap
<1>3. PICK b2 : b2 = [head |-> a.head, static |-> a.static, purgable |-> a.purgable,
            reloc |-> x, inv |-> y, mem |-> a.mem]
  OBVIOUS
<1>4. [b1 EXCEPT !.inv = y] = b2
  BY <1>3, <1>1 DEF IsHeap
<1>5. [a EXCEPT !.reloc = x, !.inv = y] =
        [[a EXCEPT !.reloc = x] EXCEPT !.inv = y]
  BY Zenon
<1>6. QED
  BY <1>1, <1>2, <1>3, <1>4, <1>5

\* compactPurgableMemory.
LEMMA ExceptHMP ==
  ASSUME NEW a, IsHeap(a), NEW x, NEW y, NEW z
  PROVE  [a EXCEPT !.head = x, !.mem = y, !.purgable = z] =
           [head |-> x, static |-> a.static, purgable |-> z,
            reloc |-> a.reloc, inv |-> a.inv, mem |-> y]
<1>1. PICK b1 : b1 = [head |-> x, static |-> a.static, purgable |-> a.purgable,
            reloc |-> a.reloc, inv |-> a.inv, mem |-> a.mem]
  OBVIOUS
<1>2. [a EXCEPT !.head = x] = b1
  BY <1>1 DEF IsHeap
<1>3. PICK b2 : b2 = [head |-> x, static |-> a.static, purgable |-> a.purgable,
            reloc |-> a.reloc, inv |-> a.inv, mem |-> y]
  OBVIOUS
<1>4. [b1 EXCEPT !.mem = y] = b2
  BY <1>3, <1>1 DEF IsHeap
<1>5. PICK b3 : b3 = [head |-> x, static |-> a.static, purgable |-> z,
            reloc |-> a.reloc, inv |-> a.inv, mem |-> y]
  OBVIOUS
<1>6. [b2 EXCEPT !.purgable = z] = b3
  BY <1>5, <1>3 DEF IsHeap
<1>7. [a EXCEPT !.head = x, !.mem = y, !.purgable = z] =
        [[[a EXCEPT !.head = x] EXCEPT !.mem = y] EXCEPT !.purgable = z]
  BY Zenon
<1>8. QED
  BY <1>1, <1>2, <1>3, <1>4, <1>5, <1>6, <1>7

\* releaseAllocation of a purgable region.
LEMMA ExceptPI ==
  ASSUME NEW a, IsHeap(a), NEW x, NEW y
  PROVE  [a EXCEPT !.purgable = x, !.inv = y] =
           [head |-> a.head, static |-> a.static, purgable |-> x,
            reloc |-> a.reloc, inv |-> y, mem |-> a.mem]
<1>1. PICK b1 : b1 = [head |-> a.head, static |-> a.static, purgable |-> x,
            reloc |-> a.reloc, inv |-> a.inv, mem |-> a.mem]
  OBVIOUS
<1>2. [a EXCEPT !.purgable = x] = b1
  BY <1>1 DEF IsHeap
<1>3. PICK b2 : b2 = [head |-> a.head, static |-> a.static, purgable |-> x,
            reloc |-> a.reloc, inv |-> y, mem |-> a.mem]
  OBVIOUS
<1>4. [b1 EXCEPT !.inv = y] = b2
  BY <1>3, <1>1 DEF IsHeap
<1>5. [a EXCEPT !.purgable = x, !.inv = y] =
        [[a EXCEPT !.purgable = x] EXCEPT !.inv = y]
  BY Zenon
<1>6. QED
  BY <1>1, <1>2, <1>3, <1>4, <1>5

-----------------------------------------------------------------------------
(***************************************************************************)
(* Finding room.                                                           *)
(***************************************************************************)
\* A number below the word size is not wrapped.
LEMMA ModSmall ==
  ASSUME NEW x \in Nat, NEW w \in Nat, x < w
  PROVE  x % w = x
  OBVIOUS

\* The allocator's next uid is not in use.
LEMMA FreshUidIsFresh ==
  ASSUME NEW a, IsFiniteSet(DOMAIN a.reloc)
  PROVE  FreshUid(a) \notin DOMAIN a.reloc
<1> DEFINE D == DOMAIN a.reloc
           I == 1 .. Cardinality(D) + 1
<1>1. Cardinality(D) \in Nat
  BY FS_CardinalityType
<1>2. ~(I \subseteq D)
  <2>1. ASSUME I \subseteq D PROVE FALSE
    <3>1. IsFiniteSet(I) /\ Cardinality(I) = Cardinality(D) + 1
      BY <1>1, FS_Interval
    <3>2. Cardinality(I) <= Cardinality(D)
      BY <2>1, FS_Subset
    <3>3. QED
      BY <1>1, <3>1, <3>2
  <2>2. QED
    BY <2>1
<1>3. I \ D \subseteq Nat /\ I \ D # {}
  BY <1>1, <1>2
<1>4. Min(I \ D) \in I \ D
  <2> HIDE DEF I, D
  <2>1. QED
    BY <1>3, MinProperties
<1>5. QED
  BY <1>4 DEF FreshUid

\* getClosestStaticData with the only static region at 0.
LEMMA StaticData ==
  ASSUME NEW a, DOMAIN a.static = {0}, NEW h \in Nat
  PROVE  /\ h = 0 => StaticBelow(a, h) = {} /\ ClosestStaticData(a, h) = 0
         /\ h # 0 => StaticBelow(a, h) = {0} /\ ClosestStaticData(a, h) = 0 + a.static[0]
<1>1. h = 0 => StaticBelow(a, h) = {}
  BY DEF StaticBelow
<1>2. h # 0 => StaticBelow(a, h) = {0}
  BY DEF StaticBelow
<1>3. Max({0}) = 0
  BY DEF Max
<1>4. QED
  BY <1>1, <1>2, <1>3 DEF ClosestStaticData

\* Below a head that is not inside the static region, the gap of line 109 does
\* not wrap round: the head fits exactly when the bytes between it and the
\* static region do.
LEMMA Fitting ==
  ASSUME NEW a, DOMAIN a.static = {0}, a.static[0] \in 1 .. HeapSize,
         NEW h \in 0 .. HeapSize, h = 0 \/ a.static[0] <= h, NEW size \in Nat \ {0}
  PROVE  /\ Heads(a, h) = {0, h}
         /\ (h # 0 /\ h - a.static[0] >= size) => FittingHeads(a, h, size) = {h}
         /\ ~(h # 0 /\ h - a.static[0] >= size) => FittingHeads(a, h, size) = {}
<1>1. HeapSize \in Nat /\ Word \in Nat /\ HeapSize < Word
  BY HeapAssumption
<1>2. Heads(a, h) = {0, h}
  <2>1. CASE h = 0
    BY <2>1, StaticData DEF Heads
  <2>2. CASE h # 0
    BY <1>1, <2>2, StaticData DEF Heads
  <2>3. QED
    BY <2>1, <2>2
<1>3. (0 - ClosestStaticData(a, 0)) % Word = 0
  <2>1. 0 % Word = 0
    BY <1>1, ModSmall
  <2>2. ClosestStaticData(a, 0) = 0
    BY StaticData
  <2>3. QED
    BY <2>1, <2>2
<1>4. h # 0 => (h - ClosestStaticData(a, h)) % Word = h - a.static[0]
  <2>1. SUFFICES ASSUME h # 0
                 PROVE  (h - ClosestStaticData(a, h)) % Word = h - a.static[0]
    OBVIOUS
  <2>2. h - a.static[0] \in Nat /\ h - a.static[0] < Word
    BY <1>1, <2>1
  <2>3. ClosestStaticData(a, h) = a.static[0]
    BY <1>1, <2>1, StaticData
  <2>4. QED
    BY <1>1, <2>2, <2>3, ModSmall
<1>5. \A x \in Heads(a, h) :
        x \in FittingHeads(a, h, size) <=> h # 0 /\ x = h /\ h - a.static[0] >= size
  BY <1>1, <1>2, <1>3, <1>4 DEF FittingHeads
<1>6. FittingHeads(a, h, size) \subseteq Heads(a, h)
  BY DEF FittingHeads
<1>7. QED
  BY <1>2, <1>5, <1>6

\* allocatePurgable(size, false) when there is room: the new region ends at the
\* head.
LEMMA TryFits ==
  ASSUME NEW a, NEW T, Sound(a, T), NEW size \in Nat \ {0},
         a.head # 0, a.head - a.static[0] >= size
  PROVE  LET t == TryPurgable(a, size)
             o == a.head - size
         IN  /\ t.ok = TRUE
             /\ t.uid \notin DOMAIN a.reloc
             /\ o \in a.static[0] .. HeapSize /\ o \notin DOMAIN a.inv
             /\ t.a = [head |-> o, static |-> a.static,
                       purgable |-> Insert(a.purgable, o, size),
                       reloc |-> Insert(a.reloc, t.uid, o),
                       inv |-> Insert(a.inv, o, t.uid), mem |-> a.mem]
<1>1. HeapSize \in Nat /\ Word \in Nat /\ HeapSize < Word
  BY HeapAssumption
<1>2. PICK o \in Nat : o = a.head - size
  BY <1>1 DEF Sound, Layout
<1>3. o \in a.static[0] .. HeapSize /\ o # 0 /\ o < a.head
  BY <1>1, <1>2 DEF Sound, Layout
<1>4. o \notin DOMAIN a.inv
  BY <1>1, <1>3 DEF Sound, Layout, Handles
<1>5. FittingHeads(a, a.head, size) = {a.head}
  <2>1. a.static[0] <= a.head
    BY <1>1 DEF Sound, Layout
  <2>2. QED
    BY <1>1, <2>1, Fitting DEF Sound, Layout
<1>6. Max({a.head}) = a.head
  BY <1>1 DEF Max, Sound, Layout
<1>7. (a.head - size) % Word = o
  <2>1. o < Word
    BY <1>1, <1>2, <1>3 DEF Sound, Layout
  <2>2. o % Word = o
    BY <1>1, <2>1, ModSmall
  <2>3. QED
    BY <1>2, <2>2
<1>8. TryPurgable(a, size) = RegisterPurgable([a EXCEPT !.head = o], o, size)
  BY <1>5, <1>6, <1>7 DEF TryPurgable
<1>9. PICK b : b = [head |-> o, static |-> a.static, purgable |-> a.purgable,
                    reloc |-> a.reloc, inv |-> a.inv, mem |-> a.mem]
  OBVIOUS
<1>10. [a EXCEPT !.head = o] = b
  BY <1>9 DEF Sound, Layout, IsHeap
<1>11. PICK u : u = FreshUid(b)
  OBVIOUS
<1>12. u \notin DOMAIN a.reloc
  BY <1>9, <1>11, FreshUidIsFresh DEF Sound, Handles
<1>13. RegisterPurgable(b, o, size) =
         [a |-> [head |-> o, static |-> a.static, purgable |-> Insert(a.purgable, o, size),
                 reloc |-> Insert(a.reloc, u, o), inv |-> Insert(a.inv, o, u), mem |-> a.mem],
          ok |-> TRUE, uid |-> u]
  <2>1. PICK x, y, z : x = Insert(b.purgable, o, size) /\ y = Insert(b.inv, o, u)
                       /\ z = Insert(b.reloc, u, o)
    OBVIOUS
  <2>2. [b EXCEPT !.purgable = x, !.inv = y, !.reloc = z] =
          [head |-> o, static |-> a.static, purgable |-> x, reloc |-> z, inv |-> y, mem |-> a.mem]
    <3>1. IsHeap(b)
      BY <1>9 DEF IsHeap
    <3>2. b.head = o /\ b.static = a.static /\ b.mem = a.mem
      BY <1>9
    <3>3. [b EXCEPT !.purgable = x, !.inv = y, !.reloc = z] =
            [head |-> b.head, static |-> b.static, purgable |-> x,
             reloc |-> z, inv |-> y, mem |-> b.mem]
      BY <3>1, ExceptPIR, Zenon
    <3>4. QED
      BY <3>2, <3>3
  <2>3. RegisterPurgable(b, o, size) = Done([b EXCEPT !.purgable = x, !.inv = y, !.reloc = z], u)
    BY <1>11, <2>1, Zenon DEF RegisterPurgable
  <2>4. b.purgable = a.purgable /\ b.inv = a.inv /\ b.reloc = a.reloc
    BY <1>9
  <2>5. QED
    BY <2>1, <2>2, <2>3, <2>4 DEF Done
<1>14. QED
  BY <1>2, <1>3, <1>4, <1>8, <1>10, <1>12, <1>13

\* Without room the head drops to 0 and nothing else changes.
LEMMA TryFails ==
  ASSUME NEW a, Frame(a), Snug(a), NEW size \in Nat \ {0},
         ~(a.head # 0 /\ a.head - a.static[0] >= size)
  PROVE  LET t == TryPurgable(a, size)
         IN  /\ t.ok = FALSE
             /\ t.a = [head |-> 0, static |-> a.static, purgable |-> a.purgable,
                       reloc |-> a.reloc, inv |-> a.inv, mem |-> a.mem]
<1>1. HeapSize \in Nat
  BY HeapAssumption
<1>2. FittingHeads(a, a.head, size) = {} /\ Heads(a, a.head) = {0, a.head}
  BY <1>1, Fitting DEF Frame, Snug
<1>3. Min({0, a.head}) = 0
  BY <1>1 DEF Min, Frame
<1>4. TryPurgable(a, size) = Failed([a EXCEPT !.head = 0])
  BY <1>2, <1>3 DEF TryPurgable
<1>5. [a EXCEPT !.head = 0] = [head |-> 0, static |-> a.static, purgable |-> a.purgable,
                               reloc |-> a.reloc, inv |-> a.inv, mem |-> a.mem]
  BY DEF Frame, IsHeap
<1>6. QED
  BY <1>4, <1>5 DEF Failed

\* A new region leaves the allocator sound.
LEMMA NewRegionSound ==
  ASSUME NEW a, NEW T, Sound(a, T), NEW size \in Nat \ {0},
         a.head # 0, a.head - a.static[0] >= size
  PROVE  Sound(TryPurgable(a, size).a, T)
<1>1. HeapSize \in Nat
  BY HeapAssumption
<1>2. PICK o \in Nat : o = a.head - size
  BY <1>1 DEF Sound, Layout
<1>3. PICK b, u : /\ b = TryPurgable(a, size).a /\ u \notin DOMAIN a.reloc
                  /\ o \in a.static[0] .. HeapSize /\ o \notin DOMAIN a.inv
                  /\ b = [head |-> o, static |-> a.static,
                          purgable |-> Insert(a.purgable, o, size),
                          reloc |-> Insert(a.reloc, u, o),
                          inv |-> Insert(a.inv, o, u), mem |-> a.mem]
  BY <1>2, TryFits
<1>4. DOMAIN b.purgable = DOMAIN a.purgable \cup {o} /\ b.purgable[o] = size
      /\ \A q \in DOMAIN a.purgable : q # o /\ b.purgable[q] = a.purgable[q]
  BY <1>3 DEF Insert, Sound, Handles
<1>5. DOMAIN b.inv = DOMAIN a.inv \cup {o} /\ b.inv[o] = u
      /\ \A q \in DOMAIN a.inv : q # o /\ b.inv[q] = a.inv[q]
  BY <1>3 DEF Insert
<1>6. DOMAIN b.reloc = DOMAIN a.reloc \cup {u} /\ b.reloc[u] = o
      /\ \A v \in DOMAIN a.reloc : v # u /\ b.reloc[v] = a.reloc[v]
  BY <1>3 DEF Insert
<1>7. b.head = o /\ b.static = a.static /\ b.mem = a.mem /\ IsHeap(b)
  BY <1>3 DEF IsHeap
<1>8. Layout(b, T)
  <2>1. a.head <= HeapSize /\ a.head = o + size /\ o < a.head
    BY <1>1, <1>2 DEF Sound, Layout
  <2>2. DOMAIN b.purgable \subseteq 0 .. HeapSize
    BY <1>1, <1>2, <1>4, <2>1 DEF Sound, Layout
  <2>3. \A q \in DOMAIN b.purgable :
          /\ b.purgable[q] \in Nat \ {0} /\ q + b.purgable[q] <= HeapSize
          /\ b.head <= q /\ b.static[0] <= q
    BY <1>1, <1>2, <1>3, <1>4, <1>7, <2>1 DEF Sound, Layout
  <2>4. \A q, r \in DOMAIN b.purgable : q < r => q + b.purgable[q] <= r
    BY <1>1, <1>2, <1>4, <2>1 DEF Sound, Layout
  <2>5. QED
    BY <1>1, <1>2, <1>3, <1>7, <2>1, <2>2, <2>3, <2>4 DEF Sound, Layout
<1>9. Handles(b)
  <2>1. IsFiniteSet(DOMAIN b.reloc)
    BY <1>6, FS_AddElement DEF Sound, Handles
  <2>2. DOMAIN b.inv = {0} \cup DOMAIN b.purgable
    BY <1>4, <1>5 DEF Sound, Handles
  <2>3. \A q \in DOMAIN b.inv : b.inv[q] \in DOMAIN b.reloc /\ b.reloc[b.inv[q]] = q
    BY <1>5, <1>6 DEF Sound, Handles
  <2>4. \A v \in DOMAIN b.reloc :
          b.reloc[v] = Purged \/ (b.reloc[v] \in DOMAIN b.inv /\ b.inv[b.reloc[v]] = v)
    BY <1>5, <1>6 DEF Sound, Handles
  <2>5. QED
    BY <2>1, <2>2, <2>3, <2>4 DEF Handles
<1>10. QED
  BY <1>3, <1>8, <1>9 DEF Sound

-----------------------------------------------------------------------------
(***************************************************************************)
(* Compaction.                                                             *)
(***************************************************************************)
\* The loop invariant of compactPurgableMemory, when the regions from x up were
\* packed: they lie above the head in their old order, none has moved down,
\* each has the bytes it had before, and the bytes below the head (those of the
\* regions that are still to come among them) are untouched.
PackInv(a, T, done, x) ==
  /\ done.head \in 0 .. HeapSize /\ a.static[0] <= done.head
  /\ \A o \in DOMAIN a.purgable : o < x => o + a.purgable[o] <= done.head
  /\ DOMAIN done.to = {o \in DOMAIN a.purgable : o >= x}
  /\ \A o \in DOMAIN done.to :
       /\ done.to[o] \in done.head .. HeapSize /\ o <= done.to[o]
       /\ done.to[o] + a.purgable[o] <= HeapSize
  /\ \A o, q \in DOMAIN done.to : o < q => done.to[o] + a.purgable[o] <= done.to[q]
  /\ done.mem \in [0 .. HeapSize - 1 -> T]
  /\ \A y \in 0 .. HeapSize - 1 : y < done.head => done.mem[y] = a.mem[y]
  /\ \A o \in DOMAIN done.to : \A i \in 0 .. a.purgable[o] - 1 :
       done.mem[done.to[o] + i] = a.mem[o + i]

\* m is mem with size bytes copied from one place to another.
Moved(m, T, mem, to, from, size) ==
  /\ m \in [0 .. HeapSize - 1 -> T]
  /\ \A y \in 0 .. HeapSize - 1 : y < to \/ y >= to + size => m[y] = mem[y]
  /\ \A i \in 0 .. size - 1 : m[to + i] = mem[from + i]

\* memmove inside the heap does that, also when the places overlap.
LEMMA MemMoveEffect ==
  ASSUME NEW T, NEW mem \in [0 .. HeapSize - 1 -> T], NEW to \in Nat, NEW from \in Nat,
         NEW size \in Nat, to + size <= HeapSize, from + size <= HeapSize
  PROVE  Moved(MemMove(mem, to, from, size), T, mem, to, from, size)
<1>1. HeapSize \in Nat
  BY HeapAssumption
<1>2. PICK m : m = MemMove(mem, to, from, size)
  OBVIOUS
<1>3. m = [y \in 0 .. HeapSize - 1 |->
             IF y \in to .. to + size - 1 THEN mem[y - to + from] ELSE mem[y]]
  BY <1>2 DEF MemMove
<1>4. \A y \in to .. to + size - 1 : y - to + from \in 0 .. HeapSize - 1
  BY <1>1
<1>5. m \in [0 .. HeapSize - 1 -> T]
  BY <1>3, <1>4
<1>6. \A y \in 0 .. HeapSize - 1 : y < to \/ y >= to + size => m[y] = mem[y]
  BY <1>1, <1>3
<1>7. ASSUME NEW i \in 0 .. size - 1
      PROVE  m[to + i] = mem[from + i]
  <2>1. to + i \in to .. to + size - 1 /\ to + i \in 0 .. HeapSize - 1
        /\ (to + i) - to + from = from + i
    BY <1>1
  <2>2. m[to + i] = mem[(to + i) - to + from]
    BY <1>3, <2>1
  <2>3. QED
    BY <2>1, <2>2
<1>8. QED
  BY <1>2, <1>5, <1>6, <1>7 DEF Moved

\* f holds what the fold has made of the first n members of s, for every n.
PackHistory(a, base, s, f) ==
  /\ f[0] = base
  /\ \A n \in 1 .. Len(s) : f[n] = PackRegion(a, f[n - 1], s[n])
  /\ P!Fold(a, base, s) = f[Len(s)]

\* The history of the loop.
LEMMA PackSteps ==
  ASSUME NEW a, NEW base, NEW S, NEW s \in Seq(S)
  PROVE  \E f : PackHistory(a, base, s, f)
  BY P!FoldSteps DEF PackHistory

\* One turn of the loop of compactPurgableMemory keeps its invariant: the copy
\* of a region up destroys no region that is still to be copied.
LEMMA PackStep ==
  ASSUME NEW a, NEW T, Layout(a, T), NEW x \in 0 .. HeapSize - 1, NEW done,
         PackInv(a, T, done, x + 1)
  PROVE  PackInv(a, T, PackRegion(a, done, x), x)
<1>1. HeapSize \in Nat
  BY HeapAssumption
<1>2. CASE x \notin DOMAIN a.purgable
  <2>1. PackRegion(a, done, x) = done
    BY <1>2 DEF PackRegion
  <2>2. \A o \in DOMAIN a.purgable : (o >= x + 1 <=> o >= x) /\ (o < x => o < x + 1)
    BY <1>1, <1>2 DEF Layout
  <2>3. {o \in DOMAIN a.purgable : o >= x + 1} = {o \in DOMAIN a.purgable : o >= x}
    BY <2>2
  <2>4. QED
    BY <2>1, <2>2, <2>3 DEF PackInv
<1>3. CASE x \in DOMAIN a.purgable
  <2>1. PICK s \in Nat \ {0} : s = a.purgable[x]
    BY <1>3 DEF Layout
  <2>2. x + s <= done.head /\ a.static[0] <= x /\ a.static[0] \in Nat /\ done.head \in 0 .. HeapSize
    <3>1. a.static[0] <= x /\ a.static[0] \in Nat
      BY <1>1, <1>3 DEF Layout
    <3>2. x + s <= done.head /\ done.head \in 0 .. HeapSize
      BY <1>1, <1>3, <2>1 DEF Layout, PackInv
    <3>3. QED
      BY <3>1, <3>2
  <2>3. PICK h \in 0 .. HeapSize : h = done.head - s
    BY <1>1, <2>1, <2>2
  <2>4. h + s = done.head /\ x <= h /\ h < done.head
    BY <1>1, <2>1, <2>2, <2>3
  <2>5. Max(FittingHeads(a, done.head, s)) = done.head
    <3>1. FittingHeads(a, done.head, s) = {done.head}
      <4>1. PICK dh \in 0 .. HeapSize : dh = done.head
        BY <2>2
      <4>2. dh # 0 /\ dh - a.static[0] >= s /\ a.static[0] <= dh
        BY <1>1, <2>1, <2>2, <2>4, <4>1
      <4>3. DOMAIN a.static = {0} /\ a.static[0] \in 1 .. HeapSize
        BY DEF Layout
      <4>4. FittingHeads(a, dh, s) = {dh}
        BY <4>2, <4>3, Fitting
      <4>5. QED
        BY <4>1, <4>4
    <3>2. QED
      BY <1>1, <2>2, <3>1 DEF Max
  <2>6. PICK b : /\ b = PackRegion(a, done, x)
                 /\ b = [head |-> h, mem |-> MemMove(done.mem, h, x, s),
                         to |-> Insert(done.to, x, h)]
    BY <1>3, <2>1, <2>3, <2>5 DEF PackRegion
  <2>7. x \notin DOMAIN done.to /\ \A o \in DOMAIN done.to : o \in DOMAIN a.purgable /\ o >= x + 1
    BY <1>1 DEF PackInv
  <2>8. /\ b.head = h
        /\ DOMAIN b.to = DOMAIN done.to \cup {x} /\ b.to[x] = h
        /\ \A o \in DOMAIN done.to : o # x /\ b.to[o] = done.to[o]
    BY <2>6, <2>7 DEF Insert
  <2>9. /\ b.mem \in [0 .. HeapSize - 1 -> T]
        /\ \A y \in 0 .. HeapSize - 1 : y < h \/ y >= h + s => b.mem[y] = done.mem[y]
        /\ \A i \in 0 .. s - 1 : b.mem[h + i] = done.mem[x + i]
    <3>1. b.mem = MemMove(done.mem, h, x, s)
      BY <2>6
    <3>2. done.mem \in [0 .. HeapSize - 1 -> T]
      BY DEF PackInv
    <3>3. h \in Nat /\ x \in Nat /\ s \in Nat /\ h + s <= HeapSize /\ x + s <= HeapSize
      BY <1>1, <2>1, <2>2, <2>3, <2>4
    <3>4. PICK dm : dm = done.mem
      OBVIOUS
    <3>5. dm \in [0 .. HeapSize - 1 -> T] /\ b.mem = MemMove(dm, h, x, s)
      BY <3>1, <3>2, <3>4
    <3>6. Moved(MemMove(dm, h, x, s), T, dm, h, x, s)
      BY <3>3, <3>5, MemMoveEffect
    <3>7. QED
      BY <3>4, <3>5, <3>6 DEF Moved
  <2>10. \A o \in DOMAIN a.purgable : o < x => o + a.purgable[o] <= h
    BY <1>1, <1>3, <2>4 DEF Layout
  <2>11. DOMAIN b.to = {o \in DOMAIN a.purgable : o >= x}
    <3>1. \A o \in DOMAIN a.purgable : o >= x <=> o >= x + 1 \/ o = x
      BY <1>1 DEF Layout
    <3>2. QED
      BY <1>3, <2>8, <3>1 DEF PackInv
  <2>12. \A o \in DOMAIN b.to : /\ b.to[o] \in h .. HeapSize /\ o <= b.to[o]
                                /\ b.to[o] + a.purgable[o] <= HeapSize
    <3>1. ASSUME NEW o \in DOMAIN b.to
          PROVE  /\ b.to[o] \in h .. HeapSize /\ o <= b.to[o]
                 /\ b.to[o] + a.purgable[o] <= HeapSize
      <4>1. CASE o = x
        BY <1>1, <2>1, <2>2, <2>3, <2>4, <2>8, <4>1
      <4>2. CASE o # x
        <5>1. o \in DOMAIN done.to /\ b.to[o] = done.to[o]
          BY <2>8, <4>2
        <5>2. /\ done.to[o] \in done.head .. HeapSize /\ o <= done.to[o]
              /\ done.to[o] + a.purgable[o] <= HeapSize
          BY <5>1 DEF PackInv
        <5>3. \A y \in done.head .. HeapSize : y \in h .. HeapSize
          BY <1>1, <2>2, <2>3, <2>4
        <5>4. QED
          BY <5>1, <5>2, <5>3
      <4>3. QED
        BY <4>1, <4>2
    <3>2. QED
      BY <3>1
  <2>13. \A o, q \in DOMAIN b.to : o < q => b.to[o] + a.purgable[o] <= b.to[q]
    <3>1. ASSUME NEW o \in DOMAIN b.to, NEW q \in DOMAIN b.to, o < q
          PROVE  b.to[o] + a.purgable[o] <= b.to[q]
      <4>1. CASE o # x /\ q # x
        BY <2>8, <3>1, <4>1 DEF PackInv
      <4>2. CASE o = x
        BY <1>1, <2>1, <2>2, <2>4, <2>8, <3>1, <4>2 DEF PackInv
      <4>3. CASE q = x
        BY <1>1, <2>7, <2>8, <3>1, <4>3 DEF Layout
      <4>4. QED
        BY <4>1, <4>2, <4>3
    <3>2. QED
      BY <3>1
  <2>14. \A y \in 0 .. HeapSize - 1 : y < h => b.mem[y] = a.mem[y]
    <3>1. \A y \in 0 .. HeapSize - 1 : y < done.head => done.mem[y] = a.mem[y]
      BY DEF PackInv
    <3>2. \A y \in 0 .. HeapSize - 1 : y < h => y < done.head
      BY <1>1, <2>2, <2>4
    <3>3. QED
      BY <2>9, <3>1, <3>2, Zenon
  <2>15. ASSUME NEW o \in DOMAIN b.to, NEW i \in 0 .. a.purgable[o] - 1
         PROVE  b.mem[b.to[o] + i] = a.mem[o + i]
    <3>1. CASE o = x
      <4>1. b.mem[h + i] = done.mem[x + i]
        BY <2>1, <2>9, <3>1
      <4>2. x + i \in 0 .. HeapSize - 1 /\ x + i < done.head
        BY <1>1, <2>1, <2>2, <3>1
      <4>3. QED
        BY <2>8, <3>1, <4>1, <4>2 DEF PackInv
    <3>2. CASE o # x
      <4>1. o \in DOMAIN done.to /\ b.to[o] = done.to[o] /\ o \in DOMAIN a.purgable
        BY <2>7, <2>8, <3>2
      <4>2. done.to[o] + i \in 0 .. HeapSize - 1 /\ done.to[o] + i >= h + s
        <5>1. PICK t \in Int, z \in Nat \ {0} : t = done.to[o] /\ z = a.purgable[o]
          BY <1>1, <2>2, <4>1 DEF PackInv, Layout
        <5>2. t >= done.head /\ t + z <= HeapSize
          BY <4>1, <5>1 DEF PackInv
        <5>3. QED
          BY <1>1, <2>2, <2>4, <5>1, <5>2
      <4>3. b.mem[done.to[o] + i] = done.mem[done.to[o] + i]
        BY <2>9, <4>2
      <4>4. done.mem[done.to[o] + i] = a.mem[o + i]
        BY <4>1 DEF PackInv
      <4>5. QED
        BY <4>1, <4>3, <4>4
    <3>3. QED
      BY <3>1, <3>2
  <2>16. h \in 0 .. HeapSize /\ a.static[0] <= h
    BY <1>1, <2>2, <2>4
  <2>17. PackInv(a, T, b, x)
    BY <2>8, <2>9, <2>10, <2>11, <2>12, <2>13, <2>14, <2>15, <2>16 DEF PackInv
  <2>18. QED
    BY <2>6, <2>17
<1>4. QED
  BY <1>2, <1>3

\* So does the whole loop.
LEMMA PackedProperties ==
  ASSUME NEW a, NEW T, Layout(a, T)
  PROVE  PackInv(a, T, Packed(a), 0)
<1>1. HeapSize \in Nat
  BY HeapAssumption
<1>2. PICK start : start = [head |-> HeapSize, mem |-> a.mem, to |-> NoEntries]
  OBVIOUS
<1>3. PICK d \in Seq(0 .. HeapSize - 1) :
        /\ d = Downwards /\ Len(d) = HeapSize
        /\ \A n \in 1 .. HeapSize : d[n] = HeapSize - n
  <2>1. Downwards \in Seq(0 .. HeapSize - 1) /\ Len(Downwards) = HeapSize
        /\ \A n \in 1 .. HeapSize : Downwards[n] = HeapSize - n
    BY <1>1 DEF Downwards
  <2>2. QED
    BY <2>1, Zenon
<1>4. Packed(a) = P!Fold(a, start, d)
  BY <1>2, <1>3 DEF Packed, FoldLeft, MapThenFoldSet, Max,
              P!Fold, P!MapThenFoldSet, P!Greatest
<1>5. PICK f : /\ f[0] = start
               /\ \A n \in 1 .. Len(d) : f[n] = PackRegion(a, f[n - 1], d[n])
               /\ P!Fold(a, start, d) = f[Len(d)]
  <2>1. \E f : PackHistory(a, start, d, f)
    BY PackSteps
  <2>2. QED
    BY <2>1 DEF PackHistory
<1> DEFINE Good == {n \in Nat : n <= HeapSize => PackInv(a, T, f[n], HeapSize - n)}
<1>6. 0 \in Good
  <2>1. start.head = HeapSize /\ start.mem = a.mem /\ start.to = NoEntries /\ DOMAIN start.to = {}
    BY <1>2 DEF NoEntries
  <2>2. {o \in DOMAIN a.purgable : o >= HeapSize} = {}
    BY <1>1 DEF Layout
  <2>3. PackInv(a, T, start, HeapSize)
    BY <1>1, <2>1, <2>2 DEF PackInv, Layout
  <2>4. QED
    BY <1>1, <1>5, <2>3
<1>7. ASSUME NEW n \in Nat, n \in Good
      PROVE  n + 1 \in Good
  <2>1. SUFFICES ASSUME n + 1 <= HeapSize
                 PROVE  PackInv(a, T, f[n + 1], HeapSize - (n + 1))
    OBVIOUS
  <2>2. PICK x \in 0 .. HeapSize - 1 : x = HeapSize - (n + 1)
    BY <1>1, <2>1
  <2>3. n + 1 \in 1 .. HeapSize /\ (n + 1) - 1 = n /\ HeapSize - n = x + 1
    BY <1>1, <2>1, <2>2
  <2>4. f[n + 1] = PackRegion(a, f[n], x)
    BY <1>3, <1>5, <2>2, <2>3
  <2>5. PackInv(a, T, f[n], x + 1)
    <3>1. n <= HeapSize
      BY <1>1, <2>1
    <3>2. PackInv(a, T, f[n], HeapSize - n)
      BY <1>7, <3>1
    <3>3. QED
      BY <2>3, <3>2, Zenon
  <2>6. QED
    BY <2>2, <2>4, <2>5, PackStep
<1>8. Nat \subseteq Good
  <2> HIDE DEF Good
  <2>1. QED
    BY <1>6, <1>7, P!NatSetInduction
<1>9. PackInv(a, T, f[HeapSize], HeapSize - HeapSize)
  BY <1>1, <1>8
<1>10. HeapSize - HeapSize = 0
  BY <1>1
<1>11. QED
  BY <1>3, <1>4, <1>5, <1>9, <1>10

-----------------------------------------------------------------------------
\* The handle u leads to the same bytes in a and in b, wherever they are, or to
\* nothing in both.
SameRegion(a, b, u) ==
  IF a.reloc[u] \in DOMAIN a.purgable
  THEN /\ b.reloc[u] \in DOMAIN b.purgable
       /\ b.purgable[b.reloc[u]] = a.purgable[a.reloc[u]]
       /\ \A i \in 0 .. a.purgable[a.reloc[u]] - 1 :
            b.mem[b.reloc[u] + i] = a.mem[a.reloc[u] + i]
  ELSE b.reloc[u] = a.reloc[u]

\* What no operation on purgable memory changes: the static region with its
\* bytes, and what the handles that stay lead to.
Kept(a, b) ==
  /\ b.static = a.static
  /\ \A u \in DOMAIN a.reloc \cap DOMAIN b.reloc : SameRegion(a, b, u)
  /\ \A x \in 0 .. a.static[0] - 1 : b.mem[x] = a.mem[x]

\* An operation that does nothing keeps everything.
LEMMA KeptReflexive ==
  ASSUME NEW a
  PROVE  Kept(a, a)
  BY DEF Kept, SameRegion

\* The maps after the regions moved by to.
RelocAfter(a, to) ==
  [u \in DOMAIN a.reloc |-> IF \E o \in DOMAIN to : a.inv[o] = u
                            THEN to[CHOOSE o \in DOMAIN to : a.inv[o] = u]
                            ELSE a.reloc[u]]
InvAfter(a, to) ==
  [o \in (DOMAIN a.inv \ DOMAIN to) \cup Range(to) |->
     IF o \in DOMAIN a.inv \ DOMAIN to THEN a.inv[o]
     ELSE a.inv[CHOOSE x \in DOMAIN to : to[x] = o]]
PurgableAfter(a, to) ==
  [o \in Range(to) |-> a.purgable[CHOOSE x \in DOMAIN to : to[x] = o]]

\* registerRelocate as a record.
LEMMA RedirectRecord ==
  ASSUME NEW a, IsHeap(a), NEW to
  PROVE  Redirect(a, to) =
           [head |-> a.head, static |-> a.static, purgable |-> a.purgable,
            reloc |-> RelocAfter(a, to), inv |-> InvAfter(a, to), mem |-> a.mem]
<1>1. Redirect(a, to) = [a EXCEPT !.reloc = RelocAfter(a, to), !.inv = InvAfter(a, to)]
  BY Zenon DEF Redirect, RelocAfter, InvAfter
<1>2. QED
  BY <1>1, ExceptRI, Zenon

\* compactPurgableMemory as a record.
LEMMA CompactRecord ==
  ASSUME NEW a
  PROVE  Compact(a) =
           IF \A o \in DOMAIN Packed(a).to : Packed(a).to[o] = o THEN Failed(a)
           ELSE Done([Redirect(a, Packed(a).to) EXCEPT
                        !.head = Packed(a).head, !.mem = Packed(a).mem,
                        !.purgable = PurgableAfter(a, Packed(a).to)], 0)
  BY Zenon DEF Compact, PurgableAfter

\* b is a with its regions moved by to, each handle led to its region's new
\* place.
Compacted(a, T, to, b) ==
  /\ PackInv(a, T, [head |-> b.head, mem |-> b.mem, to |-> to], 0)
  /\ IsHeap(b) /\ b.static = a.static
  /\ DOMAIN to = DOMAIN a.purgable
  /\ DOMAIN b.purgable = {to[x] : x \in DOMAIN to}
  /\ DOMAIN b.inv = {0} \cup {to[x] : x \in DOMAIN to}
  /\ b.inv[0] = a.inv[0]
  /\ DOMAIN b.reloc = DOMAIN a.reloc
  /\ \A x, y \in DOMAIN to : to[x] = to[y] => x = y
  /\ \A x \in DOMAIN to : to[x] \in Nat \ {0}
  /\ \A x \in DOMAIN to : /\ b.purgable[to[x]] = a.purgable[x]
                          /\ b.inv[to[x]] = a.inv[x]
                          /\ b.reloc[a.inv[x]] = to[x]
  /\ \A u \in DOMAIN a.reloc : a.reloc[u] \notin DOMAIN to => b.reloc[u] = a.reloc[u]

\* A compaction that changes anything does that.
LEMMA CompactEffect ==
  ASSUME NEW a, NEW T, Sound(a, T), Compact(a).a # a
  PROVE  \E to, b : b = Compact(a).a /\ Compacted(a, T, to, b)
<1>1. HeapSize \in Nat
  BY HeapAssumption
<1>2. PICK p : p = Packed(a)
  OBVIOUS
<1>3. PackInv(a, T, p, 0)
  BY <1>2, PackedProperties DEF Sound
<1>4. PICK to : to = p.to
  OBVIOUS
<1>5. DOMAIN to = DOMAIN a.purgable
  <2>1. DOMAIN to = {o \in DOMAIN a.purgable : o >= 0}
    BY <1>3, <1>4 DEF PackInv
  <2>2. \A o \in DOMAIN a.purgable : o >= 0
    BY <1>1 DEF Sound, Layout
  <2>3. QED
    BY <2>1, <2>2
<1>6. \A x \in DOMAIN to : /\ to[x] \in Nat \ {0} /\ x \in Nat \ {0} /\ x \in DOMAIN a.inv
                           /\ a.inv[x] \in DOMAIN a.reloc /\ a.reloc[a.inv[x]] = x
                           /\ a.purgable[x] \in Nat \ {0}
  BY <1>1, <1>3, <1>4, <1>5 DEF PackInv, Sound, Layout, Handles
<1>7. \A x, y \in DOMAIN to : to[x] = to[y] => x = y
  <2>1. ASSUME NEW x \in DOMAIN to, NEW y \in DOMAIN to, x < y
        PROVE  to[x] # to[y]
    <3>1. to[x] + a.purgable[x] <= to[y]
      BY <1>3, <1>4, <2>1 DEF PackInv
    <3>2. QED
      BY <1>6, <3>1
  <2>2. QED
    BY <1>6, <2>1
<1>8. PICK reloc : reloc = RelocAfter(a, to)
  OBVIOUS
<1>9. PICK inv : inv = InvAfter(a, to)
  OBVIOUS
<1>10. PICK purgable : purgable = PurgableAfter(a, to)
  OBVIOUS
<1>11. PICK b : b = [head |-> p.head, static |-> a.static, purgable |-> purgable,
                     reloc |-> reloc, inv |-> inv, mem |-> p.mem]
  OBVIOUS
<1>12. b = Compact(a).a
  <2>1. PICK r : r = [head |-> a.head, static |-> a.static, purgable |-> a.purgable,
                      reloc |-> reloc, inv |-> inv, mem |-> a.mem]
    OBVIOUS
  <2>2. Redirect(a, to) = r
    <3>1. IsHeap(a)
      BY DEF Sound, Layout
    <3>2. QED
      BY <1>8, <1>9, <2>1, <3>1, RedirectRecord
  <2>3. IsHeap(r)
    BY <2>1 DEF IsHeap
  <2>4. PICK h, m : h = p.head /\ m = p.mem
    OBVIOUS
  <2>5. [r EXCEPT !.head = h, !.mem = m, !.purgable = purgable] =
          [head |-> h, static |-> r.static, purgable |-> purgable,
           reloc |-> r.reloc, inv |-> r.inv, mem |-> m]
    BY <2>3, ExceptHMP, Zenon
  <2>6. r.static = a.static /\ r.reloc = reloc /\ r.inv = inv
    BY <2>1
  <2>7. b = [r EXCEPT !.head = h, !.mem = m, !.purgable = purgable]
    BY <1>11, <2>4, <2>5, <2>6
  <2>8. CASE \A o \in DOMAIN to : to[o] = o
    BY <1>2, <1>4, <2>8, CompactRecord DEF Failed
  <2>9. CASE ~(\A o \in DOMAIN to : to[o] = o)
    <3>1. Compact(a) = Done([Redirect(a, to) EXCEPT !.head = p.head, !.mem = p.mem,
                                                    !.purgable = purgable], 0)
      BY <1>2, <1>4, <1>10, <2>9, CompactRecord, Zenon
    <3>2. Compact(a) = Done(b, 0)
      <4>1. Compact(a) = Done([r EXCEPT !.head = h, !.mem = m, !.purgable = purgable], 0)
        BY <2>2, <2>4, <3>1, Zenon
      <4>2. QED
        BY <2>7, <4>1, Zenon
    <3>3. QED
      BY <3>2 DEF Done
  <2>10. QED
    BY <2>8, <2>9
<1>13. b.head = p.head /\ b.static = a.static /\ b.mem = p.mem /\ IsHeap(b)
       /\ b.purgable = purgable /\ b.reloc = reloc /\ b.inv = inv
  BY <1>11 DEF IsHeap
<1>14. PackInv(a, T, [head |-> b.head, mem |-> b.mem, to |-> to], 0)
  <2>1. PICK q : q = [head |-> b.head, mem |-> b.mem, to |-> to]
    OBVIOUS
  <2>2. q.head = p.head /\ q.mem = p.mem /\ q.to = p.to
    BY <1>4, <1>13, <2>1
  <2>3. PackInv(a, T, q, 0)
    BY <1>3, <2>2 DEF PackInv
  <2>4. QED
    BY <2>1, <2>3
<1>15. Range(to) = {to[x] : x \in DOMAIN to}
  BY DEF Range
<1>16. \A x \in DOMAIN to : (CHOOSE z \in DOMAIN to : to[z] = to[x]) = x
  BY <1>7
<1>17. DOMAIN b.purgable = {to[x] : x \in DOMAIN to}
  BY <1>10, <1>13, <1>15 DEF PurgableAfter
<1>18. DOMAIN a.inv \ DOMAIN to = {0}
  BY <1>1, <1>5, <1>6 DEF Sound, Handles
<1>19. DOMAIN b.inv = {0} \cup {to[x] : x \in DOMAIN to} /\ b.inv[0] = a.inv[0]
  BY <1>9, <1>13, <1>15, <1>18 DEF InvAfter
<1>20. DOMAIN b.reloc = DOMAIN a.reloc
  BY <1>8, <1>13 DEF RelocAfter
<1>21. ASSUME NEW x \in DOMAIN to
       PROVE  /\ b.purgable[to[x]] = a.purgable[x]
              /\ b.inv[to[x]] = a.inv[x]
              /\ b.reloc[a.inv[x]] = to[x]
  <2>1. to[x] \in Range(to) /\ to[x] \notin {0}
    BY <1>6, <1>15
  <2>2. b.purgable[to[x]] = a.purgable[x]
    BY <1>10, <1>13, <1>16, <2>1 DEF PurgableAfter
  <2>3. b.inv[to[x]] = a.inv[x]
    BY <1>9, <1>13, <1>16, <1>18, <2>1 DEF InvAfter
  <2>4. (CHOOSE o \in DOMAIN to : a.inv[o] = a.inv[x]) = x
    <3>1. \A o \in DOMAIN to : a.inv[o] = a.inv[x] => o = x
      BY <1>6
    <3>2. QED
      BY <3>1
  <2>5. b.reloc[a.inv[x]] = to[x]
    BY <1>6, <1>8, <1>13, <2>4 DEF RelocAfter
  <2>6. QED
    BY <2>2, <2>3, <2>5
<1>22. ASSUME NEW u \in DOMAIN a.reloc, a.reloc[u] \notin DOMAIN to
       PROVE  b.reloc[u] = a.reloc[u]
  <2>1. ~(\E o \in DOMAIN to : a.inv[o] = u)
    BY <1>6, <1>22
  <2>2. QED
    BY <1>8, <1>13, <2>1 DEF RelocAfter
<1>23. \A x \in DOMAIN to : to[x] \in Nat \ {0}
  BY <1>6
<1>24. Compacted(a, T, to, b)
  BY <1>5, <1>7, <1>13, <1>14, <1>17, <1>19, <1>20, <1>21, <1>22, <1>23 DEF Compacted
<1>25. QED
  BY <1>12, <1>24

\* Compaction leaves the allocator sound and moves no bytes away from their
\* handle: every handle leads to the bytes it led to, and volatile memory is as
\* it was.
THEOREM CompactSound ==
  ASSUME NEW a, NEW T, Sound(a, T), Snug(a)
  PROVE  /\ Sound(Compact(a).a, T) /\ Snug(Compact(a).a) /\ Kept(a, Compact(a).a)
         /\ DOMAIN Compact(a).a.reloc = DOMAIN a.reloc
<1>1. HeapSize \in Nat
  BY HeapAssumption
<1>2. CASE Compact(a).a = a
  BY <1>2, KeptReflexive
<1>3. CASE Compact(a).a # a
  <2>1. PICK to, b : b = Compact(a).a /\ Compacted(a, T, to, b)
    BY <1>3, CompactEffect
  <2>2. PICK p : p = [head |-> b.head, mem |-> b.mem, to |-> to] /\ PackInv(a, T, p, 0)
    BY <2>1 DEF Compacted
  <2>3. p.head = b.head /\ p.mem = b.mem /\ p.to = to
    BY <2>2
  <2>4. b.head \in 0 .. HeapSize /\ a.static[0] <= b.head
    BY <2>2, <2>3 DEF PackInv
  <2>5. \A x \in DOMAIN to :
          /\ to[x] \in b.head .. HeapSize /\ to[x] + a.purgable[x] <= HeapSize
          /\ a.purgable[x] \in Nat \ {0} /\ x \in 0 .. HeapSize
    BY <2>1, <2>2, <2>3 DEF PackInv, Compacted, Sound, Layout
  <2>6. \A x, y \in DOMAIN to : x < y => to[x] + a.purgable[x] <= to[y]
    BY <2>2, <2>3 DEF PackInv
  <2>7. Layout(b, T)
    <3>1. /\ IsHeap(b) /\ b.static = a.static
          /\ DOMAIN b.purgable = {to[x] : x \in DOMAIN to}
          /\ \A x \in DOMAIN to : b.purgable[to[x]] = a.purgable[x] /\ to[x] \in Nat \ {0}
      BY <2>1 DEF Compacted
    <3>2. DOMAIN a.static = {0} /\ a.static[0] \in 1 .. HeapSize
      BY DEF Sound, Layout
    <3>3. ASSUME NEW o \in DOMAIN b.purgable
          PROVE  /\ o \in 0 .. HeapSize
                 /\ b.purgable[o] \in Nat \ {0} /\ o + b.purgable[o] <= HeapSize
                 /\ b.head <= o /\ b.static[0] <= o
      <4>1. PICK x \in DOMAIN to : o = to[x]
        BY <3>1
      <4>2. b.purgable[o] = a.purgable[x]
        BY <3>1, <4>1
      <4>3. QED
        BY <1>1, <2>4, <2>5, <3>1, <3>2, <4>1, <4>2
    <3>4. ASSUME NEW o \in DOMAIN b.purgable, NEW q \in DOMAIN b.purgable, o < q
          PROVE  o + b.purgable[o] <= q
      <4>1. PICK x \in DOMAIN to, y \in DOMAIN to : o = to[x] /\ q = to[y]
        BY <3>1
      <4>2. x < y
        <5>1. ~(y < x)
          <6>1. ASSUME y < x PROVE FALSE
            <7>1. to[y] + a.purgable[y] <= to[x]
              BY <2>6, <6>1
            <7>2. QED
              BY <2>5, <3>1, <3>4, <4>1, <7>1
          <6>2. QED
            BY <6>1
        <5>2. x # y
          BY <3>1, <3>4, <4>1
        <5>3. QED
          BY <2>5, <5>1, <5>2
      <4>3. QED
        BY <2>6, <3>1, <4>1, <4>2
    <3>5. b.mem \in [0 .. HeapSize - 1 -> T]
      BY <2>2, <2>3 DEF PackInv
    <3>6. QED
      BY <2>4, <3>1, <3>2, <3>3, <3>4, <3>5 DEF Layout
  <2>8. /\ DOMAIN b.inv = {0} \cup {to[x] : x \in DOMAIN to}
        /\ b.inv[0] = a.inv[0] /\ DOMAIN b.reloc = DOMAIN a.reloc
        /\ DOMAIN to = DOMAIN a.purgable
        /\ DOMAIN b.purgable = {to[x] : x \in DOMAIN to}
        /\ \A x \in DOMAIN to : /\ b.purgable[to[x]] = a.purgable[x]
                                /\ b.inv[to[x]] = a.inv[x]
                                /\ b.reloc[a.inv[x]] = to[x]
        /\ \A u \in DOMAIN a.reloc : a.reloc[u] \notin DOMAIN to => b.reloc[u] = a.reloc[u]
    BY <2>1 DEF Compacted
  <2>9. /\ IsFiniteSet(DOMAIN a.reloc) /\ 0 \notin DOMAIN a.purgable
        /\ DOMAIN a.inv = {0} \cup DOMAIN a.purgable
        /\ \A o \in DOMAIN a.inv : a.inv[o] \in DOMAIN a.reloc /\ a.reloc[a.inv[o]] = o
        /\ \A u \in DOMAIN a.reloc :
             a.reloc[u] = Purged \/ (a.reloc[u] \in DOMAIN a.inv /\ a.inv[a.reloc[u]] = u)
    BY DEF Sound, Handles, Layout
  <2>10. 0 \in DOMAIN a.inv /\ 0 \in DOMAIN b.inv
    BY <2>8, <2>9
  <2>11. b.reloc[a.inv[0]] = 0
    BY <2>8, <2>9, <2>10
  <2>12. Handles(b)
    <3>1. \A o \in DOMAIN b.inv : b.inv[o] \in DOMAIN b.reloc /\ b.reloc[b.inv[o]] = o
      BY <2>8, <2>9, <2>11
    <3>2. ASSUME NEW u \in DOMAIN b.reloc
          PROVE  b.reloc[u] = Purged \/ (b.reloc[u] \in DOMAIN b.inv /\ b.inv[b.reloc[u]] = u)
      <4>1. CASE a.reloc[u] \in DOMAIN to
        <5>1. PICK x \in DOMAIN to : x = a.reloc[u]
          BY <4>1
        <5>2. x # Purged
          BY <2>8, HeapAssumption DEF Sound, Layout
        <5>3. a.inv[x] = u
          BY <2>8, <2>9, <5>1, <5>2
        <5>4. QED
          BY <2>8, <5>3
      <4>2. CASE a.reloc[u] = 0
        BY <2>8, <2>9, <2>10, <2>11, <4>2
      <4>3. CASE a.reloc[u] = Purged
        BY <2>8, <2>9, <4>1, <4>3
      <4>4. QED
        BY <2>8, <2>9, <4>1, <4>2, <4>3
    <3>3. DOMAIN b.inv = {0} \cup DOMAIN b.purgable
      BY <2>8
    <3>4. IsFiniteSet(DOMAIN b.reloc)
      BY <2>8, <2>9
    <3>5. QED
      BY <3>1, <3>2, <3>3, <3>4 DEF Handles
  <2>13. ASSUME NEW u \in DOMAIN a.reloc
         PROVE  SameRegion(a, b, u)
    <3>1. CASE a.reloc[u] \notin DOMAIN to
      BY <2>8, <3>1 DEF SameRegion
    <3>2. CASE a.reloc[u] \in DOMAIN to
      <4>1. PICK x \in DOMAIN to : x = a.reloc[u]
        BY <3>2
      <4>2. b.reloc[u] = to[x] /\ b.reloc[u] \in DOMAIN b.purgable
            /\ b.purgable[b.reloc[u]] = a.purgable[x]
        <5>1. a.inv[x] = u
          BY <2>8, <2>9, <2>13, <4>1, HeapAssumption DEF Sound, Layout
        <5>2. QED
          BY <2>8, <5>1
      <4>3. \A i \in 0 .. a.purgable[x] - 1 : b.mem[to[x] + i] = a.mem[x + i]
        BY <2>2, <2>3, <4>1 DEF PackInv
      <4>4. QED
        BY <2>8, <4>1, <4>2, <4>3 DEF SameRegion
    <3>3. QED
      BY <3>1, <3>2
  <2>14. \A x \in 0 .. a.static[0] - 1 : b.mem[x] = a.mem[x]
    <3>1. \A y \in 0 .. HeapSize - 1 : y < b.head => b.mem[y] = a.mem[y]
      BY <2>2, <2>3 DEF PackInv
    <3>2. \A x \in 0 .. a.static[0] - 1 : x \in 0 .. HeapSize - 1 /\ x < b.head
      BY <1>1, <2>4 DEF Sound, Layout
    <3>3. QED
      BY <3>1, <3>2
  <2>15. Kept(a, b)
    BY <2>1, <2>13, <2>14 DEF Kept, Compacted
  <2>16. Snug(b)
    BY <2>1, <2>4 DEF Snug, Compacted
  <2>17. QED
    BY <2>1, <2>7, <2>8, <2>12, <2>15, <2>16 DEF Sound
<1>4. QED
  BY <1>2, <1>3

\* Two operations that keep everything do so together.
LEMMA KeptTransitive ==
  ASSUME NEW a, NEW b, NEW c, NEW T, Sound(a, T), Sound(b, T),
         DOMAIN a.reloc \subseteq DOMAIN b.reloc, Kept(a, b), Kept(b, c)
  PROVE  Kept(a, c)
<1>1. ASSUME NEW u \in DOMAIN a.reloc \cap DOMAIN c.reloc
      PROVE  SameRegion(a, c, u)
  <2>1. SameRegion(a, b, u) /\ SameRegion(b, c, u)
    BY <1>1 DEF Kept
  <2>2. CASE a.reloc[u] \in DOMAIN a.purgable
    BY <2>1, <2>2 DEF SameRegion
  <2>3. CASE a.reloc[u] \notin DOMAIN a.purgable
    <3>1. a.reloc[u] = Purged \/ a.reloc[u] = 0
      BY <2>3 DEF Sound, Handles
    <3>2. Purged \notin DOMAIN b.purgable /\ 0 \notin DOMAIN b.purgable
      BY HeapAssumption DEF Sound, Layout
    <3>3. QED
      BY <2>1, <2>3, <3>1, <3>2 DEF SameRegion
  <2>4. QED
    BY <2>2, <2>3
<1>2. QED
  BY <1>1 DEF Kept

-----------------------------------------------------------------------------
(***************************************************************************)
(* Allocation and release.                                                 *)
(***************************************************************************)
\* The handle of t is a new one and leads to a region of the size that was
\* asked for.
Allocated(a, t, size) ==
  /\ t.uid \notin DOMAIN a.reloc
  /\ DOMAIN t.a.reloc = DOMAIN a.reloc \cup {t.uid}
  /\ t.a.reloc[t.uid] \in DOMAIN t.a.purgable
  /\ t.a.purgable[t.a.reloc[t.uid]] = size

\* allocatePurgable without compaction is sound.
LEMMA TrySound ==
  ASSUME NEW a, NEW T, Sound(a, T), Snug(a), NEW size \in Nat \ {0}
  PROVE  LET t == TryPurgable(a, size)
         IN  /\ Sound(t.a, T) /\ Snug(t.a) /\ Kept(a, t.a) /\ t.ok \in BOOLEAN
             /\ t.ok => Allocated(a, t, size)
             /\ ~t.ok => DOMAIN t.a.reloc = DOMAIN a.reloc
<1>1. HeapSize \in Nat
  BY HeapAssumption
<1>2. PICK t : t = TryPurgable(a, size)
  OBVIOUS
<1>3. CASE a.head # 0 /\ a.head - a.static[0] >= size
  <2>1. PICK o : o = a.head - size
    OBVIOUS
  <2>2. PICK b, u : /\ b = t.a /\ u = t.uid /\ t.ok = TRUE
                    /\ u \notin DOMAIN a.reloc
                    /\ o \in a.static[0] .. HeapSize /\ o \notin DOMAIN a.inv
                    /\ b = [head |-> o, static |-> a.static,
                            purgable |-> Insert(a.purgable, o, size),
                            reloc |-> Insert(a.reloc, u, o),
                            inv |-> Insert(a.inv, o, u), mem |-> a.mem]
    BY <1>2, <1>3, <2>1, TryFits
  <2>3. Sound(b, T)
    BY <1>2, <1>3, <2>2, NewRegionSound
  <2>4. DOMAIN b.purgable = DOMAIN a.purgable \cup {o} /\ b.purgable[o] = size
        /\ \A q \in DOMAIN a.purgable : q # o /\ b.purgable[q] = a.purgable[q]
    BY <2>2 DEF Insert, Sound, Handles
  <2>5. DOMAIN b.reloc = DOMAIN a.reloc \cup {u} /\ b.reloc[u] = o
        /\ \A v \in DOMAIN a.reloc : v # u /\ b.reloc[v] = a.reloc[v]
    BY <2>2 DEF Insert
  <2>6. b.static = a.static /\ b.mem = a.mem
    BY <2>2
  <2>7. Kept(a, b)
    BY <2>4, <2>5, <2>6 DEF Kept, SameRegion
  <2>8. Allocated(a, t, size)
    BY <2>2, <2>4, <2>5 DEF Allocated
  <2>9. Snug(b)
    BY <2>2 DEF Snug, Sound, Layout
  <2>10. QED
    BY <1>2, <2>2, <2>3, <2>7, <2>8, <2>9
<1>4. CASE ~(a.head # 0 /\ a.head - a.static[0] >= size)
  <2>1. PICK b : /\ b = t.a /\ t.ok = FALSE
                 /\ b = [head |-> 0, static |-> a.static, purgable |-> a.purgable,
                         reloc |-> a.reloc, inv |-> a.inv, mem |-> a.mem]
    BY <1>2, <1>4, TryFails DEF Sound, Layout, Frame
  <2>2. b.head = 0 /\ b.static = a.static /\ b.purgable = a.purgable /\ b.reloc = a.reloc
        /\ b.inv = a.inv /\ b.mem = a.mem /\ IsHeap(b)
    BY <2>1 DEF IsHeap
  <2>3. Layout(b, T)
    <3>1. \A o \in DOMAIN a.purgable : 0 <= o
      BY DEF Sound, Layout
    <3>2. 0 \in 0 .. HeapSize
      BY <1>1
    <3>3. QED
      BY <2>2, <3>1, <3>2 DEF Sound, Layout
  <2>4. Handles(b)
    BY <2>2 DEF Sound, Handles
  <2>5. Kept(a, b)
    BY <2>2 DEF Kept, SameRegion
  <2>6. QED
    BY <1>2, <2>1, <2>2, <2>3, <2>4, <2>5 DEF Sound, Snug
<1>5. QED
  BY <1>3, <1>4

\* allocatePurgable, with the compaction between its two attempts: it leaves
\* the allocator sound, keeps what all other handles lead to and either gives a
\* fresh handle to a region of its own or leaves the handles as they were.
THEOREM AllocateSound ==
  ASSUME NEW a, NEW T, Sound(a, T), Snug(a), NEW size \in Nat \ {0}
  PROVE  LET t == AllocatePurgable(a, size)
         IN  /\ Sound(t.a, T) /\ Kept(a, t.a) /\ t.ok \in BOOLEAN
             /\ t.ok => Allocated(a, t, size)
             /\ ~t.ok => DOMAIN t.a.reloc = DOMAIN a.reloc
<1>1. PICK t : t = TryPurgable(a, size)
  OBVIOUS
<1>2. /\ Sound(t.a, T) /\ Snug(t.a) /\ Kept(a, t.a) /\ t.ok \in BOOLEAN
      /\ t.ok => Allocated(a, t, size)
      /\ ~t.ok => DOMAIN t.a.reloc = DOMAIN a.reloc
  BY <1>1, TrySound
<1>3. CASE t.ok \/ ~Compact(t.a).ok
  <2>1. AllocatePurgable(a, size) = t
    BY <1>1, <1>3 DEF AllocatePurgable
  <2>2. QED
    BY <1>2, <2>1
<1>4. CASE ~(t.ok \/ ~Compact(t.a).ok)
  <2>1. PICK b, c : b = t.a /\ c = Compact(b).a
    OBVIOUS
  <2>2. Sound(c, T) /\ Snug(c) /\ Kept(b, c) /\ DOMAIN c.reloc = DOMAIN b.reloc
    BY <1>2, <2>1, CompactSound
  <2>3. DOMAIN b.reloc = DOMAIN a.reloc
    BY <1>2, <1>4, <2>1
  <2>4. PICK s : s = TryPurgable(c, size)
    OBVIOUS
  <2>5. AllocatePurgable(a, size) = s
    BY <1>1, <1>4, <2>1, <2>4 DEF AllocatePurgable
  <2>6. /\ Sound(s.a, T) /\ Kept(c, s.a) /\ s.ok \in BOOLEAN
        /\ s.ok => Allocated(c, s, size)
        /\ ~s.ok => DOMAIN s.a.reloc = DOMAIN c.reloc
    BY <2>2, <2>4, TrySound
  <2>7. Kept(a, c)
    BY <1>2, <2>1, <2>2, <2>3, KeptTransitive, Zenon
  <2>8. Kept(a, s.a)
    BY <2>2, <2>3, <2>6, <2>7, KeptTransitive
  <2>9. s.ok => Allocated(a, s, size)
    BY <2>2, <2>3, <2>6 DEF Allocated
  <2>10. QED
    BY <2>2, <2>3, <2>5, <2>6, <2>8, <2>9
<1>5. QED
  BY <1>3, <1>4

-----------------------------------------------------------------------------
\* releaseAllocation of a purgable or purged region takes exactly its handle
\* and leaves all other regions.
THEOREM ReleaseSound ==
  ASSUME NEW a, NEW T, Sound(a, T), NEW u \in DOMAIN a.reloc, a.reloc[u] # 0
  PROVE  LET b == ReleaseAllocation(a, u)
         IN  Sound(b, T) /\ Kept(a, b) /\ DOMAIN b.reloc = DOMAIN a.reloc \ {u}
<1>1. HeapSize \in Nat /\ Purged \notin 0 .. HeapSize
  BY HeapAssumption
<1>2. PICK b : b = ReleaseAllocation(a, u)
  OBVIOUS
<1>3. IsHeap(a)
  BY DEF Sound, Layout
<1>4. PICK f : f = [head |-> a.head, static |-> a.static, purgable |-> a.purgable,
                    reloc |-> Erase(a.reloc, {u}), inv |-> a.inv, mem |-> a.mem]
  OBVIOUS
<1>5. [a EXCEPT !.reloc = Erase(a.reloc, {u})] = f
  BY <1>3, <1>4 DEF IsHeap
<1>6. /\ DOMAIN Erase(a.reloc, {u}) = DOMAIN a.reloc \ {u}
      /\ \A v \in DOMAIN a.reloc \ {u} : Erase(a.reloc, {u})[v] = a.reloc[v]
  BY DEF Erase
<1>7. CASE a.reloc[u] = Purged
  <2>1. b = f
    BY <1>2, <1>5, <1>7 DEF ReleaseAllocation
  <2>2. /\ b.head = a.head /\ b.static = a.static /\ b.purgable = a.purgable /\ b.inv = a.inv
        /\ b.mem = a.mem /\ b.reloc = Erase(a.reloc, {u}) /\ IsHeap(b)
    BY <1>4, <2>1 DEF IsHeap
  <2>3. Layout(b, T)
    BY <2>2 DEF Sound, Layout
  <2>4. Handles(b)
    <3>1. IsFiniteSet(DOMAIN b.reloc)
      BY <1>6, <2>2, FS_RemoveElement DEF Sound, Handles
    <3>2. \A o \in DOMAIN a.inv : o # Purged /\ a.inv[o] # u
      BY <1>1, <1>7 DEF Sound, Handles, Layout
    <3>3. /\ DOMAIN b.reloc = DOMAIN a.reloc \ {u}
          /\ \A v \in DOMAIN b.reloc : b.reloc[v] = a.reloc[v]
      BY <1>6, <2>2
    <3>4. DOMAIN b.inv = {0} \cup DOMAIN b.purgable
      BY <2>2 DEF Sound, Handles
    <3>5. \A o \in DOMAIN b.inv : b.inv[o] \in DOMAIN b.reloc /\ b.reloc[b.inv[o]] = o
      BY <2>2, <3>2, <3>3 DEF Sound, Handles
    <3>6. \A v \in DOMAIN b.reloc :
            b.reloc[v] = Purged \/ (b.reloc[v] \in DOMAIN b.inv /\ b.inv[b.reloc[v]] = v)
      BY <2>2, <3>3 DEF Sound, Handles
    <3>7. QED
      BY <3>1, <3>4, <3>5, <3>6 DEF Handles
  <2>5. Kept(a, b)
    BY <1>6, <2>2 DEF Kept, SameRegion
  <2>6. QED
    BY <1>2, <1>6, <2>2, <2>3, <2>4, <2>5 DEF Sound
<1>8. CASE a.reloc[u] # Purged
  <2>1. PICK q \in DOMAIN a.purgable : q = a.reloc[u]
    BY <1>8 DEF Sound, Handles
  <2>2. q \in DOMAIN a.inv /\ a.inv[q] = u /\ q # 0 /\ q # Purged /\ q \notin DOMAIN a.static
    BY <1>1, <1>8, <2>1 DEF Sound, Handles, Layout
  <2>3. b = [f EXCEPT !.purgable = Erase(f.purgable, {q}), !.inv = Erase(f.inv, {q})]
    <3>1. a.reloc[u] # Purged /\ a.reloc[u] \notin DOMAIN a.static /\ a.inv[a.reloc[u]] = u
      BY <1>8, <2>1, <2>2
    <3>2. b = [[a EXCEPT !.reloc = Erase(a.reloc, {u})] EXCEPT
                 !.purgable = Erase(@, {a.reloc[u]}), !.inv = Erase(@, {a.reloc[u]})]
      BY <1>2, <3>1, Zenon DEF ReleaseAllocation
    <3>3. b = [f EXCEPT !.purgable = Erase(@, {q}), !.inv = Erase(@, {q})]
      BY <1>5, <2>1, <3>2, Zenon
    <3>4. QED
      BY <3>3, Zenon
  <2>4. PICK x, y : x = Erase(f.purgable, {q}) /\ y = Erase(f.inv, {q})
    OBVIOUS
  <2>5. IsHeap(f) /\ f.head = a.head /\ f.static = a.static /\ f.mem = a.mem
        /\ f.purgable = a.purgable /\ f.inv = a.inv /\ f.reloc = Erase(a.reloc, {u})
    BY <1>4 DEF IsHeap
  <2>6. b = [head |-> f.head, static |-> f.static, purgable |-> x,
             reloc |-> f.reloc, inv |-> y, mem |-> f.mem]
    BY <2>3, <2>4, <2>5, ExceptPI, ZenonT(30)
  <2>7. /\ b.head = a.head /\ b.static = a.static /\ b.mem = a.mem /\ IsHeap(b)
        /\ b.reloc = Erase(a.reloc, {u}) /\ b.purgable = Erase(a.purgable, {q})
        /\ b.inv = Erase(a.inv, {q})
    BY <2>4, <2>5, <2>6 DEF IsHeap
  <2>8. /\ DOMAIN b.purgable = DOMAIN a.purgable \ {q}
        /\ \A o \in DOMAIN b.purgable : b.purgable[o] = a.purgable[o]
        /\ DOMAIN b.inv = DOMAIN a.inv \ {q}
        /\ \A o \in DOMAIN b.inv : b.inv[o] = a.inv[o]
        /\ DOMAIN b.reloc = DOMAIN a.reloc \ {u}
        /\ \A v \in DOMAIN b.reloc : b.reloc[v] = a.reloc[v]
    BY <2>7 DEF Erase
  <2>9. Layout(b, T)
    BY <2>7, <2>8 DEF Sound, Layout
  <2>10. \A v \in DOMAIN b.reloc : a.reloc[v] # q
    BY <2>2, <2>8 DEF Sound, Handles
  <2>11. Handles(b)
    <3>1. IsFiniteSet(DOMAIN b.reloc)
      BY <2>8, FS_RemoveElement DEF Sound, Handles
    <3>2. DOMAIN b.inv = {0} \cup DOMAIN b.purgable
      BY <2>2, <2>8 DEF Sound, Handles
    <3>3. \A o \in DOMAIN b.inv : b.inv[o] \in DOMAIN b.reloc /\ b.reloc[b.inv[o]] = o
      BY <2>1, <2>8 DEF Sound, Handles
    <3>4. \A v \in DOMAIN b.reloc :
            b.reloc[v] = Purged \/ (b.reloc[v] \in DOMAIN b.inv /\ b.inv[b.reloc[v]] = v)
      BY <2>8, <2>10 DEF Sound, Handles
    <3>5. QED
      BY <3>1, <3>2, <3>3, <3>4 DEF Handles
  <2>12. Kept(a, b)
    BY <2>7, <2>8, <2>10 DEF Kept, SameRegion
  <2>13. QED
    BY <1>2, <2>8, <2>9, <2>11, <2>12 DEF Sound
<1>9. QED
  BY <1>7, <1>8

-----------------------------------------------------------------------------
(***************************************************************************)
(* Writing to regions.                                                     *)
(***************************************************************************)
\* Writing bytes changes nothing but the bytes.
LEMMA FillEffect ==
  ASSUME NEW a, NEW T, Sound(a, T), NEW start \in Nat, NEW size \in Nat, NEW tag \in T
  PROVE  LET b == [a EXCEPT !.mem = Fill(@, start, size, tag)]
         IN  /\ Sound(b, T)
             /\ b.head = a.head /\ b.static = a.static /\ b.purgable = a.purgable
             /\ b.reloc = a.reloc /\ b.inv = a.inv
             /\ \A x \in 0 .. HeapSize - 1 :
                  b.mem[x] = IF x \in start .. start + size - 1 THEN tag ELSE a.mem[x]
<1>1. PICK m : m = Fill(a.mem, start, size, tag)
  OBVIOUS
<1>2. PICK b : b = [head |-> a.head, static |-> a.static, purgable |-> a.purgable,
                    reloc |-> a.reloc, inv |-> a.inv, mem |-> m]
  OBVIOUS
<1>3. [a EXCEPT !.mem = Fill(@, start, size, tag)] = b
  BY <1>1, <1>2 DEF Sound, Layout, IsHeap
<1>4. b.head = a.head /\ b.static = a.static /\ b.purgable = a.purgable
      /\ b.reloc = a.reloc /\ b.inv = a.inv /\ b.mem = m /\ IsHeap(b)
  BY <1>2 DEF IsHeap
<1>5. m \in [0 .. HeapSize - 1 -> T]
      /\ \A x \in 0 .. HeapSize - 1 :
           m[x] = IF x \in start .. start + size - 1 THEN tag ELSE a.mem[x]
  BY <1>1 DEF Fill, Sound, Layout
<1>6. Layout(b, T)
  BY <1>4, <1>5 DEF Sound, Layout
<1>7. Handles(b)
  BY <1>4 DEF Sound, Handles
<1>8. QED
  BY <1>3, <1>4, <1>5, <1>6, <1>7 DEF Sound

\* The replay's own stores to its static region touch no purgable region.
LEMMA FillVolatile ==
  ASSUME NEW a, NEW T, Sound(a, T), NEW tag \in T
  PROVE  LET b == [a EXCEPT !.mem = Fill(@, 0, a.static[0], tag)]
         IN  /\ Sound(b, T) /\ b.static = a.static /\ b.reloc = a.reloc
             /\ \A u \in DOMAIN a.reloc : SameRegion(a, b, u)
             /\ \A x \in 0 .. HeapSize - 1 : b.mem[x] \in {tag, a.mem[x]}
<1>1. HeapSize \in Nat
  BY HeapAssumption
<1>2. PICK size \in Nat : size = a.static[0]
  BY DEF Sound, Layout
<1>0. PICK z \in Nat : z = 0
  OBVIOUS
<1>3. PICK b : b = [a EXCEPT !.mem = Fill(@, z, size, tag)]
  OBVIOUS
<1>4. /\ Sound(b, T)
      /\ b.head = a.head /\ b.static = a.static /\ b.purgable = a.purgable
      /\ b.reloc = a.reloc /\ b.inv = a.inv
      /\ \A x \in 0 .. HeapSize - 1 :
           b.mem[x] = IF x \in z .. z + size - 1 THEN tag ELSE a.mem[x]
  BY <1>3, FillEffect
<1>5. ASSUME NEW o \in DOMAIN a.purgable, NEW i \in 0 .. a.purgable[o] - 1
      PROVE  b.mem[o + i] = a.mem[o + i]
  <2>1. o \in Nat /\ size <= o /\ a.purgable[o] \in Nat /\ o + a.purgable[o] <= HeapSize
    BY <1>1, <1>2 DEF Sound, Layout
  <2>2. o + i \in 0 .. HeapSize - 1 /\ o + i \notin z .. z + size - 1
    BY <1>0, <1>1, <1>2, <2>1
  <2>3. QED
    BY <1>4, <2>2
<1>6. \A u \in DOMAIN a.reloc : SameRegion(a, b, u)
  BY <1>4, <1>5 DEF SameRegion
<1>7. QED
  BY <1>0, <1>2, <1>3, <1>4, <1>6

\* putCache fills the new region and nothing else.
LEMMA FillRegion ==
  ASSUME NEW a, NEW T, Sound(a, T), NEW u \in DOMAIN a.reloc,
         a.reloc[u] \in DOMAIN a.purgable, NEW tag \in T
  PROVE  LET b == [a EXCEPT !.mem = Fill(@, a.reloc[u], a.purgable[a.reloc[u]], tag)]
         IN  /\ Sound(b, T) /\ b.static = a.static /\ b.reloc = a.reloc
             /\ b.purgable = a.purgable
             /\ \A v \in DOMAIN a.reloc \ {u} : SameRegion(a, b, v)
             /\ \A x \in 0 .. a.static[0] - 1 : b.mem[x] = a.mem[x]
             /\ \A i \in 0 .. a.purgable[a.reloc[u]] - 1 : b.mem[a.reloc[u] + i] = tag
<1>1. HeapSize \in Nat /\ Purged \notin 0 .. HeapSize
  BY HeapAssumption
<1>2. PICK q \in DOMAIN a.purgable : q = a.reloc[u]
  OBVIOUS
<1>3. PICK size \in Nat \ {0} : size = a.purgable[q]
  BY DEF Sound, Layout
<1>4. q \in Nat /\ q + size <= HeapSize /\ a.static[0] <= q /\ a.static[0] \in Nat
  BY <1>1, <1>3 DEF Sound, Layout
<1>5. PICK b : b = [a EXCEPT !.mem = Fill(@, q, size, tag)]
  OBVIOUS
<1>6. /\ Sound(b, T)
      /\ b.head = a.head /\ b.static = a.static /\ b.purgable = a.purgable
      /\ b.reloc = a.reloc /\ b.inv = a.inv
      /\ \A x \in 0 .. HeapSize - 1 :
           b.mem[x] = IF x \in q .. q + size - 1 THEN tag ELSE a.mem[x]
  BY <1>4, <1>5, FillEffect
<1>7. ASSUME NEW o \in DOMAIN a.purgable, o # q, NEW i \in 0 .. a.purgable[o] - 1
      PROVE  b.mem[o + i] = a.mem[o + i]
  <2>1. o \in Nat /\ a.purgable[o] \in Nat /\ o + a.purgable[o] <= HeapSize
    BY <1>1 DEF Sound, Layout
  <2>2. o + a.purgable[o] <= q \/ q + size <= o
    <3>1. o < q \/ q < o
      BY <1>4, <1>7, <2>1
    <3>2. QED
      BY <1>3, <3>1 DEF Sound, Layout
  <2>3. o + i \in 0 .. HeapSize - 1 /\ o + i \notin q .. q + size - 1
    BY <1>1, <1>4, <2>1, <2>2
  <2>4. QED
    BY <1>6, <2>3
<1>8. ASSUME NEW v \in DOMAIN a.reloc \ {u}
      PROVE  SameRegion(a, b, v)
  <2>1. a.reloc[v] # q
    BY <1>1, <1>2 DEF Sound, Handles, Layout
  <2>2. QED
    BY <1>6, <1>7, <2>1 DEF SameRegion
<1>9. \A x \in 0 .. a.static[0] - 1 : b.mem[x] = a.mem[x]
  <2>1. \A x \in 0 .. a.static[0] - 1 : x \in 0 .. HeapSize - 1 /\ x \notin q .. q + size - 1
    BY <1>1, <1>4
  <2>2. QED
    BY <1>6, <2>1
<1>10. \A i \in 0 .. size - 1 : b.mem[q + i] = tag
  <2>1. \A i \in 0 .. size - 1 : q + i \in 0 .. HeapSize - 1 /\ q + i \in q .. q + size - 1
    BY <1>1, <1>4
  <2>2. QED
    BY <1>6, <2>1
<1>11. QED
  BY <1>2, <1>3, <1>5, <1>6, <1>8, <1>9, <1>10

-----------------------------------------------------------------------------
(***************************************************************************)
(* Growing the static region.                                              *)
(***************************************************************************)
\* f holds what the fold has made of the first n members of s, for every n.
MoveHistory(p, base, s, f) ==
  /\ f[0] = base
  /\ \A n \in 1 .. Len(s) : f[n] = MoveRegion(p, f[n - 1], s[n])
  /\ M!Fold(p, base, s) = f[Len(s)]

\* The history of the loop of purgeOrRelocateRange.
LEMMA MoveSteps ==
  ASSUME NEW p, NEW base, NEW S, NEW s \in Seq(S)
  PROVE  \E f : MoveHistory(p, base, s, f)
  BY M!FoldSteps DEF MoveHistory

\* The loop has found no room for the regions below n.
NoRoom(a, done, R, n) ==
  done = [a |-> a, to |-> NoEntries, purge |-> {o \in DOMAIN R : o < n}]

\* With the head at 0 there is no room to move a region to, and every one has
\* to be purged.
LEMMA MoveStep ==
  ASSUME NEW a, Frame(a), NEW R, a.head = 0 \/ DOMAIN R = {},
         DOMAIN R \subseteq Nat, \A o \in DOMAIN R : R[o] \in Nat \ {0},
         NEW done, NEW n \in Nat, NoRoom(a, done, R, n)
  PROVE  NoRoom(a, MoveRegion(R, done, n), R, n + 1)
<1>1. CASE n \notin DOMAIN R
  <2>1. MoveRegion(R, done, n) = done
    BY <1>1 DEF MoveRegion
  <2>2. {o \in DOMAIN R : o < n} = {o \in DOMAIN R : o < n + 1}
    BY <1>1
  <2>3. QED
    BY <2>1, <2>2 DEF NoRoom
<1>2. CASE n \in DOMAIN R
  <2>1. a.head = 0 /\ R[n] \in Nat \ {0}
    BY <1>2
  <2>0. PICK size \in Nat \ {0} : size = R[n]
    BY <2>1
  <2>2. PICK t : t = TryPurgable(a, size)
    OBVIOUS
  <2>3. t.ok = FALSE /\ t.a = [head |-> 0, static |-> a.static, purgable |-> a.purgable,
                               reloc |-> a.reloc, inv |-> a.inv, mem |-> a.mem]
    <3>1. ~(a.head # 0 /\ a.head - a.static[0] >= size)
      BY <2>1
    <3>0. Snug(a)
      BY <2>1 DEF Snug
    <3>2. /\ TryPurgable(a, size).ok = FALSE
          /\ TryPurgable(a, size).a =
               [head |-> 0, static |-> a.static, purgable |-> a.purgable,
                reloc |-> a.reloc, inv |-> a.inv, mem |-> a.mem]
      BY <3>0, <3>1, TryFails, Zenon
    <3>3. QED
      BY <2>2, <3>2, Zenon
  <2>4. t.a = a
    BY <2>1, <2>3 DEF Frame, IsHeap
  <2>5. done.a = a /\ done.purge = {o \in DOMAIN R : o < n} /\ done.to = NoEntries
    BY DEF NoRoom
  <2>6. MoveRegion(R, done, n) = [done EXCEPT !.a = a, !.purge = done.purge \cup {n}]
    <3>1. MoveRegion(R, done, n) = [done EXCEPT !.a = t.a, !.purge = @ \cup {n}]
      BY <1>2, <2>0, <2>2, <2>3, <2>5, Zenon DEF MoveRegion
    <3>2. QED
      BY <2>4, <3>1, Zenon
  <2>7. PICK x : x = done.purge \cup {n}
    OBVIOUS
  <2>8. [[done EXCEPT !.a = a] EXCEPT !.purge = x] = [a |-> a, to |-> NoEntries, purge |-> x]
    <3>1. PICK d : d = [a |-> a, to |-> NoEntries, purge |-> done.purge]
      OBVIOUS
    <3>2. [done EXCEPT !.a = a] = d
      BY <2>5, <3>1 DEF NoRoom
    <3>3. [d EXCEPT !.purge = x] = [a |-> a, to |-> NoEntries, purge |-> x]
      BY <3>1
    <3>4. QED
      BY <3>2, <3>3, Zenon
  <2>9. [done EXCEPT !.a = a, !.purge = x] = [[done EXCEPT !.a = a] EXCEPT !.purge = x]
    BY Zenon
  <2>10. x = {o \in DOMAIN R : o < n + 1}
    BY <1>2, <2>5, <2>7
  <2>11. QED
    BY <2>6, <2>7, <2>8, <2>9, <2>10 DEF NoRoom
<1>3. QED
  BY <1>1, <1>2

\* purgeOrRelocateRange from 0 then purges the regions of its range.
LEMMA PurgeRangeFold ==
  ASSUME NEW a, Frame(a), NEW end, NEW R, R = RangeRegions(a, 0, end),
         a.head = 0 \/ DOMAIN R = {},
         DOMAIN R \subseteq 0 .. HeapSize - 1, \A o \in DOMAIN R : R[o] \in Nat \ {0}
  PROVE  PurgeOrRelocateRange(a, 0, end) =
           RegisterPurge(RegisterRelocate(a, NoEntries), DOMAIN R)
<1>1. HeapSize \in Nat
  BY HeapAssumption
<1>2. PICK start : start = [a |-> a, to |-> NoEntries, purge |-> {}]
  OBVIOUS
<1>3. PICK d \in Seq(0 .. HeapSize - 1) :
        /\ d = Upwards /\ Len(d) = HeapSize
        /\ \A n \in 1 .. HeapSize : d[n] = n - 1
  <2>1. Upwards \in Seq(0 .. HeapSize - 1) /\ Len(Upwards) = HeapSize
        /\ \A n \in 1 .. HeapSize : Upwards[n] = n - 1
    BY <1>1 DEF Upwards
  <2>2. QED
    BY <2>1, Zenon
<1>4. PICK all : all = M!Fold(R, start, d)
  OBVIOUS
<1>5. PurgeOrRelocateRange(a, 0, end) = RegisterPurge(RegisterRelocate(all.a, all.to), all.purge)
  BY <1>2, <1>3, <1>4 DEF PurgeOrRelocateRange, FoldLeft, MapThenFoldSet, Max,
              M!Fold, M!MapThenFoldSet, M!Greatest
<1>6. PICK f : /\ f[0] = start
               /\ \A n \in 1 .. Len(d) : f[n] = MoveRegion(R, f[n - 1], d[n])
               /\ M!Fold(R, start, d) = f[Len(d)]
  <2>1. \E f : MoveHistory(R, start, d, f)
    BY MoveSteps
  <2>2. QED
    BY <2>1 DEF MoveHistory
<1>7. DOMAIN R \subseteq Nat
  BY <1>1
<1> DEFINE Good == {n \in Nat : n <= HeapSize => NoRoom(a, f[n], R, n)}
<1>8. 0 \in Good
  <2>1. {o \in DOMAIN R : o < 0} = {}
    BY <1>7
  <2>2. QED
    BY <1>2, <1>6, <2>1 DEF NoRoom
<1>9. ASSUME NEW n \in Nat, n \in Good
      PROVE  n + 1 \in Good
  <2>1. SUFFICES ASSUME n + 1 <= HeapSize
                 PROVE  NoRoom(a, f[n + 1], R, n + 1)
    OBVIOUS
  <2>2. n + 1 \in 1 .. HeapSize /\ (n + 1) - 1 = n /\ n <= HeapSize
    BY <1>1, <2>1
  <2>3. f[n + 1] = MoveRegion(R, f[n], n)
    BY <1>3, <1>6, <2>2
  <2>4. NoRoom(a, f[n], R, n)
    BY <1>9, <2>2
  <2>5. QED
    <3>1. PICK done : done = f[n]
      OBVIOUS
    <3>2. NoRoom(a, MoveRegion(R, done, n), R, n + 1)
      BY <1>7, <2>4, <3>1, MoveStep
    <3>3. QED
      BY <2>3, <3>1, <3>2
<1>10. Nat \subseteq Good
  <2> HIDE DEF Good
  <2>1. QED
    BY <1>8, <1>9, M!NatSetInduction
<1>11. NoRoom(a, all, R, HeapSize)
  BY <1>1, <1>3, <1>4, <1>6, <1>10
<1>12. {o \in DOMAIN R : o < HeapSize} = DOMAIN R
  <2>1. \A o \in DOMAIN R : o \in 0 .. HeapSize - 1
    OBVIOUS
  <2>2. \A o \in 0 .. HeapSize - 1 : o < HeapSize
    BY <1>1
  <2>3. QED
    BY <2>1, <2>2, Zenon
<1>13. all.a = a /\ all.to = NoEntries /\ all.purge = DOMAIN R
  BY <1>11, <1>12 DEF NoRoom
<1>14. QED
  BY <1>5, <1>13

\* registerRelocate of nothing changes nothing.
LEMMA RelocateNothing ==
  ASSUME NEW a, IsHeap(a)
  PROVE  LET b == RegisterRelocate(a, NoEntries)
         IN  /\ IsHeap(b) /\ b.head = a.head /\ b.static = a.static /\ b.mem = a.mem
             /\ DOMAIN b.purgable = DOMAIN a.purgable
             /\ \A o \in DOMAIN a.purgable : b.purgable[o] = a.purgable[o]
             /\ DOMAIN b.inv = DOMAIN a.inv /\ \A o \in DOMAIN a.inv : b.inv[o] = a.inv[o]
             /\ DOMAIN b.reloc = DOMAIN a.reloc
             /\ \A u \in DOMAIN a.reloc : b.reloc[u] = a.reloc[u]
<1>1. DOMAIN NoEntries = {} /\ Range(NoEntries) = {}
  BY DEF NoEntries, Range
<1>2. PICK reloc, inv : reloc = RelocAfter(a, NoEntries) /\ inv = InvAfter(a, NoEntries)
  OBVIOUS
<1>3. DOMAIN reloc = DOMAIN a.reloc /\ \A u \in DOMAIN a.reloc : reloc[u] = a.reloc[u]
  BY <1>1, <1>2 DEF RelocAfter
<1>4. DOMAIN inv = DOMAIN a.inv /\ \A o \in DOMAIN a.inv : inv[o] = a.inv[o]
  BY <1>1, <1>2 DEF InvAfter
<1>5. PICK r : r = [head |-> a.head, static |-> a.static, purgable |-> a.purgable,
                    reloc |-> reloc, inv |-> inv, mem |-> a.mem]
  OBVIOUS
<1>6. Redirect(a, NoEntries) = r
  BY <1>2, <1>5, RedirectRecord
<1>7. PICK x : x = Erase(a.purgable, DOMAIN NoEntries)
  OBVIOUS
<1>8. DOMAIN x = DOMAIN a.purgable /\ \A o \in DOMAIN a.purgable : x[o] = a.purgable[o]
  BY <1>1, <1>7 DEF Erase
<1>9. PICK b : b = [head |-> a.head, static |-> a.static, purgable |-> x,
                    reloc |-> reloc, inv |-> inv, mem |-> a.mem]
  OBVIOUS
<1>10. RegisterRelocate(a, NoEntries) = b
  <2>1. RegisterRelocate(a, NoEntries) = [r EXCEPT !.purgable = Erase(r.purgable, DOMAIN NoEntries)]
    BY <1>6, Zenon DEF RegisterRelocate
  <2>2. r.purgable = a.purgable
    BY <1>5
  <2>3. RegisterRelocate(a, NoEntries) = [r EXCEPT !.purgable = x]
    BY <1>7, <2>1, <2>2, Zenon
  <2>4. QED
    BY <1>5, <1>9, <2>3
<1>11. IsHeap(b) /\ b.head = a.head /\ b.static = a.static /\ b.mem = a.mem
       /\ b.purgable = x /\ b.inv = inv /\ b.reloc = reloc
  BY <1>9 DEF IsHeap
<1>12. QED
  BY <1>3, <1>4, <1>8, <1>10, <1>11

\* The handles of purged regions lead to the null address.
RelocPurged(a, purge) ==
  [u \in DOMAIN a.reloc |-> IF \E o \in purge : a.inv[o] = u THEN Purged ELSE a.reloc[u]]

\* registerPurge, field by field.
LEMMA PurgeEffect ==
  ASSUME NEW a, IsHeap(a), NEW purge
  PROVE  LET b == RegisterPurge(a, purge)
         IN  /\ IsHeap(b) /\ b.head = a.head /\ b.static = a.static /\ b.mem = a.mem
             /\ DOMAIN b.purgable = DOMAIN a.purgable \ purge
             /\ \A o \in DOMAIN a.purgable \ purge : b.purgable[o] = a.purgable[o]
             /\ DOMAIN b.inv = DOMAIN a.inv \ purge
             /\ \A o \in DOMAIN a.inv \ purge : b.inv[o] = a.inv[o]
             /\ DOMAIN b.reloc = DOMAIN a.reloc
             /\ \A u \in DOMAIN a.reloc :
                  b.reloc[u] = IF \E o \in purge : a.inv[o] = u THEN Purged ELSE a.reloc[u]
<1>1. PICK x, y, z : x = Erase(a.purgable, purge) /\ y = Erase(a.inv, purge)
                     /\ z = RelocPurged(a, purge)
  OBVIOUS
<1>2. RegisterPurge(a, purge) = [a EXCEPT !.purgable = x, !.inv = y, !.reloc = z]
  BY <1>1, Zenon DEF RegisterPurge, RelocPurged
<1>3. PICK b : b = [head |-> a.head, static |-> a.static, purgable |-> x,
                    reloc |-> z, inv |-> y, mem |-> a.mem]
  OBVIOUS
<1>4. RegisterPurge(a, purge) = b
  BY <1>2, <1>3, ExceptPIR, Zenon
<1>5. IsHeap(b) /\ b.head = a.head /\ b.static = a.static /\ b.mem = a.mem
      /\ b.purgable = x /\ b.inv = y /\ b.reloc = z
  BY <1>3 DEF IsHeap
<1>6. DOMAIN x = DOMAIN a.purgable \ purge
      /\ \A o \in DOMAIN a.purgable \ purge : x[o] = a.purgable[o]
  BY <1>1 DEF Erase
<1>7. DOMAIN y = DOMAIN a.inv \ purge /\ \A o \in DOMAIN a.inv \ purge : y[o] = a.inv[o]
  BY <1>1 DEF Erase
<1>8. DOMAIN z = DOMAIN a.reloc
      /\ \A u \in DOMAIN a.reloc :
           z[u] = IF \E o \in purge : a.inv[o] = u THEN Purged ELSE a.reloc[u]
  BY <1>1 DEF RelocPurged
<1>9. QED
  BY <1>4, <1>5, <1>6, <1>7, <1>8

\* The least element of a singleton.
LEMMA MinOfOne ==
  ASSUME NEW x \in Int
  PROVE  Min({x}) = x
  BY DEF Min

\* No byte has changed, and a handle leads to the same bytes or its region was
\* purged.
Resized(a, b) ==
  /\ b.mem = a.mem
  /\ DOMAIN b.reloc = DOMAIN a.reloc
  /\ \A u \in DOMAIN a.reloc :
       SameRegion(a, b, u) \/ (a.reloc[u] \in DOMAIN a.purgable /\ b.reloc[u] = Purged)

\* resizeStaticAllocation of volatile memory leaves the allocator sound, writes
\* no byte, and purges at most regions that are then known to be purged, if it
\* fails, if it meets no region, or if a failed allocation has left the head at
\* 0. In all other cases it spoils the heap (ResizeSpoils).
LEMMA ResizeSound ==
  ASSUME NEW a, NEW T, Sound(a, T), NEW u \in DOMAIN a.reloc, a.reloc[u] = 0,
         NEW size \in Nat \ {0},
         size > HeapSize \/ a.head = 0 \/ \A o \in DOMAIN a.purgable : size <= o
  PROVE  LET b == ResizeStaticAllocation(a, u, size).a IN Sound(b, T) /\ Resized(a, b)
<1>1. HeapSize \in Nat \ {0} /\ Purged \notin 0 .. HeapSize
  BY HeapAssumption
<1>2. IsHeap(a) /\ DOMAIN a.static = {0} /\ a.static[0] \in 1 .. HeapSize
  BY DEF Sound, Layout
<1>3. StaticGap([a EXCEPT !.static = Erase(@, {0})], 0) = HeapSize
  <2>1. PICK e : e = [a EXCEPT !.static = Erase(@, {0})]
    OBVIOUS
  <2>2. DOMAIN e.static = {}
    BY <1>2, <2>1 DEF IsHeap, Erase
  <2>3. {o \in DOMAIN e.static : o >= 0} \cup {HeapSize} = {HeapSize}
    BY <2>2
  <2>4. HeapSize - 0 = HeapSize
    BY <1>1
  <2>5. QED
    BY <1>1, <2>1, <2>3, <2>4, MinOfOne DEF StaticGap
<1>4. CASE size > HeapSize
  <2>1. ResizeStaticAllocation(a, u, size) = Failed(a)
    BY <1>3, <1>4 DEF ResizeStaticAllocation
  <2>2. \A v \in DOMAIN a.reloc : SameRegion(a, a, v)
    BY DEF SameRegion
  <2>3. QED
    BY <2>1, <2>2 DEF Failed, Resized
<1>5. CASE ~(size > HeapSize)
  <2>1. size \in 1 .. HeapSize
    BY <1>1, <1>5
  <2>2. PICK static : static = [a.static EXCEPT ![0] = size]
    OBVIOUS
  <2>3. DOMAIN static = {0} /\ static[0] = size
    BY <1>2, <2>2
  <2>4. PICK s : s = [head |-> a.head, static |-> static, purgable |-> a.purgable,
                      reloc |-> a.reloc, inv |-> a.inv, mem |-> a.mem]
    OBVIOUS
  <2>5. s = [a EXCEPT !.static[0] = size]
    <3>1. [a EXCEPT !.static[0] = size] = [a EXCEPT !.static = static]
      BY <1>2, <2>2, Zenon
    <3>2. [a EXCEPT !.static = static] = s
      BY <1>2, <2>4 DEF IsHeap
    <3>3. QED
      BY <3>1, <3>2, Zenon
  <2>6. IsHeap(s) /\ s.head = a.head /\ s.static = static /\ s.purgable = a.purgable
        /\ s.reloc = a.reloc /\ s.inv = a.inv /\ s.mem = a.mem
    BY <2>4 DEF IsHeap
  <2>7. ResizeStaticAllocation(a, u, size) = Done(PurgeOrRelocateRange(s, 0, size), u)
    <3>1. 0 \in DOMAIN a.static /\ 0 + size = size
      BY <1>2
    <3>2. QED
      BY <1>3, <1>5, <2>5, <3>1 DEF ResizeStaticAllocation
  <2>8. PICK D : D = {o \in DOMAIN a.purgable : o < size}
    OBVIOUS
  <2>9. PICK R : R = RangeRegions(s, 0, size)
    OBVIOUS
  <2>10. DOMAIN R = D /\ \A o \in D : R[o] = a.purgable[o]
    <3>1. \A o \in DOMAIN a.purgable : ~(o < 0) /\ 0 <= o
      BY DEF Sound, Layout
    <3>2. {o \in DOMAIN s.purgable : o < 0} = {}
      BY <2>6, <3>1
    <3>3. R = Restrict(s.purgable, {o \in DOMAIN s.purgable : 0 <= o /\ o < size})
      BY <2>9, <3>2 DEF RangeRegions
    <3>4. {o \in DOMAIN s.purgable : 0 <= o /\ o < size} = D
      BY <2>6, <2>8, <3>1
    <3>5. QED
      BY <2>6, <2>8, <3>3, <3>4 DEF Restrict
  <2>11. Frame(s)
    BY <1>2, <2>1, <2>3, <2>6 DEF Frame, Sound, Layout
  <2>12. \A o \in DOMAIN a.purgable : o \in 0 .. HeapSize - 1 /\ a.purgable[o] \in Nat \ {0}
    BY <1>1 DEF Sound, Layout
  <2>13. DOMAIN R \subseteq 0 .. HeapSize - 1 /\ \A o \in DOMAIN R : R[o] \in Nat \ {0}
    BY <2>8, <2>10, <2>12
  <2>14. s.head = 0 \/ DOMAIN R = {}
    BY <1>1, <1>5, <2>1, <2>6, <2>8, <2>10 DEF Sound, Layout
  <2>15. PICK b : b = RegisterPurge(RegisterRelocate(s, NoEntries), D)
    OBVIOUS
  <2>16. ResizeStaticAllocation(a, u, size).a = b
    BY <2>7, <2>9, <2>10, <2>11, <2>13, <2>14, <2>15, PurgeRangeFold DEF Done
  <2>17. PICK c : c = RegisterRelocate(s, NoEntries)
    OBVIOUS
  <2>18. /\ IsHeap(c) /\ c.head = s.head /\ c.static = s.static /\ c.mem = s.mem
         /\ DOMAIN c.purgable = DOMAIN s.purgable
         /\ \A o \in DOMAIN s.purgable : c.purgable[o] = s.purgable[o]
         /\ DOMAIN c.inv = DOMAIN s.inv /\ \A o \in DOMAIN s.inv : c.inv[o] = s.inv[o]
         /\ DOMAIN c.reloc = DOMAIN s.reloc
         /\ \A v \in DOMAIN s.reloc : c.reloc[v] = s.reloc[v]
    BY <2>6, <2>17, RelocateNothing
  <2>19. /\ IsHeap(b) /\ b.head = c.head /\ b.static = c.static /\ b.mem = c.mem
         /\ DOMAIN b.purgable = DOMAIN c.purgable \ D
         /\ \A o \in DOMAIN c.purgable \ D : b.purgable[o] = c.purgable[o]
         /\ DOMAIN b.inv = DOMAIN c.inv \ D
         /\ \A o \in DOMAIN c.inv \ D : b.inv[o] = c.inv[o]
         /\ DOMAIN b.reloc = DOMAIN c.reloc
         /\ \A v \in DOMAIN c.reloc :
              b.reloc[v] = IF \E o \in D : c.inv[o] = v THEN Purged ELSE c.reloc[v]
    BY <2>15, <2>17, <2>18, PurgeEffect
  <2>20. IsHeap(b) /\ b.head = a.head /\ b.static = static /\ b.mem = a.mem
    BY <2>6, <2>18, <2>19
  <2>21. /\ DOMAIN b.purgable = DOMAIN a.purgable \ D
         /\ \A o \in DOMAIN b.purgable : b.purgable[o] = a.purgable[o]
    BY <2>6, <2>18, <2>19
  <2>22. /\ DOMAIN b.inv = DOMAIN a.inv \ D
         /\ \A o \in DOMAIN b.inv : b.inv[o] = a.inv[o]
    BY <2>6, <2>18, <2>19
  <2>23. \A o \in D : o \in DOMAIN a.inv /\ c.inv[o] = a.inv[o]
    BY <2>6, <2>8, <2>18 DEF Sound, Handles
  <2>24. /\ DOMAIN b.reloc = DOMAIN a.reloc
         /\ \A v \in DOMAIN a.reloc : b.reloc[v] = IF a.reloc[v] \in D THEN Purged ELSE a.reloc[v]
    <3>1. DOMAIN b.reloc = DOMAIN a.reloc
      BY <2>6, <2>18, <2>19
    <3>2. \A o \in D : o # Purged
      BY <1>1, <2>8, <2>12
    <3>3. \A v \in DOMAIN a.reloc : a.reloc[v] \in D <=> \E o \in D : a.inv[o] = v
      BY <2>23, <3>2 DEF Sound, Handles
    <3>4. \A v \in DOMAIN a.reloc : a.reloc[v] \in D <=> \E o \in D : c.inv[o] = v
      BY <2>23, <3>3
    <3>5. QED
      BY <2>6, <2>18, <2>19, <3>1, <3>4
  <2>25. Layout(b, T)
    <3>1. \A o \in DOMAIN b.purgable : size <= o /\ o \in DOMAIN a.purgable
      BY <1>1, <2>1, <2>8, <2>12, <2>21
    <3>2. QED
      BY <2>1, <2>3, <2>20, <2>21, <3>1 DEF Sound, Layout
  <2>26. Handles(b)
    <3>1. 0 \notin D
      BY <1>2, <2>8 DEF Sound, Layout
    <3>2. DOMAIN b.inv = {0} \cup DOMAIN b.purgable
      BY <2>21, <2>22, <3>1 DEF Sound, Handles
    <3>3. \A o \in DOMAIN b.inv : b.inv[o] \in DOMAIN b.reloc /\ b.reloc[b.inv[o]] = o
      BY <2>22, <2>24 DEF Sound, Handles
    <3>4. \A v \in DOMAIN b.reloc :
            b.reloc[v] = Purged \/ (b.reloc[v] \in DOMAIN b.inv /\ b.inv[b.reloc[v]] = v)
      BY <2>22, <2>24 DEF Sound, Handles
    <3>5. IsFiniteSet(DOMAIN b.reloc)
      BY <2>24 DEF Sound, Handles
    <3>6. QED
      BY <3>2, <3>3, <3>4, <3>5 DEF Handles
  <2>27. ASSUME NEW v \in DOMAIN a.reloc
         PROVE  SameRegion(a, b, v) \/ (a.reloc[v] \in DOMAIN a.purgable /\ b.reloc[v] = Purged)
    <3>1. CASE a.reloc[v] \in D
      BY <2>8, <2>24, <3>1
    <3>2. CASE a.reloc[v] \notin D
      BY <2>20, <2>21, <2>24, <3>2 DEF SameRegion
    <3>3. QED
      BY <3>1, <3>2
  <2>28. Resized(a, b)
    BY <2>20, <2>24, <2>27 DEF Resized
  <2>29. QED
    BY <2>16, <2>25, <2>26, <2>28 DEF Sound
<1>6. QED
  BY <1>4, <1>5

-----------------------------------------------------------------------------
(***************************************************************************)
(* Growing the static region past the head. The gap of line 109 is then    *)
(* the difference of a smaller and a larger number, every region seems to  *)
(* fit, and its new place is in the static region or outside the heap.     *)
(***************************************************************************)
\* A subtraction of size_t that wraps round.
LEMMA ModWraps ==
  ASSUME NEW w \in Nat, NEW x \in Int, x < 0, -w <= x
  PROVE  x % w = x + w
<1>1. x + w \in 0 .. w - 1 /\ w > 0
  OBVIOUS
<1>2. (x + w) % w = x + w
  BY <1>1, ModSmall
<1>3. x % w = (x + w) % w
  BY <1>1
<1>4. QED
  BY <1>2, <1>3

\* A region that lies in a static region of that size or outside the heap.
Astray(o, size) == o \in Nat /\ (o < size \/ o >= HeapSize)

\* There is one, besides the regions at D.
HasAstray(a, size, D) ==
  \E o \in DOMAIN a.purgable \ D : Astray(o, size) /\ a.purgable[o] \in Nat \ {0}

\* allocatePurgable(size, false), whatever it finds: regions stay where they are.
LEMMA TryKeeps ==
  ASSUME NEW a, IsHeap(a), NEW size
  PROVE  LET t == TryPurgable(a, size)
         IN  /\ IsHeap(t.a) /\ t.a.static = a.static
             /\ DOMAIN a.purgable \subseteq DOMAIN t.a.purgable
             /\ \A o \in DOMAIN a.purgable : t.a.purgable[o] = a.purgable[o]
<1>1. PICK fit : fit = FittingHeads(a, a.head, size)
  OBVIOUS
<1>2. CASE fit = {}
  <2>1. PICK h : h = Min(Heads(a, a.head))
    OBVIOUS
  <2>2. PICK b : b = [head |-> h, static |-> a.static, purgable |-> a.purgable,
                      reloc |-> a.reloc, inv |-> a.inv, mem |-> a.mem]
    OBVIOUS
  <2>3. [a EXCEPT !.head = h] = b
    BY <2>2 DEF IsHeap
  <2>4. TryPurgable(a, size) = Failed(b)
    BY <1>1, <1>2, <2>1, <2>3, Zenon DEF TryPurgable
  <2>5. TryPurgable(a, size).a = b
    BY <2>4 DEF Failed
  <2>6. IsHeap(b) /\ b.static = a.static /\ b.purgable = a.purgable
    BY <2>2 DEF IsHeap
  <2>7. QED
    BY <2>5, <2>6
<1>3. CASE fit # {}
  <2>1. PICK o : o = (Max(fit) - size) % Word
    OBVIOUS
  <2>2. PICK b : b = [head |-> o, static |-> a.static, purgable |-> a.purgable,
                      reloc |-> a.reloc, inv |-> a.inv, mem |-> a.mem]
    OBVIOUS
  <2>3. [a EXCEPT !.head = o] = b
    BY <2>2 DEF IsHeap
  <2>4. TryPurgable(a, size) = RegisterPurgable(b, o, size)
    BY <1>1, <1>3, <2>1, <2>3, Zenon DEF TryPurgable
  <2>5. IsHeap(b) /\ b.static = a.static /\ b.purgable = a.purgable
    BY <2>2 DEF IsHeap
  <2>6. PICK u, x, y, z : u = FreshUid(b) /\ x = Insert(b.purgable, o, size)
                          /\ y = Insert(b.inv, o, u) /\ z = Insert(b.reloc, u, o)
    OBVIOUS
  <2>7. PICK c : c = [head |-> b.head, static |-> b.static, purgable |-> x,
                      reloc |-> z, inv |-> y, mem |-> b.mem]
    OBVIOUS
  <2>8. [b EXCEPT !.purgable = x, !.inv = y, !.reloc = z] = c
    <3>1. IsHeap(b)
      BY <2>5
    <3>2. [b EXCEPT !.purgable = x, !.inv = y, !.reloc = z] =
            [head |-> b.head, static |-> b.static, purgable |-> x,
             reloc |-> z, inv |-> y, mem |-> b.mem]
      BY <3>1, ExceptPIR, Zenon
    <3>3. QED
      BY <2>7, <3>2, Zenon
  <2>9. RegisterPurgable(b, o, size) = Done(c, u)
    BY <2>6, <2>8, Zenon DEF RegisterPurgable
  <2>10. TryPurgable(a, size).a = c
    BY <2>4, <2>9 DEF Done
  <2>11. IsHeap(c) /\ c.static = a.static /\ c.purgable = x
    BY <2>5, <2>7 DEF IsHeap
  <2>12. DOMAIN a.purgable \subseteq DOMAIN x /\ \A q \in DOMAIN a.purgable : x[q] = a.purgable[q]
    BY <2>5, <2>6 DEF Insert
  <2>13. QED
    BY <2>10, <2>11, <2>12
<1>4. QED
  BY <1>2, <1>3

\* With the head inside the static region it succeeds and the new region is
\* astray.
LEMMA TryWraps ==
  ASSUME NEW a, Frame(a), ~Snug(a), NEW size \in 1 .. HeapSize,
         DOMAIN a.purgable \subseteq a.head .. HeapSize - 1
  PROVE  /\ TryPurgable(a, size).ok = TRUE
         /\ HasAstray(TryPurgable(a, size).a, a.static[0], DOMAIN a.purgable)
<1>1. PICK hs \in Nat, w \in Nat, h \in Nat, st \in Nat :
        /\ hs = HeapSize /\ w = Word /\ w > 2 * hs
        /\ h = a.head /\ st = a.static[0] /\ 0 < h /\ h < st /\ st <= hs
  BY HeapAssumption DEF Frame, Snug
<1>2. DOMAIN a.static = {0} /\ IsHeap(a)
  BY DEF Frame
<1>3. Heads(a, h) = {0, h}
  BY <1>1, <1>2, StaticData DEF Heads
<1>4. (0 - ClosestStaticData(a, 0)) % Word = 0
  <2>1. 0 % Word = 0
    BY <1>1, ModSmall
  <2>2. ClosestStaticData(a, 0) = 0
    BY <1>2, StaticData
  <2>3. QED
    BY <2>1, <2>2
<1>5. (h - ClosestStaticData(a, h)) % Word = h - st + w
  <2>1. ClosestStaticData(a, h) = st
    BY <1>1, <1>2, StaticData
  <2>2. h - st \in Int /\ h - st < 0 /\ -w <= h - st
    BY <1>1
  <2>3. (h - st) % w = (h - st) + w
    BY <2>2, ModWraps
  <2>4. QED
    BY <1>1, <2>1, <2>3
<1>6. PICK z \in Nat : z = size /\ 0 < z /\ z <= hs
  BY <1>1
<1>7. FittingHeads(a, h, size) = {h}
  <2>1. h - st + w >= z /\ ~(0 >= z)
    BY <1>1, <1>6
  <2>2. \A x \in Heads(a, h) : (x - ClosestStaticData(a, x)) % Word >= size <=> x = h
    BY <1>1, <1>3, <1>4, <1>5, <1>6, <2>1
  <2>3. h \in Heads(a, h)
    BY <1>3
  <2>4. QED
    BY <2>2, <2>3 DEF FittingHeads
<1>8. Max({h}) = h
  BY DEF Max
<1>9. PICK o \in Nat : o = (h - size) % Word /\ (o < h \/ o >= hs)
  <2>1. CASE z <= h
    <3>1. h - z \in Nat /\ h - z < w /\ h - z < h
      BY <1>1, <1>6, <2>1
    <3>2. (h - z) % w = h - z
      BY <3>1, ModSmall
    <3>3. QED
      BY <1>1, <1>6, <3>1, <3>2
  <2>2. CASE ~(z <= h)
    <3>1. h - z \in Int /\ h - z < 0 /\ -w <= h - z
      BY <1>1, <1>6, <2>2
    <3>2. (h - z) % w = (h - z) + w
      BY <3>1, ModWraps
    <3>3. (h - z) + w \in Nat /\ (h - z) + w >= hs
      BY <1>1, <1>6
    <3>4. QED
      BY <1>1, <1>6, <3>2, <3>3
  <2>3. QED
    BY <2>1, <2>2
<1>10. PICK b : b = [head |-> o, static |-> a.static, purgable |-> a.purgable,
                     reloc |-> a.reloc, inv |-> a.inv, mem |-> a.mem]
  OBVIOUS
<1>11. [a EXCEPT !.head = o] = b
  BY <1>2, <1>10 DEF IsHeap
<1>12. TryPurgable(a, size) = RegisterPurgable(b, o, size)
  BY <1>1, <1>7, <1>8, <1>9, <1>11 DEF TryPurgable
<1>13. IsHeap(b) /\ b.purgable = a.purgable
  BY <1>10 DEF IsHeap
<1>14. PICK u, x, y, v : u = FreshUid(b) /\ x = Insert(b.purgable, o, size)
                         /\ y = Insert(b.inv, o, u) /\ v = Insert(b.reloc, u, o)
  OBVIOUS
<1>15. PICK c : c = [head |-> b.head, static |-> b.static, purgable |-> x,
                     reloc |-> v, inv |-> y, mem |-> b.mem]
  OBVIOUS
<1>16. [b EXCEPT !.purgable = x, !.inv = y, !.reloc = v] = c
  <2>1. IsHeap(b)
    BY <1>13
  <2>2. [b EXCEPT !.purgable = x, !.inv = y, !.reloc = v] =
          [head |-> b.head, static |-> b.static, purgable |-> x,
           reloc |-> v, inv |-> y, mem |-> b.mem]
    BY <2>1, ExceptPIR, Zenon
  <2>3. QED
    BY <1>15, <2>2, Zenon
<1>17. RegisterPurgable(b, o, size) = Done(c, u)
  BY <1>14, <1>16, Zenon DEF RegisterPurgable
<1>18. TryPurgable(a, size).a = c /\ TryPurgable(a, size).ok = TRUE
  BY <1>12, <1>17 DEF Done
<1>19. o \notin DOMAIN a.purgable
  BY <1>1, <1>9
<1>20. o \in DOMAIN c.purgable /\ c.purgable[o] = size
  <2>1. c.purgable = x
    BY <1>15
  <2>2. QED
    BY <1>13, <1>14, <1>19, <2>1 DEF Insert
<1>21. Astray(o, a.static[0])
  BY <1>1, <1>9 DEF Astray
<1>22. HasAstray(c, a.static[0], DOMAIN a.purgable)
  BY <1>6, <1>19, <1>20, <1>21 DEF HasAstray
<1>23. QED
  BY <1>18, <1>22

\* A region astray shares a byte with the static region or lies outside the
\* heap.
LEMMA AstrayOverlaps ==
  ASSUME NEW a, DOMAIN a.static = {0}, a.static[0] \in 1 .. HeapSize, NEW D,
         HasAstray(a, a.static[0], D)
  PROVE  ~RegionsDisjoint(a)
<1>1. PICK o \in DOMAIN a.purgable : Astray(o, a.static[0]) /\ a.purgable[o] \in Nat \ {0}
  BY DEF HasAstray
<1>2. PICK hs \in Nat, st \in Nat, z \in Nat, i \in Nat :
        hs = HeapSize /\ st = a.static[0] /\ z = a.purgable[o] /\ 0 < z /\ i = o
        /\ (i < st \/ i >= hs)
  BY <1>1, HeapAssumption DEF Astray
<1>3. PICK p, q : p = Bytes(o, a.purgable[o]) /\ q = Bytes(0, a.static[0])
  OBVIOUS
<1>4. i \in p
  BY <1>2, <1>3 DEF Bytes
<1>5. i < st => i \in q
  BY <1>2, <1>3 DEF Bytes
<1>6. i >= hs => i \notin 0 .. HeapSize - 1
  BY <1>2
<1>7. /\ p \in {Bytes(x, a.purgable[x]) : x \in DOMAIN a.purgable}
      /\ q \in {Bytes(x, a.static[x]) : x \in DOMAIN a.static}
  BY <1>3
<1>8. SUFFICES ASSUME RegionsDisjoint(a) PROVE FALSE
  OBVIOUS
<1>9. p \subseteq 0 .. HeapSize - 1 /\ q \cap p = {}
  BY <1>7, <1>8 DEF RegionsDisjoint
<1>10. QED
  BY <1>2, <1>4, <1>5, <1>6, <1>9

\* The loop of purgeOrRelocateRange over the regions R, with the head inside the
\* static region: it has not met one below n, or has led one astray, and has
\* touched no other regions than those of R.
Straying(a, done, R, n) ==
  \E b, to, purge :
    /\ done = [a |-> b, to |-> to, purge |-> purge]
    /\ IsHeap(b) /\ b.static = a.static
    /\ DOMAIN to \subseteq DOMAIN R /\ purge \subseteq DOMAIN R
    /\ (b = a /\ \A o \in DOMAIN R : n <= o) \/ HasAstray(b, a.static[0], DOMAIN R)

\* A region that is astray stays so when others are added.
LEMMA AstrayKept ==
  ASSUME NEW a, NEW b, NEW size, NEW D, HasAstray(a, size, D),
         DOMAIN a.purgable \subseteq DOMAIN b.purgable,
         \A o \in DOMAIN a.purgable : b.purgable[o] = a.purgable[o]
  PROVE  HasAstray(b, size, D)
  BY DEF HasAstray

\* One turn of the loop.
LEMMA StrayStep ==
  ASSUME NEW a, Frame(a), ~Snug(a), DOMAIN a.purgable \subseteq a.head .. HeapSize - 1,
         NEW R, DOMAIN R \subseteq DOMAIN a.purgable, \A o \in DOMAIN R : R[o] \in 1 .. HeapSize,
         NEW done, NEW n \in Nat, Straying(a, done, R, n)
  PROVE  Straying(a, MoveRegion(R, done, n), R, n + 1)
<1>0. DOMAIN R \subseteq Nat
  BY HeapAssumption DEF Frame
<1>1. PICK b, to, purge :
        /\ done = [a |-> b, to |-> to, purge |-> purge]
        /\ IsHeap(b) /\ b.static = a.static
        /\ DOMAIN to \subseteq DOMAIN R /\ purge \subseteq DOMAIN R
        /\ (b = a /\ \A o \in DOMAIN R : n <= o) \/ HasAstray(b, a.static[0], DOMAIN R)
  BY DEF Straying
<1>2. CASE n \notin DOMAIN R
  <2>1. MoveRegion(R, done, n) = done
    BY <1>2 DEF MoveRegion
  <2>2. (\A o \in DOMAIN R : n <= o) => \A o \in DOMAIN R : n + 1 <= o
    BY <1>0, <1>2
  <2>3. QED
    BY <1>1, <2>1, <2>2 DEF Straying
<1>3. CASE n \in DOMAIN R
  <2>1. PICK size \in 1 .. HeapSize : size = R[n]
    BY <1>3
  <2>2. PICK t : t = TryPurgable(b, size)
    OBVIOUS
  <2>3. PICK c : c = t.a
    OBVIOUS
  <2>4. /\ IsHeap(c) /\ c.static = a.static
        /\ DOMAIN b.purgable \subseteq DOMAIN c.purgable
        /\ \A o \in DOMAIN b.purgable : c.purgable[o] = b.purgable[o]
    BY <1>1, <2>2, <2>3, TryKeeps
  <2>5. HasAstray(c, a.static[0], DOMAIN R)
    <3>1. CASE b = a
      <4>1. HasAstray(c, a.static[0], DOMAIN a.purgable)
        BY <2>2, <2>3, <3>1, TryWraps
      <4>2. QED
        BY <4>1 DEF HasAstray
    <3>2. CASE HasAstray(b, a.static[0], DOMAIN R)
      BY <2>4, <3>2, AstrayKept
    <3>3. QED
      BY <1>1, <3>1, <3>2
  <2>6. done.a = b /\ done.to = to /\ done.purge = purge
    BY <1>1
  <2>7. CASE t.ok
    <3>1. PICK q, mem, d : q = t.a.reloc[t.uid] /\ mem = MemMove(c.mem, q, n, size)
                           /\ d = [head |-> c.head, static |-> c.static, purgable |-> c.purgable,
                                   reloc |-> c.reloc, inv |-> c.inv, mem |-> mem]
      OBVIOUS
    <3>2. [c EXCEPT !.mem = mem] = d
      BY <2>4, <3>1 DEF IsHeap
    <3>3. PICK to2 : to2 = Insert(to, n, q)
      OBVIOUS
    <3>4. MoveRegion(R, done, n) = [done EXCEPT !.a = d, !.to = to2]
      <4>1. MoveRegion(R, done, n) =
              [done EXCEPT !.a = [t.a EXCEPT !.mem = MemMove(@, q, n, size)],
                           !.to = Insert(@, n, q)]
        BY <1>3, <2>1, <2>2, <2>6, <2>7, <3>1, Zenon DEF MoveRegion
      <4>2. [t.a EXCEPT !.mem = MemMove(@, q, n, size)] = d
        BY <2>3, <3>1, <3>2, Zenon
      <4>3. QED
        BY <2>6, <3>3, <4>1, <4>2, Zenon
    <3>5. [done EXCEPT !.a = d, !.to = to2] = [a |-> d, to |-> to2, purge |-> purge]
      <4>1. PICK e : e = [a |-> d, to |-> to, purge |-> purge]
        OBVIOUS
      <4>2. [done EXCEPT !.a = d] = e
        BY <1>1, <4>1
      <4>3. [e EXCEPT !.to = to2] = [a |-> d, to |-> to2, purge |-> purge]
        BY <4>1
      <4>4. [done EXCEPT !.a = d, !.to = to2] = [[done EXCEPT !.a = d] EXCEPT !.to = to2]
        BY Zenon
      <4>5. QED
        BY <4>2, <4>3, <4>4, Zenon
    <3>6. DOMAIN to2 \subseteq DOMAIN R
      BY <1>1, <1>3, <3>3 DEF Insert
    <3>7. IsHeap(d) /\ d.static = a.static /\ d.purgable = c.purgable
      BY <2>4, <3>1 DEF IsHeap
    <3>8. HasAstray(d, a.static[0], DOMAIN R)
      BY <2>5, <3>7, AstrayKept
    <3>9. QED
      BY <1>1, <3>4, <3>5, <3>6, <3>7, <3>8 DEF Straying
  <2>8. CASE ~t.ok
    <3>1. PICK purge2 : purge2 = purge \cup {n}
      OBVIOUS
    <3>2. MoveRegion(R, done, n) = [done EXCEPT !.a = c, !.purge = purge2]
      <4>1. MoveRegion(R, done, n) = [done EXCEPT !.a = t.a, !.purge = @ \cup {n}]
        BY <1>3, <2>1, <2>2, <2>6, <2>8, Zenon DEF MoveRegion
      <4>2. QED
        BY <2>3, <2>6, <3>1, <4>1, Zenon
    <3>3. [done EXCEPT !.a = c, !.purge = purge2] = [a |-> c, to |-> to, purge |-> purge2]
      <4>1. PICK e : e = [a |-> c, to |-> to, purge |-> purge]
        OBVIOUS
      <4>2. [done EXCEPT !.a = c] = e
        BY <1>1, <4>1
      <4>3. [e EXCEPT !.purge = purge2] = [a |-> c, to |-> to, purge |-> purge2]
        BY <4>1
      <4>4. [done EXCEPT !.a = c, !.purge = purge2] = [[done EXCEPT !.a = c] EXCEPT !.purge = purge2]
        BY Zenon
      <4>5. QED
        BY <4>2, <4>3, <4>4, Zenon
    <3>4. purge2 \subseteq DOMAIN R
      BY <1>1, <1>3, <3>1
    <3>5. QED
      BY <1>1, <2>4, <2>5, <3>2, <3>3, <3>4 DEF Straying
  <2>9. QED
    BY <2>7, <2>8
<1>4. QED
  BY <1>2, <1>3

\* purgeOrRelocateRange from 0 leads a region astray if there is one in its
\* range.
LEMMA RangeStrays ==
  ASSUME NEW a, Frame(a), ~Snug(a), DOMAIN a.purgable \subseteq a.head .. HeapSize - 1,
         NEW end, NEW R, R = RangeRegions(a, 0, end), DOMAIN R # {},
         DOMAIN R \subseteq DOMAIN a.purgable, \A o \in DOMAIN R : R[o] \in 1 .. HeapSize
  PROVE  LET b == PurgeOrRelocateRange(a, 0, end)
         IN  b.static = a.static /\ HasAstray(b, a.static[0], DOMAIN R)
<1>1. HeapSize \in Nat
  BY HeapAssumption
<1>2. PICK start : start = [a |-> a, to |-> NoEntries, purge |-> {}]
  OBVIOUS
<1>3. PICK d \in Seq(0 .. HeapSize - 1) :
        /\ d = Upwards /\ Len(d) = HeapSize
        /\ \A n \in 1 .. HeapSize : d[n] = n - 1
  <2>1. Upwards \in Seq(0 .. HeapSize - 1) /\ Len(Upwards) = HeapSize
        /\ \A n \in 1 .. HeapSize : Upwards[n] = n - 1
    BY <1>1 DEF Upwards
  <2>2. QED
    BY <2>1, Zenon
<1>4. PICK all : all = M!Fold(R, start, d)
  OBVIOUS
<1>5. PurgeOrRelocateRange(a, 0, end) = RegisterPurge(RegisterRelocate(all.a, all.to), all.purge)
  BY <1>2, <1>3, <1>4 DEF PurgeOrRelocateRange, FoldLeft, MapThenFoldSet, Max,
              M!Fold, M!MapThenFoldSet, M!Greatest
<1>6. PICK f : /\ f[0] = start
               /\ \A n \in 1 .. Len(d) : f[n] = MoveRegion(R, f[n - 1], d[n])
               /\ M!Fold(R, start, d) = f[Len(d)]
  <2>1. \E f : MoveHistory(R, start, d, f)
    BY MoveSteps
  <2>2. QED
    BY <2>1 DEF MoveHistory
<1> DEFINE Good == {n \in Nat : n <= HeapSize => Straying(a, f[n], R, n)}
<1>7. 0 \in Good
  <2>1. IsHeap(a) /\ DOMAIN NoEntries = {} /\ \A o \in DOMAIN R : 0 <= o
    BY <1>1 DEF Frame, NoEntries
  <2>2. QED
    BY <1>2, <1>6, <2>1 DEF Straying
<1>8. ASSUME NEW n \in Nat, n \in Good
      PROVE  n + 1 \in Good
  <2>1. SUFFICES ASSUME n + 1 <= HeapSize
                 PROVE  Straying(a, f[n + 1], R, n + 1)
    OBVIOUS
  <2>2. n + 1 \in 1 .. HeapSize /\ (n + 1) - 1 = n /\ n <= HeapSize
    BY <1>1, <2>1
  <2>3. f[n + 1] = MoveRegion(R, f[n], n)
    BY <1>3, <1>6, <2>2
  <2>4. PICK done : done = f[n]
    OBVIOUS
  <2>5. Straying(a, done, R, n)
    BY <1>8, <2>2, <2>4
  <2>6. Straying(a, MoveRegion(R, done, n), R, n + 1)
    BY <2>5, StrayStep
  <2>7. QED
    BY <2>3, <2>4, <2>6
<1>9. Nat \subseteq Good
  <2> HIDE DEF Good
  <2>1. QED
    BY <1>7, <1>8, M!NatSetInduction
<1>10. Straying(a, all, R, HeapSize)
  BY <1>1, <1>3, <1>4, <1>6, <1>9
<1>11. PICK b, to, purge :
         /\ all = [a |-> b, to |-> to, purge |-> purge]
         /\ IsHeap(b) /\ b.static = a.static
         /\ DOMAIN to \subseteq DOMAIN R /\ purge \subseteq DOMAIN R
         /\ (b = a /\ \A o \in DOMAIN R : HeapSize <= o) \/ HasAstray(b, a.static[0], DOMAIN R)
  BY <1>10 DEF Straying
<1>12. HasAstray(b, a.static[0], DOMAIN R)
  <2>1. \A o \in DOMAIN R : ~(HeapSize <= o)
    BY <1>1 DEF Frame
  <2>2. QED
    BY <1>11, <2>1
<1>13. all.a = b /\ all.to = to /\ all.purge = purge
  BY <1>11
<1>14. PICK c : c = RegisterRelocate(b, to)
  OBVIOUS
<1>15. IsHeap(c) /\ c.static = b.static /\ DOMAIN c.purgable = DOMAIN b.purgable \ DOMAIN to
       /\ \A o \in DOMAIN c.purgable : c.purgable[o] = b.purgable[o]
  <2>1. PICK reloc, inv, x : reloc = RelocAfter(b, to) /\ inv = InvAfter(b, to)
                             /\ x = Erase(b.purgable, DOMAIN to)
    OBVIOUS
  <2>2. PICK r : r = [head |-> b.head, static |-> b.static, purgable |-> b.purgable,
                      reloc |-> reloc, inv |-> inv, mem |-> b.mem]
    OBVIOUS
  <2>3. Redirect(b, to) = r
    <3>1. IsHeap(b)
      BY <1>11
    <3>2. QED
      BY <2>1, <2>2, <3>1, RedirectRecord
  <2>4. r.purgable = b.purgable
    BY <2>2
  <2>5. c = [r EXCEPT !.purgable = x]
    BY <1>14, <2>1, <2>3, <2>4, Zenon DEF RegisterRelocate
  <2>6. c = [head |-> b.head, static |-> b.static, purgable |-> x,
             reloc |-> reloc, inv |-> inv, mem |-> b.mem]
    BY <2>2, <2>5
  <2>7. IsHeap(c) /\ c.static = b.static /\ c.purgable = x
    BY <2>6 DEF IsHeap
  <2>8. QED
    BY <2>1, <2>7 DEF Erase
<1>16. PICK e : e = RegisterPurge(c, purge)
  OBVIOUS
<1>17. e.static = c.static /\ DOMAIN e.purgable = DOMAIN c.purgable \ purge
       /\ \A o \in DOMAIN c.purgable \ purge : e.purgable[o] = c.purgable[o]
  BY <1>15, <1>16, PurgeEffect
<1>18. HasAstray(e, a.static[0], DOMAIN R)
  <2>1. PICK o \in DOMAIN b.purgable \ DOMAIN R :
          Astray(o, a.static[0]) /\ b.purgable[o] \in Nat \ {0}
    BY <1>12 DEF HasAstray
  <2>2. o \in DOMAIN c.purgable \ purge /\ c.purgable[o] = b.purgable[o]
    BY <1>11, <1>15, <2>1
  <2>3. o \in DOMAIN e.purgable \ DOMAIN R /\ e.purgable[o] = b.purgable[o]
    BY <1>17, <2>1, <2>2
  <2>4. QED
    BY <2>1, <2>3 DEF HasAstray
<1>19. PurgeOrRelocateRange(a, 0, end) = e
  BY <1>5, <1>13, <1>14, <1>16, Zenon
<1>20. QED
  BY <1>11, <1>15, <1>17, <1>18, <1>19

\* resizeStaticAllocation of volatile memory spoils the heap whenever it meets a
\* region and the head is not at 0.
THEOREM ResizeSpoils ==
  ASSUME NEW a, NEW T, Sound(a, T), NEW u \in DOMAIN a.reloc, a.reloc[u] = 0,
         NEW size \in 1 .. HeapSize, a.head # 0, NEW x \in DOMAIN a.purgable, x < size
  PROVE  ~RegionsDisjoint(ResizeStaticAllocation(a, u, size).a)
<1>1. HeapSize \in Nat \ {0}
  BY HeapAssumption
<1>2. IsHeap(a) /\ DOMAIN a.static = {0} /\ a.static[0] \in 1 .. HeapSize
  BY DEF Sound, Layout
<1>3. StaticGap([a EXCEPT !.static = Erase(@, {0})], 0) = HeapSize
  <2>1. PICK e : e = [a EXCEPT !.static = Erase(@, {0})]
    OBVIOUS
  <2>2. DOMAIN e.static = {}
    BY <1>2, <2>1 DEF IsHeap, Erase
  <2>3. {o \in DOMAIN e.static : o >= 0} \cup {HeapSize} = {HeapSize}
    BY <2>2
  <2>4. HeapSize - 0 = HeapSize
    BY <1>1
  <2>5. QED
    BY <1>1, <2>1, <2>3, <2>4, MinOfOne DEF StaticGap
<1>4. PICK static : static = [a.static EXCEPT ![0] = size]
  OBVIOUS
<1>5. DOMAIN static = {0} /\ static[0] = size
  BY <1>2, <1>4
<1>6. PICK s : s = [head |-> a.head, static |-> static, purgable |-> a.purgable,
                    reloc |-> a.reloc, inv |-> a.inv, mem |-> a.mem]
  OBVIOUS
<1>7. s = [a EXCEPT !.static[0] = size]
  <2>1. [a EXCEPT !.static[0] = size] = [a EXCEPT !.static = static]
    BY <1>2, <1>4, Zenon
  <2>2. [a EXCEPT !.static = static] = s
    BY <1>2, <1>6 DEF IsHeap
  <2>3. QED
    BY <2>1, <2>2, Zenon
<1>8. IsHeap(s) /\ s.head = a.head /\ s.static = static /\ s.purgable = a.purgable
  BY <1>6 DEF IsHeap
<1>9. ResizeStaticAllocation(a, u, size) = Done(PurgeOrRelocateRange(s, 0, size), u)
  <2>1. 0 \in DOMAIN a.static /\ 0 + size = size /\ ~(size > HeapSize)
    BY <1>1, <1>2
  <2>2. QED
    BY <1>3, <1>7, <2>1 DEF ResizeStaticAllocation
<1>10. \A o \in DOMAIN a.purgable : /\ o \in a.head .. HeapSize - 1 /\ 0 <= o /\ ~(o < 0)
                                    /\ a.purgable[o] \in 1 .. HeapSize
  BY <1>1 DEF Sound, Layout
<1>11. Frame(s) /\ ~Snug(s)
  <2>1. a.head \in 0 .. HeapSize
    BY DEF Sound, Layout
  <2>2. a.head < size
    BY <1>1, <1>10, <2>1
  <2>3. QED
    BY <1>1, <1>5, <1>8, <2>1, <2>2 DEF Frame, Snug
<1>12. PICK R : R = RangeRegions(s, 0, size)
  OBVIOUS
<1>13. DOMAIN R = {o \in DOMAIN a.purgable : o < size} /\ \A o \in DOMAIN R : R[o] = a.purgable[o]
  <2>1. {o \in DOMAIN s.purgable : o < 0} = {}
    BY <1>8, <1>10
  <2>2. R = Restrict(s.purgable, {o \in DOMAIN s.purgable : 0 <= o /\ o < size})
    BY <1>12, <2>1 DEF RangeRegions
  <2>3. {o \in DOMAIN s.purgable : 0 <= o /\ o < size} = {o \in DOMAIN a.purgable : o < size}
    BY <1>8, <1>10
  <2>4. QED
    BY <1>8, <2>2, <2>3 DEF Restrict
<1>14. PICK b : b = PurgeOrRelocateRange(s, 0, size)
  OBVIOUS
<1>15. b.static = s.static /\ HasAstray(b, s.static[0], DOMAIN R)
  <2>1. DOMAIN s.purgable \subseteq s.head .. HeapSize - 1
    BY <1>8, <1>10
  <2>2. DOMAIN R # {} /\ DOMAIN R \subseteq DOMAIN s.purgable
    BY <1>8, <1>13
  <2>3. \A o \in DOMAIN R : R[o] \in 1 .. HeapSize
    BY <1>10, <1>13
  <2>4. QED
    BY <1>11, <1>12, <1>14, <2>1, <2>2, <2>3, RangeStrays
<1>16. ~RegionsDisjoint(b)
  <2>1. DOMAIN b.static = {0} /\ b.static[0] \in 1 .. HeapSize /\ HasAstray(b, b.static[0], DOMAIN R)
    BY <1>5, <1>8, <1>15
  <2>2. QED
    BY <2>1, AstrayOverlaps
<1>17. QED
  BY <1>9, <1>14, <1>16 DEF Done

\* The memory manager's first allocation, of one byte, is sound.
LEMMA BootSound ==
  ASSUME NEW T, Junk \in T
  PROVE  LET t == AllocateStatic(Create, 1)
         IN  /\ Sound(t.a, T) /\ DOMAIN t.a.reloc = {t.uid} /\ t.a.reloc[t.uid] = 0
             /\ DOMAIN t.a.purgable = {}
<1>1. HeapSize \in Nat \ {0} /\ Purged \notin 0 .. HeapSize
  BY HeapAssumption
<1>2. PICK a : a = Create
  OBVIOUS
<1>3. /\ IsHeap(a) /\ a.head = HeapSize /\ a.static = NoEntries /\ a.purgable = NoEntries
      /\ a.reloc = NoEntries /\ a.inv = NoEntries /\ a.mem = [x \in 0 .. HeapSize - 1 |-> Junk]
  BY <1>2 DEF Create, IsHeap
<1>4. DOMAIN NoEntries = {}
  BY DEF NoEntries
<1>5. StaticStarts(a) = {0}
  BY <1>3, <1>4 DEF StaticStarts
<1>6. StaticGap(a, 0) = HeapSize
  <2>1. {o \in DOMAIN a.static : o >= 0} \cup {HeapSize} = {HeapSize}
    BY <1>3, <1>4
  <2>2. HeapSize - 0 = HeapSize
    BY <1>1
  <2>3. QED
    BY <1>1, <2>1, <2>2, MinOfOne DEF StaticGap
<1>7. WidestGap(a) = 0
  BY <1>5 DEF WidestGap
<1>8. PICK u : u = FreshUid(a)
  OBVIOUS
<1>9. PICK r : r = [a EXCEPT !.static = Insert(a.static, 0, 1), !.inv = Insert(a.inv, 0, u),
                             !.reloc = Insert(a.reloc, u, 0)]
  OBVIOUS
<1>10. AllocateStatic(a, 1) = Done(PurgeOrRelocateRange(r, 0, 1), u)
  <2>1. ~(HeapSize < 1) /\ 0 + 1 = 1
    BY <1>1
  <2>2. AllocateStatic(a, 1) = Done(PurgeOrRelocateRange(r, 0, 0 + 1), u)
    BY <1>6, <1>7, <1>8, <1>9, <2>1, Zenon DEF AllocateStatic
  <2>3. QED
    BY <2>1, <2>2, Zenon
<1>11. PICK x, y, z : x = Insert(a.static, 0, 1) /\ y = Insert(a.inv, 0, u)
                      /\ z = Insert(a.reloc, u, 0)
  OBVIOUS
<1>12. /\ DOMAIN x = {0} /\ x[0] = 1 /\ DOMAIN y = {0} /\ y[0] = u
       /\ DOMAIN z = {u} /\ z[u] = 0
  BY <1>3, <1>4, <1>11 DEF Insert
<1>13. r = [head |-> a.head, static |-> x, purgable |-> a.purgable,
            reloc |-> z, inv |-> y, mem |-> a.mem]
  <2>1. PICK b1 : b1 = [head |-> a.head, static |-> x, purgable |-> a.purgable,
                        reloc |-> a.reloc, inv |-> a.inv, mem |-> a.mem]
    OBVIOUS
  <2>2. [a EXCEPT !.static = x] = b1
    <3>1. IsHeap(a)
      BY <1>3
    <3>2. QED
      BY <2>1, <3>1 DEF IsHeap
  <2>3. [b1 EXCEPT !.inv = y, !.reloc = z] = [[b1 EXCEPT !.inv = y] EXCEPT !.reloc = z]
    BY Zenon
  <2>4. PICK b2 : b2 = [head |-> a.head, static |-> x, purgable |-> a.purgable,
                        reloc |-> a.reloc, inv |-> y, mem |-> a.mem]
    OBVIOUS
  <2>5. [b1 EXCEPT !.inv = y] = b2
    BY <2>1, <2>4
  <2>6. [b2 EXCEPT !.reloc = z] = [head |-> a.head, static |-> x, purgable |-> a.purgable,
                                   reloc |-> z, inv |-> y, mem |-> a.mem]
    BY <2>4
  <2>7. r = [[[a EXCEPT !.static = x] EXCEPT !.inv = y] EXCEPT !.reloc = z]
    BY <1>9, <1>11, Zenon
  <2>8. QED
    BY <2>2, <2>5, <2>6, <2>7, Zenon
<1>14. /\ IsHeap(r) /\ r.head = HeapSize /\ r.static = x /\ r.purgable = NoEntries
       /\ r.reloc = z /\ r.inv = y /\ r.mem = a.mem
  BY <1>3, <1>13 DEF IsHeap
<1>15. PICK R : R = RangeRegions(r, 0, 1)
  OBVIOUS
<1>16. DOMAIN R = {}
  <2>1. {o \in DOMAIN r.purgable : o < 0} = {}
    BY <1>4, <1>14
  <2>2. R = Restrict(r.purgable, {o \in DOMAIN r.purgable : 0 <= o /\ o < 1})
    BY <1>15, <2>1 DEF RangeRegions
  <2>3. QED
    BY <1>4, <1>14, <2>2 DEF Restrict
<1>17. Frame(r)
  BY <1>1, <1>12, <1>14 DEF Frame
<1>18. PICK c, b : c = RegisterRelocate(r, NoEntries) /\ b = RegisterPurge(c, DOMAIN R)
  OBVIOUS
<1>19. PurgeOrRelocateRange(r, 0, 1) = b
  <2>1. DOMAIN R \subseteq 0 .. HeapSize - 1 /\ \A o \in DOMAIN R : R[o] \in Nat \ {0}
    BY <1>16
  <2>2. QED
    BY <1>15, <1>16, <1>17, <1>18, <2>1, PurgeRangeFold
<1>20. /\ IsHeap(c) /\ c.head = r.head /\ c.static = r.static /\ c.mem = r.mem
       /\ DOMAIN c.purgable = DOMAIN r.purgable
       /\ DOMAIN c.inv = DOMAIN r.inv /\ \A o \in DOMAIN r.inv : c.inv[o] = r.inv[o]
       /\ DOMAIN c.reloc = DOMAIN r.reloc
       /\ \A v \in DOMAIN r.reloc : c.reloc[v] = r.reloc[v]
  BY <1>14, <1>18, RelocateNothing
<1>21. /\ IsHeap(b) /\ b.head = c.head /\ b.static = c.static /\ b.mem = c.mem
       /\ DOMAIN b.purgable = DOMAIN c.purgable \ DOMAIN R
       /\ DOMAIN b.inv = DOMAIN c.inv \ DOMAIN R
       /\ \A o \in DOMAIN c.inv \ DOMAIN R : b.inv[o] = c.inv[o]
       /\ DOMAIN b.reloc = DOMAIN c.reloc
       /\ \A v \in DOMAIN c.reloc :
            b.reloc[v] = IF \E o \in DOMAIN R : c.inv[o] = v THEN Purged ELSE c.reloc[v]
  BY <1>18, <1>20, PurgeEffect
<1>22. /\ IsHeap(b) /\ b.head = HeapSize /\ DOMAIN b.static = {0} /\ b.static[0] = 1
       /\ b.mem = [q \in 0 .. HeapSize - 1 |-> Junk] /\ DOMAIN b.purgable = {}
       /\ DOMAIN b.inv = {0} /\ b.inv[0] = u /\ DOMAIN b.reloc = {u} /\ b.reloc[u] = 0
  BY <1>3, <1>4, <1>12, <1>14, <1>16, <1>20, <1>21
<1>23. Layout(b, T)
  <2>1. HeapSize \in 0 .. HeapSize /\ 1 \in 1 .. HeapSize /\ 1 <= HeapSize
    BY <1>1
  <2>2. b.mem \in [0 .. HeapSize - 1 -> T]
    BY <1>22
  <2>3. QED
    BY <1>22, <2>1, <2>2 DEF Layout
<1>24. Handles(b)
  <2>1. IsFiniteSet({u})
    BY FS_Singleton
  <2>2. QED
    BY <1>22, <2>1 DEF Handles
<1>25. QED
  <2>1. AllocateStatic(Create, 1) = Done(b, u)
    BY <1>2, <1>10, <1>19
  <2>2. AllocateStatic(Create, 1).a = b /\ AllocateStatic(Create, 1).uid = u
    BY <2>1 DEF Done
  <2>3. QED
    BY <1>22, <1>23, <1>24, <2>2 DEF Sound

\* In a sound allocator no byte has two owners.
THEOREM LayoutDisjoint ==
  ASSUME NEW a, NEW T, Sound(a, T)
  PROVE  RegionsDisjoint(a)
<1>1. PICK n \in Nat : n = HeapSize
  BY HeapAssumption
<1>2. PICK st \in Nat \ {0} : st = a.static[0] /\ st <= n
  BY <1>1 DEF Sound, Layout
<1>3. DOMAIN a.static = {0}
  BY DEF Sound, Layout
<1>4. PICK pg : pg = a.purgable
  OBVIOUS
<1>5. /\ \A o \in DOMAIN pg : o \in Nat /\ pg[o] \in Nat \ {0} /\ o + pg[o] <= n /\ st <= o
      /\ \A o, q \in DOMAIN pg : o < q => o + pg[o] <= q
  BY <1>1, <1>2, <1>4 DEF Sound, Layout
<1>6. PICK stat, purg : /\ stat = {Bytes(o, a.static[o]) : o \in DOMAIN a.static}
                        /\ purg = {Bytes(o, pg[o]) : o \in DOMAIN pg}
  OBVIOUS
<1>7. \A r \in stat : r = 0 .. 0 + st - 1
  BY <1>2, <1>3, <1>6 DEF Bytes
<1>8. \A r \in purg : \E o \in DOMAIN pg : r = o .. o + pg[o] - 1
  BY <1>6 DEF Bytes
<1>9. \A r \in stat \cup purg : r \subseteq 0 .. n - 1
  BY <1>2, <1>5, <1>7, <1>8
<1>10. \A r, s \in stat : r # s => r \cap s = {}
  BY <1>7
<1>11. ASSUME NEW r \in purg, NEW s \in purg, r # s
       PROVE  r \cap s = {}
  <2>1. PICK o \in DOMAIN pg, q \in DOMAIN pg : r = o .. o + pg[o] - 1 /\ s = q .. q + pg[q] - 1
    BY <1>8
  <2>2. o # q
    BY <1>11, <2>1
  <2>3. PICK x \in Nat, y \in Nat, i \in Nat, j \in Nat : x = o /\ y = q /\ i = pg[o] /\ j = pg[q]
    BY <1>5
  <2>4. x + i <= y \/ y + j <= x
    BY <1>5, <2>2, <2>3
  <2>5. (x .. x + i - 1) \cap (y .. y + j - 1) = {}
    BY <2>4
  <2>6. QED
    BY <2>1, <2>3, <2>5
<1>12. \A r \in stat, s \in purg : r \cap s = {}
  BY <1>5, <1>7, <1>8
<1>13. RegionsDisjoint(a)
  BY <1>1, <1>4, <1>6, <1>9, <1>10, <1>11, <1>12 DEF RegionsDisjoint
<1>14. QED
  BY <1>13

-----------------------------------------------------------------------------
(***************************************************************************)
(* Sequences without repetition: the cache's own order of use, the list of *)
(* the replay and the list of what is still to be put.                     *)
(***************************************************************************)
\* The range of a sequence is finite.
LEMMA RangeFinite ==
  ASSUME NEW S, NEW s \in Seq(S)
  PROVE  IsFiniteSet(Range(s)) /\ Range(s) \subseteq S
<1>1. IsFiniteSet(DOMAIN s)
  <2>1. DOMAIN s = 1 .. Len(s) /\ Len(s) \in Nat
    OBVIOUS
  <2>2. IsFiniteSet(1 .. Len(s))
    BY <2>1, FS_Interval
  <2>3. QED
    BY <2>1, <2>2
<1>2. IsFiniteSet({s[i] : i \in DOMAIN s})
  <2>1. s \in Surjection(DOMAIN s, Range(s))
    BY DEF Surjection, Range
  <2>2. QED
    BY <1>1, <2>1, FS_Surjection DEF Range
<1>3. QED
  BY <1>2 DEF Range

\* Appending a new element.
LEMMA AppendEffect ==
  ASSUME NEW S, NEW s \in Seq(S), IsInjective(s), NEW e \in S, e \notin Range(s)
  PROVE  /\ Append(s, e) \in Seq(S) /\ IsInjective(Append(s, e))
         /\ Range(Append(s, e)) = Range(s) \cup {e}
<1>1. PICK t : t = Append(s, e)
  OBVIOUS
<1>2. /\ t \in Seq(S) /\ Len(t) = Len(s) + 1 /\ t[Len(s) + 1] = e
      /\ DOMAIN t = 1 .. Len(s) + 1 /\ DOMAIN s = 1 .. Len(s) /\ Len(s) \in Nat
      /\ \A i \in 1 .. Len(s) : t[i] = s[i]
  BY <1>1
<1>3. \A i \in 1 .. Len(s) : s[i] # e
  BY <1>2 DEF Range
<1>4. \A i \in DOMAIN t : i \in 1 .. Len(s) \/ i = Len(s) + 1
  BY <1>2
<1>5. IsInjective(t)
  BY <1>2, <1>3, <1>4 DEF IsInjective
<1>6. Range(t) = Range(s) \cup {e}
  <2>1. \A i \in 1 .. Len(s) : i \in DOMAIN t
    BY <1>2
  <2>2. Len(s) + 1 \in DOMAIN t
    BY <1>2
  <2>3. QED
    BY <1>2, <1>4, <2>1, <2>2 DEF Range
<1>7. QED
  BY <1>1, <1>2, <1>5, <1>6

\* Taking the first element; the last one stays the last.
LEMMA TailEffect ==
  ASSUME NEW S, NEW s \in Seq(S), IsInjective(s), s # <<>>
  PROVE  /\ Head(s) \in S /\ Head(s) \in Range(s)
         /\ Tail(s) \in Seq(S) /\ IsInjective(Tail(s))
         /\ Range(Tail(s)) = Range(s) \ {Head(s)}
         /\ Tail(s) # <<>> => Tail(s)[Len(Tail(s))] = s[Len(s)]
         /\ Tail(s) = <<>> => s[Len(s)] = Head(s)
<1>1. PICK t : t = Tail(s)
  OBVIOUS
<1>2. /\ t \in Seq(S) /\ Len(s) \in Nat /\ Len(t) \in Nat /\ Len(s) = Len(t) + 1
      /\ DOMAIN s = 1 .. Len(s) /\ DOMAIN t = 1 .. Len(t)
      /\ \A i \in 1 .. Len(t) : t[i] = s[i + 1]
      /\ Head(s) = s[1]
  BY <1>1
<1>3. \A i \in 1 .. Len(t) : i + 1 \in DOMAIN s /\ i + 1 # 1
  BY <1>2
<1>4. \A i \in DOMAIN s : i = 1 \/ \E j \in 1 .. Len(t) : i = j + 1
  <2>1. ASSUME NEW i \in DOMAIN s, i # 1
        PROVE  \E j \in 1 .. Len(t) : i = j + 1
    <3>1. i - 1 \in 1 .. Len(t) /\ i = (i - 1) + 1
      BY <1>2, <2>1
    <3>2. QED
      BY <3>1
  <2>2. QED
    BY <2>1
<1>5. 1 \in DOMAIN s
  BY <1>2
<1>6. IsInjective(t)
  <2>1. ASSUME NEW i \in DOMAIN t, NEW j \in DOMAIN t, t[i] = t[j]
        PROVE  i = j
    <3>1. s[i + 1] = s[j + 1] /\ i + 1 \in DOMAIN s /\ j + 1 \in DOMAIN s
      BY <1>2, <1>3, <2>1
    <3>2. i + 1 = j + 1
      BY <3>1 DEF IsInjective
    <3>3. QED
      BY <1>2, <3>2
  <2>2. QED
    BY <2>1 DEF IsInjective
<1>7. Range(t) = Range(s) \ {s[1]}
  <2>1. \A i \in 1 .. Len(t) : s[i + 1] # s[1]
    BY <1>3, <1>5 DEF IsInjective
  <2>2. ASSUME NEW x \in Range(t)
        PROVE  x \in Range(s) /\ x # s[1]
    <3>1. PICK i \in 1 .. Len(t) : x = t[i]
      BY <1>2 DEF Range
    <3>2. QED
      BY <1>2, <1>3, <2>1, <3>1 DEF Range
  <2>3. ASSUME NEW x \in Range(s), x # s[1]
        PROVE  x \in Range(t)
    <3>1. PICK i \in DOMAIN s : x = s[i]
      BY DEF Range
    <3>2. PICK j \in 1 .. Len(t) : i = j + 1
      BY <1>4, <2>3, <3>1
    <3>3. x = t[j] /\ j \in DOMAIN t
      BY <1>2, <3>1, <3>2
    <3>4. QED
      BY <3>3 DEF Range
  <2>4. QED
    BY <2>2, <2>3
<1>8. t # <<>> => t[Len(t)] = s[Len(s)]
  BY <1>2
<1>9. t = <<>> => s[Len(s)] = s[1]
  BY <1>2
<1>10. s[1] \in S /\ s[1] \in Range(s)
  BY <1>5 DEF Range
<1>11. QED
  BY <1>1, <1>2, <1>6, <1>7, <1>8, <1>9, <1>10

\* SelectInSeq finds an element that is there.
LEMMA SelectIs ==
  ASSUME NEW s, NEW e, NEW n \in Nat, n = Len(s), e \in {s[i] : i \in 1 .. n}
  PROVE  SelectInSeq(s, LAMBDA x : x = e) \in 1 .. n
         /\ s[SelectInSeq(s, LAMBDA x : x = e)] = e
<1>1. PICK I : I = {i \in 1 .. n : s[i] = e}
  OBVIOUS
<1>2. I # {} /\ I \subseteq Nat
  BY <1>1
<1>3. Min(I) \in I
  BY <1>2, MinProperties
<1>4. SelectInSeq(s, LAMBDA x : x = e) = Min(I)
  BY <1>1, <1>2 DEF SelectInSeq
<1>5. QED
  BY <1>1, <1>3, <1>4

\* Taking an element out.
LEMMA RemoveFirstEffect ==
  ASSUME NEW S, NEW s \in Seq(S), IsInjective(s), NEW e \in Range(s)
  PROVE  LET t == RemoveFirst(s, e)
         IN  /\ t \in Seq(S) /\ IsInjective(t) /\ Range(t) = Range(s) \ {e}
             /\ Len(t) = Len(s) - 1
<1>1. PICK n \in Nat : n = Len(s) /\ DOMAIN s = 1 .. n
  OBVIOUS
<1>2. e \in {s[i] : i \in 1 .. n}
  BY <1>1 DEF Range
<1>3. PICK k \in 1 .. n : k = SelectInSeq(s, LAMBDA x : x = e) /\ s[k] = e
  BY <1>1, <1>2, SelectIs
<1>0. s[k] = e
  BY <1>3, Zenon
<1>4. PICK t : t = RemoveFirst(s, e)
  OBVIOUS
<1>5. t = SubSeq(s, 1, k - 1) \o SubSeq(s, k + 1, n)
  BY <1>1, <1>3, <1>4 DEF RemoveFirst, RemoveAt
<1>6. PICK l, r : l = SubSeq(s, 1, k - 1) /\ r = SubSeq(s, k + 1, n)
  OBVIOUS
<1>7. l \in Seq(S) /\ Len(l) = k - 1 /\ \A i \in 1 .. k - 1 : l[i] = s[i]
  BY <1>1, <1>6
<1>8. r \in Seq(S) /\ Len(r) = n - k /\ \A i \in 1 .. n - k : r[i] = s[i + k]
  BY <1>1, <1>6
<1>9. t \in Seq(S) /\ Len(t) = n - 1 /\ DOMAIN t = 1 .. n - 1
      /\ \A i \in 1 .. n - 1 : t[i] = IF i < k THEN s[i] ELSE s[i + 1]
  <2>1. PICK p \in Nat, q \in Nat : p = k - 1 /\ q = n - k
    <3>1. k - 1 \in Nat /\ n - k \in Nat
      OBVIOUS
    <3>2. QED
      BY <3>1
  <2>2. t = l \o r /\ Len(l) = p /\ Len(r) = q
    BY <1>5, <1>6, <1>7, <1>8, <2>1
  <2>3. t \in Seq(S) /\ Len(t) = p + q
        /\ \A i \in 1 .. p + q : t[i] = IF i <= p THEN l[i] ELSE r[i - p]
    <3>1. l \in Seq(S) /\ r \in Seq(S)
      BY <1>7, <1>8
    <3>2. /\ l \o r \in Seq(S)
          /\ Len(l \o r) = Len(l) + Len(r)
          /\ \A i \in 1 .. Len(l) + Len(r) :
               (l \o r)[i] = IF i <= Len(l) THEN l[i] ELSE r[i - Len(l)]
      BY <3>1, ConcatProperties, Zenon
    <3>3. QED
      BY <2>2, <3>2, Zenon
  <2>4. p + q = n - 1
    BY <1>1, <2>1
  <2>5. ASSUME NEW i \in 1 .. n - 1
        PROVE  t[i] = IF i < k THEN s[i] ELSE s[i + 1]
    <3>1. CASE i < k
      <4>1. i \in 1 .. k - 1 /\ i \in 1 .. p + q /\ i <= p
        BY <1>1, <2>1, <2>4, <3>1
      <4>2. t[i] = l[i]
        BY <2>3, <4>1
      <4>3. l[i] = s[i]
        BY <1>7, <4>1
      <4>4. QED
        BY <3>1, <4>2, <4>3
    <3>2. CASE ~(i < k)
      <4>1. i - p \in 1 .. n - k /\ (i - p) + k = i + 1 /\ ~(i <= p)
        BY <1>1, <2>1, <3>2
      <4>2. QED
        BY <1>8, <2>3, <2>4, <3>2, <4>1
    <3>3. QED
      BY <3>1, <3>2
  <2>6. QED
    BY <2>3, <2>4, <2>5
<1>10. IsInjective(t)
  <2>1. ASSUME NEW i \in 1 .. n - 1, NEW j \in 1 .. n - 1, t[i] = t[j]
        PROVE  i = j
    <3>1. PICK x \in DOMAIN s, y \in DOMAIN s :
            /\ x = IF i < k THEN i ELSE i + 1
            /\ y = IF j < k THEN j ELSE j + 1
      <4>1. (IF i < k THEN i ELSE i + 1) \in 1 .. n /\ (IF j < k THEN j ELSE j + 1) \in 1 .. n
        OBVIOUS
      <4>2. QED
        BY <1>1, <4>1
    <3>2. s[x] = s[y]
      BY <1>9, <2>1, <3>1
    <3>3. x = y
      BY <3>2 DEF IsInjective
    <3>4. QED
      BY <1>1, <3>1, <3>3
  <2>2. QED
    BY <1>9, <2>1 DEF IsInjective
<1>11. Range(t) = Range(s) \ {e}
  <2>1. ASSUME NEW x \in Range(t)
        PROVE  x \in Range(s) /\ x # e
    <3>1. PICK i \in 1 .. n - 1 : x = t[i]
      BY <1>9 DEF Range
    <3>2. PICK j \in DOMAIN s : j = (IF i < k THEN i ELSE i + 1) /\ j # k
      <4>1. (IF i < k THEN i ELSE i + 1) \in 1 .. n /\ (IF i < k THEN i ELSE i + 1) # k
        OBVIOUS
      <4>2. QED
        BY <1>1, <4>1
    <3>3. x = s[j]
      BY <1>9, <3>1, <3>2
    <3>4. k \in DOMAIN s
      BY <1>1
    <3>5. s[j] # s[k]
      BY <3>2, <3>4 DEF IsInjective
    <3>6. QED
      BY <1>0, <3>3, <3>5 DEF Range
  <2>2. ASSUME NEW x \in Range(s), x # e
        PROVE  x \in Range(t)
    <3>1. PICK j \in 1 .. n : x = s[j] /\ j # k
      BY <1>0, <1>1, <2>2 DEF Range
    <3>2. PICK i \in 1 .. n - 1 : j = IF i < k THEN i ELSE i + 1
      <4>1. CASE j < k
        <5>1. j \in 1 .. n - 1 /\ j = IF j < k THEN j ELSE j + 1
          BY <4>1
        <5>2. QED
          BY <5>1
      <4>2. CASE ~(j < k)
        <5>1. j - 1 \in 1 .. n - 1 /\ ~(j - 1 < k) /\ j = (j - 1) + 1
          BY <3>1, <4>2
        <5>2. QED
          BY <5>1
      <4>3. QED
        BY <4>1, <4>2
    <3>3. x = t[i] /\ i \in DOMAIN t
      BY <1>9, <3>1, <3>2
    <3>4. QED
      BY <3>3 DEF Range
  <2>3. QED
    BY <2>1, <2>2
<1>12. QED
  BY <1>1, <1>4, <1>9, <1>10, <1>11

-----------------------------------------------------------------------------
\* f holds what the fold has made of the first n members of s, for every n.
KeepHistory(c, base, s, f) ==
  /\ f[0] = base
  /\ \A n \in 1 .. Len(s) : f[n] = KeepUncached(c, f[n - 1], s[n])
  /\ U!Fold(c, base, s) = f[Len(s)]

\* The history of the loop of prefetchImpl.
LEMMA KeepSteps ==
  ASSUME NEW c, NEW base, NEW S, NEW s \in Seq(S)
  PROVE  \E f : KeepHistory(c, base, s, f)
  BY U!FoldSteps DEF KeepHistory

\* t holds what is not cached of the first n resources of s, in their order.
KeptSoFar(t, s, c, S, n) ==
  /\ t \in Seq(S) /\ IsInjective(t)
  /\ Range(t) = {s[i] : i \in 1 .. n} \ c
  /\ n # 0 /\ s[n] \notin c => t # <<>> /\ t[Len(t)] = s[n]

\* Uncached keeps what is not cached, each once, and the last one last.
LEMMA UncachedEffect ==
  ASSUME NEW S, NEW s \in Seq(S), IsInjective(s), NEW c
  PROVE  LET t == Uncached(s, c)
         IN  /\ t \in Seq(S) /\ IsInjective(t) /\ Range(t) = Range(s) \ c
             /\ s # <<>> /\ s[Len(s)] \notin c => t # <<>> /\ t[Len(t)] = s[Len(s)]
<1>1. PICK N \in Nat : N = Len(s) /\ DOMAIN s = 1 .. N
  OBVIOUS
<1>2. Uncached(s, c) = U!Fold(c, <<>>, s)
  BY DEF Uncached, FoldLeft, MapThenFoldSet, Max,
         U!Fold, U!MapThenFoldSet, U!Greatest
<1>3. PICK f : /\ f[0] = <<>>
               /\ \A n \in 1 .. Len(s) : f[n] = KeepUncached(c, f[n - 1], s[n])
               /\ U!Fold(c, <<>>, s) = f[Len(s)]
  <2>1. \E f : KeepHistory(c, <<>>, s, f)
    BY KeepSteps
  <2>2. QED
    BY <2>1 DEF KeepHistory
<1> DEFINE Good == {n \in Nat : n <= N => KeptSoFar(f[n], s, c, S, n)}
<1>4. 0 \in Good
  <2>1. PICK e : e = <<>>
    OBVIOUS
  <2>2. e \in Seq(S) /\ DOMAIN e = {}
    BY <2>1
  <2>3. IsInjective(e) /\ Range(e) = {}
    BY <2>2 DEF IsInjective, Range
  <2>4. {s[i] : i \in 1 .. 0} = {}
    OBVIOUS
  <2>5. KeptSoFar(e, s, c, S, 0)
    BY <2>2, <2>3, <2>4 DEF KeptSoFar
  <2>6. QED
    BY <1>3, <2>1, <2>5
<1>5. ASSUME NEW n \in Nat, n \in Good
      PROVE  n + 1 \in Good
  <2>1. SUFFICES ASSUME n + 1 <= N
                 PROVE  KeptSoFar(f[n + 1], s, c, S, n + 1)
    OBVIOUS
  <2>2. n + 1 \in 1 .. N /\ (n + 1) - 1 = n /\ n <= N
    BY <1>1, <2>1
  <2>3. PICK x, t : x \in S /\ t = f[n] /\ x = s[n + 1]
    <3>1. s[n + 1] \in S
      BY <1>1, <2>2
    <3>2. QED
      BY <3>1
  <2>4. KeptSoFar(t, s, c, S, n)
    BY <1>5, <2>2, <2>3
  <2>5. f[n + 1] = KeepUncached(c, t, x)
    BY <1>1, <1>3, <2>2, <2>3
  <2>6. {s[i] : i \in 1 .. n + 1} = {s[i] : i \in 1 .. n} \cup {x}
    <3>1. \A i \in 1 .. n + 1 : i \in 1 .. n \/ i = n + 1
      OBVIOUS
    <3>2. n + 1 \in 1 .. n + 1 /\ \A i \in 1 .. n : i \in 1 .. n + 1
      OBVIOUS
    <3>3. QED
      BY <2>3, <3>1, <3>2
  <2>7. CASE x \in c
    <3>1. f[n + 1] = t
      BY <2>5, <2>7 DEF KeepUncached
    <3>2. {s[i] : i \in 1 .. n + 1} \ c = {s[i] : i \in 1 .. n} \ c
      BY <2>6, <2>7
    <3>3. KeptSoFar(t, s, c, S, n + 1)
      BY <2>3, <2>4, <2>7, <3>2 DEF KeptSoFar
    <3>4. QED
      BY <3>1, <3>3
  <2>8. CASE x \notin c
    <3>1. PICK t2 : t2 = Append(t, x) /\ f[n + 1] = t2
      BY <2>5, <2>8 DEF KeepUncached
    <3>2. t \in Seq(S) /\ IsInjective(t) /\ Range(t) = {s[i] : i \in 1 .. n} \ c
      BY <2>4 DEF KeptSoFar
    <3>3. x \notin Range(t)
      <4>1. \A i \in 1 .. n : i \in DOMAIN s /\ n + 1 \in DOMAIN s /\ i # n + 1
        BY <1>1, <2>2
      <4>2. \A i \in 1 .. n : s[i] # s[n + 1]
        BY <4>1 DEF IsInjective
      <4>3. QED
        BY <2>3, <3>2, <4>2
    <3>4. t2 \in Seq(S) /\ IsInjective(t2) /\ Range(t2) = Range(t) \cup {x}
      BY <2>3, <3>1, <3>2, <3>3, AppendEffect
    <3>5. Range(t2) = {s[i] : i \in 1 .. n + 1} \ c
      BY <2>6, <2>8, <3>2, <3>4
    <3>6. t2 # <<>> /\ t2[Len(t2)] = x
      BY <3>1, <3>2, SMTT(30)
    <3>7. KeptSoFar(t2, s, c, S, n + 1)
      BY <2>3, <3>4, <3>5, <3>6 DEF KeptSoFar
    <3>8. QED
      BY <3>1, <3>7
  <2>9. QED
    BY <2>7, <2>8
<1>6. Nat \subseteq Good
  <2> HIDE DEF Good
  <2>1. QED
    BY <1>4, <1>5, U!NatSetInduction
<1>7. PICK t : t = Uncached(s, c) /\ KeptSoFar(t, s, c, S, N)
  BY <1>1, <1>2, <1>3, <1>6
<1>8. Range(s) = {s[i] : i \in 1 .. N}
  BY <1>1 DEF Range
<1>9. s # <<>> => N # 0
  BY <1>1
<1>10. QED
  BY <1>1, <1>7, <1>8, <1>9 DEF KeptSoFar

\* A part of a sequence without repetition.
LEMMA SubSeqEffect ==
  ASSUME NEW S, NEW s \in Seq(S), IsInjective(s), NEW m \in Nat, NEW n \in Nat,
         m >= 1, n <= Len(s)
  PROVE  LET t == SubSeq(s, m, n)
         IN  /\ t \in Seq(S) /\ IsInjective(t)
             /\ \A x \in Range(t) : \E i \in DOMAIN s : i >= m /\ x = s[i]
<1>1. PICK t : t = SubSeq(s, m, n)
  OBVIOUS
<1>2. PICK N \in Nat : N = Len(s) /\ DOMAIN s = 1 .. N
  OBVIOUS
<1>3. t \in Seq(S) /\ \A i \in DOMAIN t : i \in Nat /\ m + i - 1 \in DOMAIN s
                                         /\ m + i - 1 >= m /\ t[i] = s[m + i - 1]
  <2>1. CASE m <= n
    BY <1>1, <1>2, <2>1
  <2>2. CASE m > n
    <3>1. t = <<>>
      BY <1>1, <2>2
    <3>2. t \in Seq(S) /\ DOMAIN t = {}
      BY <3>1
    <3>3. QED
      BY <3>2
  <2>3. QED
    BY <2>1, <2>2
<1>4. IsInjective(t)
  <2>1. ASSUME NEW i \in DOMAIN t, NEW j \in DOMAIN t, t[i] = t[j]
        PROVE  i = j
    <3>1. m + i - 1 = m + j - 1
      BY <1>3, <2>1 DEF IsInjective
    <3>2. QED
      BY <1>3, <3>1
  <2>2. QED
    BY <2>1 DEF IsInjective
<1>5. \A x \in Range(t) : \E i \in DOMAIN s : i >= m /\ x = s[i]
  BY <1>3 DEF Range
<1>6. QED
  BY <1>1, <1>3, <1>4, <1>5

\* 1 .. m has m elements.
LEMMA IntervalCardinality ==
  ASSUME NEW m \in Nat
  PROVE  IsFiniteSet(1 .. m) /\ Cardinality(1 .. m) = m
<1>1. 1 \in Int /\ m \in Int
  OBVIOUS
<1>2. IsFiniteSet(1 .. m) /\ Cardinality(1 .. m) = IF 1 > m THEN 0 ELSE m - 1 + 1
  BY <1>1, FS_Interval, Zenon
<1>3. QED
  BY <1>2

\* What a miss fetches: a list without repetition that ends with the missed
\* resource (it is not among what follows it in the list of the replay).
LEMMA AnticipatedEffect ==
  ASSUME list \in Seq(Resources), IsInjective(list), NEW r \in Range(list), NEW bytes
  PROVE  LET t == Append(Anticipated(r, bytes), r)
         IN  /\ t \in Seq(Resources) /\ IsInjective(t)
             /\ t # <<>> /\ t[Len(t)] = r
<1>1. PICK l \in Seq(Resources), n \in Nat : l = list /\ n = Len(l) /\ DOMAIN l = 1 .. n
  <2>1. Len(list) \in Nat /\ DOMAIN list = 1 .. Len(list)
    OBVIOUS
  <2>2. QED
    BY <2>1
<1>2. IsInjective(l) /\ r \in {l[i] : i \in 1 .. n}
  BY <1>1 DEF Range
<1>3. PICK k \in 1 .. n : k = SelectInSeq(l, LAMBDA x : x = r) /\ l[k] = r
  <2>1. n = Len(l)
    BY <1>1
  <2>2. r \in {l[i] : i \in 1 .. n}
    BY <1>2
  <2>3. /\ SelectInSeq(l, LAMBDA x : x = r) \in 1 .. n
        /\ l[SelectInSeq(l, LAMBDA x : x = r)] = r
    BY <2>1, <2>2, SelectIs, Zenon
  <2>4. QED
    BY <2>3, Zenon
<1>4. k = SelectInSeq(l, LAMBDA x : x = r)
  BY <1>3, Zenon
<1>5. l[k] = r /\ r \in Resources
  <2>1. l[k] = r
    BY <1>3, Zenon
  <2>2. QED
    BY <1>1, <2>1
<1>6. PICK rest : rest = SubSeq(l, k + 1, n)
  OBVIOUS
<1>7. /\ rest \in Seq(Resources) /\ IsInjective(rest)
      /\ \A x \in Range(rest) : \E i \in DOMAIN l : i >= k + 1 /\ x = l[i]
  <2>1. k + 1 \in Nat /\ k + 1 >= 1 /\ n <= Len(l)
    BY <1>1
  <2>2. QED
    BY <1>2, <1>6, <2>1, SubSeqEffect
<1>8. r \notin Range(rest)
  <2>1. ASSUME r \in Range(rest) PROVE FALSE
    <3>1. PICK i \in DOMAIN l : i >= k + 1 /\ r = l[i]
      BY <1>7, <2>1
    <3>2. k \in DOMAIN l /\ l[k] = l[i]
      BY <1>1, <1>5, <3>1
    <3>3. k = i
      BY <1>2, <3>2 DEF IsInjective
    <3>4. QED
      BY <1>1, <3>1, <3>3
  <2>2. QED
    BY <2>1
<1>9. PICK D : /\ D \subseteq DOMAIN rest
               /\ Anticipated(r, bytes) = SubSeq(rest, 1, Cardinality(D))
  <2>1. PICK D : D = {m \in DOMAIN rest : SumFunction([i \in 1 .. m - 1 |-> Size[rest[i]]]) < bytes}
    OBVIOUS
  <2>2. Anticipated(r, bytes) = SubSeq(rest, 1, Cardinality(D))
    BY <1>1, <1>4, <1>6, <2>1, Zenon DEF Anticipated
  <2>3. D \subseteq DOMAIN rest
    BY <2>1
  <2>4. QED
    BY <2>2, <2>3
<1>10. Cardinality(D) \in Nat /\ Cardinality(D) <= Len(rest)
  <2>1. Len(rest) \in Nat /\ DOMAIN rest = 1 .. Len(rest)
    BY <1>7
  <2>2. IsFiniteSet(1 .. Len(rest)) /\ Cardinality(1 .. Len(rest)) = Len(rest)
    BY <2>1, IntervalCardinality
  <2>3. IsFiniteSet(D) /\ Cardinality(D) <= Cardinality(1 .. Len(rest))
    BY <1>9, <2>1, <2>2, FS_Subset
  <2>4. Cardinality(D) \in Nat
    BY <2>3, FS_CardinalityType
  <2>5. QED
    BY <2>2, <2>3, <2>4
<1>11. PICK s : s = Anticipated(r, bytes)
  OBVIOUS
<1>12. /\ s \in Seq(Resources) /\ IsInjective(s)
       /\ \A x \in Range(s) : \E i \in DOMAIN rest : i >= 1 /\ x = rest[i]
  <2>1. PICK one \in Nat, m \in Nat : one = 1 /\ m = Cardinality(D)
    BY <1>10
  <2>2. one >= 1 /\ m <= Len(rest) /\ s = SubSeq(rest, one, m)
    BY <1>9, <1>10, <1>11, <2>1
  <2>3. /\ s \in Seq(Resources) /\ IsInjective(s)
        /\ \A x \in Range(s) : \E i \in DOMAIN rest : i >= one /\ x = rest[i]
    BY <1>7, <2>2, SubSeqEffect
  <2>4. QED
    BY <2>1, <2>3
<1>13. r \notin Range(s)
  BY <1>8, <1>12 DEF Range
<1>14. Append(s, r) \in Seq(Resources) /\ IsInjective(Append(s, r))
  BY <1>5, <1>12, <1>13, AppendEffect
<1>15. Append(s, r) # <<>> /\ Append(s, r)[Len(Append(s, r))] = r
  BY <1>5, <1>12, AppendProperties
<1>16. QED
  BY <1>11, <1>14, <1>15

-----------------------------------------------------------------------------
(***************************************************************************)
(* SumFunction adds every value once, in whatever order its CHOOSE takes   *)
(* them.                                                                   *)
(***************************************************************************)
\* The element that MapThenFoldSet takes from a set.
Pick(s) == CHOOSE x \in s : TRUE

\* G is the function that SumFunction computes on the subsets of S.
Sums(G, f, S) ==
  G = [s \in SUBSET S |-> IF s = {} THEN 0 ELSE f[Pick(s)] + G[s \ {Pick(s)}]]

\* A subset of a finite set is finite, and one element less is one less.
LEMMA PickOne ==
  ASSUME NEW S, IsFiniteSet(S), NEW s \in SUBSET S, NEW y \in s
  PROVE  /\ IsFiniteSet(s) /\ s \ {y} \in SUBSET S
         /\ Cardinality(s) \in Nat /\ Cardinality(s \ {y}) \in Nat
         /\ Cardinality(s) = Cardinality(s \ {y}) + 1
<1>1. IsFiniteSet(s) /\ Cardinality(s) \in Nat
  BY FS_Subset, FS_CardinalityType
<1>2. IsFiniteSet(s \ {y}) /\ Cardinality(s \ {y}) = Cardinality(s) - 1
  BY <1>1, FS_RemoveElement
<1>3. Cardinality(s \ {y}) \in Nat
  BY <1>2, FS_CardinalityType
<1>4. QED
  BY <1>1, <1>2, <1>3

\* Only the empty set has no elements.
LEMMA CardinalityZero ==
  ASSUME NEW S, IsFiniteSet(S), NEW s \in SUBSET S, Cardinality(s) <= 0
  PROVE  s = {}
<1>1. IsFiniteSet(s) /\ Cardinality(s) \in Nat
  BY FS_Subset, FS_CardinalityType
<1>2. Cardinality(s) = 0
  BY <1>1
<1>3. QED
  BY <1>1, <1>2, FS_EmptySet

\* The recursive function inside SumFunction exists.
LEMMA SumExists ==
  ASSUME NEW S, IsFiniteSet(S), NEW f
  PROVE  \E G : Sums(G, f, S)
<1> DEFINE Rec(G, s) == IF s = {} THEN 0 ELSE f[Pick(s)] + G[s \ {Pick(s)}]
           Upto(G, n) == \A s \in SUBSET S : Cardinality(s) <= n => G[s] = Rec(G, s)
           Good == {n \in Nat : \E G : Upto(G, n)}
<1>1. \A s \in SUBSET S : s # {} => Pick(s) \in s
  BY DEF Pick
<1>2. 0 \in Good
  <2>1. PICK G : G = [s \in SUBSET S |-> 0]
    OBVIOUS
  <2>2. ASSUME NEW s \in SUBSET S, Cardinality(s) <= 0
        PROVE  s = {}
    BY <2>2, CardinalityZero
  <2>3. Upto(G, 0)
    BY <2>1, <2>2
  <2>4. QED
    BY <2>3
<1>3. ASSUME NEW n \in Nat, n \in Good
      PROVE  n + 1 \in Good
  <2>1. PICK G : Upto(G, n)
    BY <1>3
  <2>2. PICK H : H = [s \in SUBSET S |-> IF Cardinality(s) <= n THEN G[s] ELSE Rec(G, s)]
    OBVIOUS
  <2>3. ASSUME NEW s \in SUBSET S, Cardinality(s) <= n + 1
        PROVE  H[s] = Rec(H, s)
    <3>1. H[s] = Rec(G, s)
      BY <2>1, <2>2
    <3>2. CASE s = {}
      BY <3>1, <3>2
    <3>3. CASE s # {}
      <4>1. PICK y \in s : y = Pick(s)
        BY <1>1, <3>3
      <4>2. s \ {y} \in SUBSET S /\ Cardinality(s \ {y}) <= n
        <5>1. /\ s \ {y} \in SUBSET S /\ Cardinality(s \ {y}) \in Nat
              /\ Cardinality(s) = Cardinality(s \ {y}) + 1
          BY PickOne, Zenon
        <5>2. QED
          BY <2>3, <5>1
      <4>3. H[s \ {y}] = G[s \ {y}]
        BY <2>2, <4>2
      <4>4. QED
        BY <3>1, <4>1, <4>3
    <3>4. QED
      BY <3>2, <3>3
  <2>4. Upto(H, n + 1)
    BY <2>3
  <2>5. \E K : Upto(K, n + 1)
    <3> HIDE DEF Upto
    <3>1. QED
      BY <2>4
  <2>6. n + 1 \in Nat
    OBVIOUS
  <2>7. QED
    <3> HIDE DEF Upto
    <3>1. QED
      BY <2>5, <2>6
<1>4. Nat \subseteq Good
  <2> HIDE DEF Good
  <2>1. QED
    BY <1>2, <1>3, U!NatSetInduction
<1>5. Cardinality(S) \in Nat
  BY FS_CardinalityType
<1>6. PICK G : Upto(G, Cardinality(S))
  BY <1>4, <1>5
<1>7. \A s \in SUBSET S : Cardinality(s) <= Cardinality(S)
  BY FS_Subset
<1>8. PICK H : H = [s \in SUBSET S |-> G[s]]
  OBVIOUS
<1>9. \A s \in SUBSET S : H[s] = Rec(G, s)
  BY <1>6, <1>7, <1>8
<1>10. \A s \in SUBSET S : H[s] = Rec(H, s)
  <2>1. ASSUME NEW s \in SUBSET S
        PROVE  H[s] = Rec(H, s)
    <3>1. s \ {Pick(s)} \in SUBSET S
      OBVIOUS
    <3>2. H[s \ {Pick(s)}] = G[s \ {Pick(s)}]
      BY <1>8, <3>1
    <3>3. QED
      BY <1>9, <3>2
  <2>2. QED
    BY <2>1
<1>11. H = [s \in SUBSET S |-> Rec(H, s)]
  BY <1>8, <1>10
<1>12. QED
  BY <1>11 DEF Sums

\* The sum does not depend on the element that is taken first.
LEMMA SumOrder ==
  ASSUME NEW S, IsFiniteSet(S), NEW f \in [S -> Nat], NEW G, Sums(G, f, S)
  PROVE  \A s \in SUBSET S : G[s] \in Nat /\ \A y \in s : G[s] = f[y] + G[s \ {y}]
<1> DEFINE Fine(s) == G[s] \in Nat /\ \A y \in s : G[s] = f[y] + G[s \ {y}]
           Good == {n \in Nat : \A s \in SUBSET S : Cardinality(s) <= n => Fine(s)}
<1>1. G[{}] = 0
  <2>1. {} \in SUBSET S
    OBVIOUS
  <2>2. QED
    BY <2>1 DEF Sums
<1>2. ASSUME NEW s \in SUBSET S, s # {}
      PROVE  \E x \in s : G[s] = f[x] + G[s \ {x}]
  <2>1. Pick(s) \in s
    BY <1>2 DEF Pick
  <2>2. G[s] = f[Pick(s)] + G[s \ {Pick(s)}]
    BY <1>2 DEF Sums
  <2>3. QED
    BY <2>1, <2>2
<1>3. 0 \in Good
  <2>1. ASSUME NEW s \in SUBSET S, Cardinality(s) <= 0
        PROVE  s = {}
    BY <2>1, CardinalityZero
  <2>2. QED
    BY <1>1, <2>1
<1>4. ASSUME NEW n \in Nat, n \in Good
      PROVE  n + 1 \in Good
  <2>1. ASSUME NEW s \in SUBSET S, Cardinality(s) <= n + 1, s # {}
        PROVE  Fine(s)
    <3>1. PICK x \in s : G[s] = f[x] + G[s \ {x}]
      BY <1>2, <2>1
    <3>2. \A y \in s : s \ {y} \in SUBSET S /\ Cardinality(s \ {y}) <= n
      <4>1. ASSUME NEW y \in s
            PROVE  s \ {y} \in SUBSET S /\ Cardinality(s \ {y}) <= n
        <5>1. /\ s \ {y} \in SUBSET S /\ Cardinality(s \ {y}) \in Nat
              /\ Cardinality(s) = Cardinality(s \ {y}) + 1
          BY PickOne, Zenon
        <5>2. QED
          BY <2>1, <5>1
      <4>2. QED
        BY <4>1
    <3>3. \A y \in s : Fine(s \ {y})
      BY <1>4, <3>2
    <3>4. \A y \in s : f[y] \in Nat /\ G[s \ {y}] \in Nat
      BY <3>3
    <3>5. ASSUME NEW y \in s, y # x
          PROVE  G[s] = f[y] + G[s \ {y}]
      <4>1. (s \ {x}) \ {y} = (s \ {y}) \ {x} /\ y \in s \ {x} /\ x \in s \ {y}
        BY <3>5
      <4>2. G[s \ {x}] = f[y] + G[(s \ {x}) \ {y}]
        BY <3>3, <4>1
      <4>3. G[s \ {y}] = f[x] + G[(s \ {x}) \ {y}]
        BY <3>3, <4>1
      <4>4. G[(s \ {x}) \ {y}] \in Nat
        <5>1. (s \ {x}) \ {y} \in SUBSET S /\ Cardinality((s \ {x}) \ {y}) <= n
          <6>1. PICK r \in SUBSET S : r = s \ {x} /\ Cardinality(r) <= n /\ y \in r
            BY <3>2, <4>1
          <6>2. /\ r \ {y} \in SUBSET S /\ Cardinality(r \ {y}) \in Nat
                /\ Cardinality(r) = Cardinality(r \ {y}) + 1
            <7>1. y \in r
              BY <6>1
            <7>2. QED
              BY <7>1, PickOne, Zenon
          <6>3. QED
            BY <6>1, <6>2
        <5>2. QED
          BY <1>4, <5>1
      <4>5. QED
        BY <3>1, <3>4, <4>2, <4>3, <4>4
    <3>6. G[s] \in Nat
      <4>1. PICK v \in Nat, w \in Nat : v = f[x] /\ w = G[s \ {x}]
        BY <3>4, Zenon
      <4>2. G[s] = v + w
        BY <3>1, <4>1, Zenon
      <4>3. QED
        BY <4>2
    <3>7. \A y \in s : G[s] = f[y] + G[s \ {y}]
      BY <3>1, <3>5
    <3>8. QED
      BY <3>6, <3>7
  <2>2. Fine({})
    BY <1>1
  <2>3. \A s \in SUBSET S : Cardinality(s) <= n + 1 => Fine(s)
    <3> HIDE DEF Fine
    <3>1. QED
      BY <2>1, <2>2
  <2>4. QED
    BY <2>3
<1>5. Nat \subseteq Good
  <2> HIDE DEF Good
  <2>1. QED
    BY <1>3, <1>4, U!NatSetInduction
<1>6. \A s \in SUBSET S : Cardinality(s) \in Nat
  BY FS_Subset, FS_CardinalityType
<1>7. QED
  <2>1. ASSUME NEW s \in SUBSET S PROVE Fine(s)
    <3>1. Cardinality(s) \in Nat /\ Cardinality(s) <= Cardinality(s)
      BY <1>6
    <3>2. QED
      BY <1>5, <3>1
  <2>2. QED
    BY <2>1

\* SumFunction is that function at the whole domain.
LEMMA SumFunctionIs ==
  ASSUME NEW f, IsFiniteSet(DOMAIN f)
  PROVE  \E G : Sums(G, f, DOMAIN f) /\ SumFunction(f) = G[DOMAIN f]
<1> DEFINE g == CHOOSE G : G = [s \in SUBSET DOMAIN f |->
                  IF s = {} THEN 0 ELSE f[Pick(s)] + G[s \ {Pick(s)}]]
<1>1. Sums(g, f, DOMAIN f)
  <2>1. PICK G : Sums(G, f, DOMAIN f)
    BY SumExists
  <2>2. \E H : H = [s \in SUBSET DOMAIN f |->
                      IF s = {} THEN 0 ELSE f[Pick(s)] + H[s \ {Pick(s)}]]
    BY <2>1 DEF Sums
  <2>3. QED
    BY <2>2, Zenon DEF Sums
<1>2. SumFunction(f) = g[DOMAIN f]
  BY DEF SumFunction, SumFunctionOnSet, FoldFunctionOnSet, MapThenFoldSet, Pick
<1>3. QED
  BY <1>1, <1>2

\* The sums of two functions that agree on a set are the same there.
LEMMA SumAgrees ==
  ASSUME NEW S, IsFiniteSet(S), NEW f, NEW G, Sums(G, f, S),
         NEW R \in SUBSET S, NEW g, NEW H, Sums(H, g, R), \A x \in R : g[x] = f[x]
  PROVE  H[R] = G[R]
<1> DEFINE Good == {n \in Nat : \A s \in SUBSET R : Cardinality(s) <= n => H[s] = G[s]}
<1>1. G[{}] = 0 /\ H[{}] = 0
  <2>1. {} \in SUBSET S /\ {} \in SUBSET R
    OBVIOUS
  <2>2. QED
    BY <2>1 DEF Sums
<1>2. IsFiniteSet(R)
  BY FS_Subset
<1>3. 0 \in Good
  <2>1. ASSUME NEW s \in SUBSET R, Cardinality(s) <= 0
        PROVE  s = {}
    BY <1>2, <2>1, CardinalityZero
  <2>2. QED
    BY <1>1, <2>1
<1>4. ASSUME NEW n \in Nat, n \in Good
      PROVE  n + 1 \in Good
  <2>1. ASSUME NEW s \in SUBSET R, Cardinality(s) <= n + 1, s # {}
        PROVE  H[s] = G[s]
    <3>1. PICK y \in s : y = Pick(s)
      BY <2>1 DEF Pick
    <3>2. s \ {y} \in SUBSET R /\ Cardinality(s \ {y}) <= n
      <4>1. /\ s \ {y} \in SUBSET R /\ Cardinality(s \ {y}) \in Nat
            /\ Cardinality(s) = Cardinality(s \ {y}) + 1
        BY <1>2, PickOne, Zenon
      <4>2. QED
        BY <2>1, <4>1
    <3>3. H[s \ {y}] = G[s \ {y}]
      BY <1>4, <3>2
    <3>4. H[s] = g[y] + H[s \ {y}]
      BY <2>1, <3>1 DEF Sums
    <3>5. s \in SUBSET S
      OBVIOUS
    <3>6. G[s] = f[y] + G[s \ {y}]
      BY <2>1, <3>1, <3>5 DEF Sums
    <3>7. QED
      BY <3>3, <3>4, <3>6
  <2>2. \A s \in SUBSET R : Cardinality(s) <= n + 1 => H[s] = G[s]
    BY <1>1, <2>1
  <2>3. QED
    BY <2>2
<1>5. Nat \subseteq Good
  <2> HIDE DEF Good
  <2>1. QED
    BY <1>3, <1>4, U!NatSetInduction
<1>6. Cardinality(R) \in Nat /\ Cardinality(R) <= Cardinality(R)
  BY <1>2, FS_CardinalityType
<1>7. QED
  BY <1>5, <1>6

\* The sum over a finite set is the value at any element and the sum over the
\* rest: what taking a resource out of the books changes.
THEOREM SumFunctionAdds ==
  ASSUME NEW S, IsFiniteSet(S), NEW f \in [S -> Nat], NEW x \in S,
         NEW g \in [S \ {x} -> Nat], \A y \in S \ {x} : g[y] = f[y]
  PROVE  /\ SumFunction(f) \in Nat /\ SumFunction(g) \in Nat
         /\ SumFunction(f) = f[x] + SumFunction(g)
<1>1. PICK R : R = S \ {x}
  OBVIOUS
<1>2. R \in SUBSET S /\ IsFiniteSet(R) /\ DOMAIN f = S /\ DOMAIN g = R
  BY <1>1, FS_Subset
<1>3. PICK F : Sums(F, f, S) /\ SumFunction(f) = F[S]
  BY <1>2, SumFunctionIs
<1>4. PICK G : Sums(G, g, R) /\ SumFunction(g) = G[R]
  BY <1>2, SumFunctionIs
<1>5. G[R] = F[R]
  BY <1>1, <1>2, <1>3, <1>4, SumAgrees
<1>6. S \in SUBSET S
  OBVIOUS
<1>7. F[S] \in Nat /\ F[R] \in Nat /\ F[S] = f[x] + F[S \ {x}]
  <2>1. \A s \in SUBSET S : F[s] \in Nat /\ \A y \in s : F[s] = f[y] + F[s \ {y}]
    BY <1>3, SumOrder
  <2>2. QED
    BY <1>2, <1>6, <2>1, Zenon
<1>8. QED
  BY <1>1, <1>3, <1>4, <1>5, <1>7

\* The sum of nothing is 0.
LEMMA SumFunctionEmpty ==
  ASSUME NEW f, DOMAIN f = {}
  PROVE  SumFunction(f) = 0
<1>1. IsFiniteSet(DOMAIN f)
  BY FS_EmptySet
<1>2. PICK G : Sums(G, f, DOMAIN f) /\ SumFunction(f) = G[DOMAIN f]
  BY <1>1, SumFunctionIs
<1>3. DOMAIN f \in SUBSET DOMAIN f
  OBVIOUS
<1>4. G[DOMAIN f] = 0
  BY <1>2, <1>3 DEF Sums
<1>5. QED
  BY <1>2, <1>4

-----------------------------------------------------------------------------
(***************************************************************************)
(* The books of the cache.                                                 *)
(***************************************************************************)
\* The bytes of a set of resources.
SumSize(S) == SumFunction([r \in S |-> Size[r]])

\* One resource less is its size less.
LEMMA SumSizeLess ==
  ASSUME NEW S, IsFiniteSet(S), S \subseteq Resources, NEW x \in S
  PROVE  /\ SumSize(S) \in Nat /\ SumSize(S \ {x}) \in Nat
         /\ SumSize(S) = Size[x] + SumSize(S \ {x})
<1>1. PICK f \in [S -> Nat], g \in [S \ {x} -> Nat] :
        f = [r \in S |-> Size[r]] /\ g = [r \in S \ {x} |-> Size[r]]
  <2>1. [r \in S |-> Size[r]] \in [S -> Nat] /\ [r \in S \ {x} |-> Size[r]] \in [S \ {x} -> Nat]
    BY CacheAssumption
  <2>2. QED
    BY <2>1, Zenon
<1>2. f[x] = Size[x]
  BY <1>1
<1>3. \A y \in S \ {x} : g[y] = f[y]
  BY <1>1
<1>4. /\ SumFunction(f) \in Nat /\ SumFunction(g) \in Nat
      /\ SumFunction(f) = f[x] + SumFunction(g)
  BY <1>3, SumFunctionAdds
<1>5. QED
  BY <1>1, <1>2, <1>4 DEF SumSize

\* No resources have no bytes.
LEMMA SumSizeEmpty == SumSize({}) = 0
<1>1. PICK f : f = [r \in {} |-> Size[r]]
  OBVIOUS
<1>2. DOMAIN f = {}
  BY <1>1
<1>3. SumFunction(f) = 0
  BY <1>2, SumFunctionEmpty
<1>4. QED
  BY <1>1, <1>3 DEF SumSize

\* A number of bytes is a natural number.
LEMMA SumSizeNat ==
  ASSUME NEW S, IsFiniteSet(S), S \subseteq Resources
  PROVE  SumSize(S) \in Nat
<1>1. CASE S = {}
  BY <1>1, SumSizeEmpty
<1>2. CASE S # {}
  BY <1>2, SumSizeLess
<1>3. QED
  BY <1>1, <1>2

-----------------------------------------------------------------------------
(***************************************************************************)
(* The cache and the allocator. a is the allocator, l the order of use, h  *)
(* the handle of each cached resource, m the handle of the memory manager. *)
(***************************************************************************)
\* What a byte of the heap may hold.
Tags == Resources \cup {Junk, VolatileTag}

\* The allocator is sound and the memory manager has its region at 0.
Owned(a, m) == Sound(a, Tags) /\ m \in DOMAIN a.reloc /\ a.reloc[m] = 0

\* The handle u leads to a region with the bytes of r.
HoldsIn(a, u, r) ==
  /\ a.reloc[u] \in DOMAIN a.purgable
  /\ a.purgable[a.reloc[u]] = Size[r]
  /\ \A i \in 0 .. Size[r] - 1 : a.mem[a.reloc[u] + i] = r

\* Each cached resource has a handle of its own, these and that of the memory
\* manager are all the handles there are, and each leads to the bytes of its
\* resource unless the allocator has purged them.
Records(a, l, h, m) ==
  /\ l \in Seq(Resources) /\ IsInjective(l)
  /\ DOMAIN h = Range(l) /\ IsInjective(h)
  /\ DOMAIN a.reloc = {m} \cup Range(h) /\ m \notin Range(h)
  /\ \A r \in Range(l) : a.reloc[h[r]] = Purged \/ HoldsIn(a, h[r], r)

\* A handle that leads to the same region holds what it held.
LEMMA HoldsKept ==
  ASSUME NEW a, NEW b, NEW u, NEW r, SameRegion(a, b, u), HoldsIn(a, u, r)
  PROVE  HoldsIn(b, u, r)
  BY DEF SameRegion, HoldsIn

\* A purged region stays purged.
LEMMA PurgedKept ==
  ASSUME NEW a, NEW b, NEW u, SameRegion(a, b, u), a.reloc[u] = Purged, Sound(a, Tags)
  PROVE  b.reloc[u] = Purged
<1>1. Purged \notin DOMAIN a.purgable
  BY HeapAssumption DEF Sound, Layout
<1>2. QED
  BY <1>1 DEF SameRegion

\* The memory manager keeps its region.
LEMMA OwnerKept ==
  ASSUME NEW a, NEW b, NEW m, Owned(a, m), Sound(b, Tags), m \in DOMAIN b.reloc,
         SameRegion(a, b, m)
  PROVE  Owned(b, m)
<1>1. 0 \notin DOMAIN a.purgable
  BY DEF Owned, Sound, Layout
<1>2. QED
  BY <1>1 DEF Owned, SameRegion

\* No resource has the handle of the memory manager.
LEMMA NotTheOwner ==
  ASSUME NEW a, NEW l, NEW h, NEW m, Owned(a, m), Records(a, l, h, m), NEW r \in Range(l)
  PROVE  h[r] \in DOMAIN a.reloc /\ h[r] # m /\ a.reloc[h[r]] # 0 /\ h[r] \in Range(h)
<1>1. h[r] \in Range(h)
  BY DEF Records, Range
<1>2. h[r] \in DOMAIN a.reloc /\ h[r] # m
  BY <1>1 DEF Records
<1>3. \A u \in DOMAIN a.reloc : a.reloc[u] = 0 => u = m
  <2>1. 0 # Purged
    BY HeapAssumption
  <2>2. QED
    BY <2>1 DEF Owned, Sound, Handles
<1>4. QED
  BY <1>1, <1>2, <1>3

\* Releasing a cached resource and dropping its record.
LEMMA ReleaseRecords ==
  ASSUME NEW a, NEW l, NEW h, NEW m, Owned(a, m), Records(a, l, h, m), NEW r \in Range(l)
  PROVE  LET b == ReleaseAllocation(a, h[r])
         IN  /\ Owned(b, m) /\ Kept(a, b)
             /\ Records(b, RemoveFirst(l, r), Erase(h, {r}), m)
<1>1. PICK u : u = h[r]
  OBVIOUS
<1>2. u \in DOMAIN a.reloc /\ u # m /\ a.reloc[u] # 0 /\ u \in Range(h)
  BY <1>1, NotTheOwner
<1>3. PICK b : b = ReleaseAllocation(a, u)
  OBVIOUS
<1>4. Sound(b, Tags) /\ Kept(a, b) /\ DOMAIN b.reloc = DOMAIN a.reloc \ {u}
  BY <1>2, <1>3, ReleaseSound DEF Owned
<1>5. \A v \in DOMAIN b.reloc : v \in DOMAIN a.reloc /\ SameRegion(a, b, v)
  BY <1>4 DEF Kept
<1>6. Owned(b, m)
  <2>1. m \in DOMAIN b.reloc
    BY <1>2, <1>4 DEF Owned
  <2>2. QED
    BY <1>4, <1>5, <2>1, OwnerKept
<1>7. PICK l2, h2 : l2 = RemoveFirst(l, r) /\ h2 = Erase(h, {r})
  OBVIOUS
<1>8. l2 \in Seq(Resources) /\ IsInjective(l2) /\ Range(l2) = Range(l) \ {r}
  BY <1>7, RemoveFirstEffect DEF Records
<1>9. DOMAIN h2 = DOMAIN h \ {r} /\ \A q \in DOMAIN h2 : h2[q] = h[q]
  BY <1>7 DEF Erase
<1>10. DOMAIN h2 = Range(l2) /\ IsInjective(h2)
  BY <1>8, <1>9 DEF Records, IsInjective
<1>11. Range(h2) = Range(h) \ {u}
  BY <1>1, <1>9 DEF Range, Records, IsInjective
<1>12. DOMAIN b.reloc = {m} \cup Range(h2) /\ m \notin Range(h2)
  BY <1>2, <1>4, <1>11 DEF Records
<1>13. ASSUME NEW q \in Range(l2)
       PROVE  b.reloc[h2[q]] = Purged \/ HoldsIn(b, h2[q], q)
  <2>1. q \in Range(l) /\ h2[q] = h[q] /\ h[q] \in DOMAIN b.reloc
    BY <1>8, <1>9, <1>10, <1>12 DEF Range
  <2>2. SameRegion(a, b, h[q])
    BY <1>5, <2>1
  <2>3. a.reloc[h[q]] = Purged \/ HoldsIn(a, h[q], q)
    BY <2>1 DEF Records
  <2>4. QED
    BY <2>1, <2>2, <2>3, HoldsKept, PurgedKept DEF Owned
<1>14. Records(b, l2, h2, m)
  BY <1>8, <1>10, <1>12, <1>13 DEF Records
<1>15. QED
  BY <1>1, <1>3, <1>4, <1>6, <1>7, <1>14

\* The records agree with an allocator that kept or purged each region.
LEMMA KeptRecords ==
  ASSUME NEW a, NEW l, NEW h, NEW m, Owned(a, m), Records(a, l, h, m),
         NEW b, Sound(b, Tags), DOMAIN b.reloc = DOMAIN a.reloc,
         \A v \in DOMAIN a.reloc : SameRegion(a, b, v)
             \/ (a.reloc[v] \in DOMAIN a.purgable /\ b.reloc[v] = Purged)
  PROVE  Owned(b, m) /\ Records(b, l, h, m)
<1>1. Owned(b, m)
  <2>1. 0 \notin DOMAIN a.purgable /\ m \in DOMAIN a.reloc /\ a.reloc[m] = 0
    BY DEF Owned, Sound, Layout
  <2>2. SameRegion(a, b, m)
    BY <2>1
  <2>3. QED
    BY <2>1, <2>2, OwnerKept
<1>2. ASSUME NEW q \in Range(l)
      PROVE  b.reloc[h[q]] = Purged \/ HoldsIn(b, h[q], q)
  <2>1. h[q] \in DOMAIN a.reloc
    BY NotTheOwner
  <2>2. a.reloc[h[q]] = Purged \/ HoldsIn(a, h[q], q)
    BY DEF Records
  <2>3. CASE SameRegion(a, b, h[q])
    BY <2>2, <2>3, HoldsKept, PurgedKept DEF Owned
  <2>4. CASE ~SameRegion(a, b, h[q])
    BY <2>1, <2>4
  <2>5. QED
    BY <2>3, <2>4
<1>3. QED
  BY <1>1, <1>2 DEF Records

\* An allocation that fails, after the compaction it may have done.
LEMMA AllocateFailRecords ==
  ASSUME NEW a, NEW l, NEW h, NEW m, Owned(a, m), Records(a, l, h, m),
         NEW size \in Nat \ {0}, Snug(a), ~AllocatePurgable(a, size).ok
  PROVE  LET b == AllocatePurgable(a, size).a
         IN  Owned(b, m) /\ Records(b, l, h, m) /\ Kept(a, b)
<1>1. PICK b : b = AllocatePurgable(a, size).a
  OBVIOUS
<1>2. Sound(b, Tags) /\ Kept(a, b) /\ DOMAIN b.reloc = DOMAIN a.reloc
  BY <1>1, AllocateSound DEF Owned
<1>3. \A v \in DOMAIN a.reloc : SameRegion(a, b, v)
  BY <1>2 DEF Kept
<1>4. Owned(b, m) /\ Records(b, l, h, m)
  BY <1>2, <1>3, KeptRecords
<1>5. QED
  BY <1>1, <1>2, <1>4

\* putCache fills the region it was given with the resource.
Filled(t, size, r) == [t.a EXCEPT !.mem = Fill(@, t.a.reloc[t.uid], size, r)]

\* An allocation that succeeds, the bytes of the resource and its new record.
LEMMA AllocateRecords ==
  ASSUME NEW a, NEW l, NEW h, NEW m, Owned(a, m), Records(a, l, h, m),
         NEW r \in Resources, r \notin Range(l), Snug(a), AllocatePurgable(a, Size[r]).ok
  PROVE  LET t == AllocatePurgable(a, Size[r])
             b == Filled(t, Size[r], r)
         IN  /\ Owned(b, m)
             /\ Records(b, Append(l, r), Insert(h, r, t.uid), m)
             /\ HoldsIn(b, Insert(h, r, t.uid)[r], r)
             /\ b.static = a.static
             /\ \A x \in 0 .. a.static[0] - 1 : b.mem[x] = a.mem[x]
<1>1. PICK size \in Nat \ {0} : size = Size[r]
  BY CacheAssumption
<1>2. PICK t : t = AllocatePurgable(a, size)
  OBVIOUS
<1>3. PICK c, u : c = t.a /\ u = t.uid
  OBVIOUS
<1>4. Sound(c, Tags) /\ Kept(a, c) /\ Allocated(a, t, size)
  BY <1>1, <1>2, <1>3, AllocateSound DEF Owned
<1>5. /\ u \notin DOMAIN a.reloc /\ DOMAIN c.reloc = DOMAIN a.reloc \cup {u}
      /\ c.reloc[u] \in DOMAIN c.purgable /\ c.purgable[c.reloc[u]] = size
  BY <1>3, <1>4 DEF Allocated
<1>6. PICK b : b = [c EXCEPT !.mem = Fill(@, c.reloc[u], size, r)]
  OBVIOUS
<1>7. /\ Sound(b, Tags) /\ b.static = c.static /\ b.reloc = c.reloc /\ b.purgable = c.purgable
      /\ \A v \in DOMAIN c.reloc \ {u} : SameRegion(c, b, v)
      /\ \A x \in 0 .. c.static[0] - 1 : b.mem[x] = c.mem[x]
      /\ \A i \in 0 .. size - 1 : b.mem[c.reloc[u] + i] = r
  <2>1. r \in Tags /\ u \in DOMAIN c.reloc
    BY <1>5 DEF Tags
  <2>2. b = [c EXCEPT !.mem = Fill(@, c.reloc[u], c.purgable[c.reloc[u]], r)]
    BY <1>5, <1>6, Zenon
  <2>3. /\ Sound(b, Tags) /\ b.static = c.static /\ b.reloc = c.reloc /\ b.purgable = c.purgable
        /\ \A v \in DOMAIN c.reloc \ {u} : SameRegion(c, b, v)
        /\ \A x \in 0 .. c.static[0] - 1 : b.mem[x] = c.mem[x]
        /\ \A i \in 0 .. c.purgable[c.reloc[u]] - 1 : b.mem[c.reloc[u] + i] = r
    BY <1>4, <1>5, <2>1, <2>2, FillRegion
  <2>4. QED
    BY <1>5, <2>3
<1>8. ASSUME NEW v \in DOMAIN a.reloc
      PROVE  /\ SameRegion(a, c, v) /\ SameRegion(c, b, v) /\ v # u
             /\ v \in DOMAIN b.reloc /\ v \in DOMAIN c.reloc
  BY <1>4, <1>5, <1>7 DEF Kept
<1>9. Owned(b, m)
  <2>1. m \in DOMAIN a.reloc
    BY DEF Owned
  <2>2. Owned(c, m)
    BY <1>4, <1>8, <2>1, OwnerKept
  <2>3. QED
    BY <1>7, <1>8, <2>1, <2>2, OwnerKept
<1>10. PICK l2, h2 : l2 = Append(l, r) /\ h2 = Insert(h, r, u)
  OBVIOUS
<1>11. l2 \in Seq(Resources) /\ IsInjective(l2) /\ Range(l2) = Range(l) \cup {r}
  BY <1>10, AppendEffect DEF Records
<1>12. DOMAIN h2 = DOMAIN h \cup {r} /\ h2[r] = u /\ \A q \in DOMAIN h : q # r /\ h2[q] = h[q]
  BY <1>10 DEF Insert, Records
<1>13. DOMAIN h2 = Range(l2)
  BY <1>11, <1>12 DEF Records
<1>14. \A q \in DOMAIN h : h[q] \in DOMAIN a.reloc /\ h[q] # u
  BY <1>5, NotTheOwner DEF Records
<1>15. IsInjective(h2)
  BY <1>12, <1>14 DEF Records, IsInjective
<1>16. Range(h2) = Range(h) \cup {u}
  BY <1>12 DEF Range
<1>17. DOMAIN b.reloc = {m} \cup Range(h2) /\ m \notin Range(h2)
  BY <1>5, <1>7, <1>16 DEF Records, Owned
<1>18. HoldsIn(b, u, r)
  BY <1>1, <1>5, <1>7 DEF HoldsIn
<1>19. ASSUME NEW q \in Range(l2)
       PROVE  b.reloc[h2[q]] = Purged \/ HoldsIn(b, h2[q], q)
  <2>1. CASE q = r
    BY <1>12, <1>18, <2>1
  <2>2. CASE q # r
    <3>1. q \in Range(l) /\ q \in DOMAIN h /\ h2[q] = h[q] /\ h[q] \in DOMAIN a.reloc
      BY <1>11, <1>12, <1>14, <2>2 DEF Records
    <3>2. SameRegion(a, c, h[q]) /\ SameRegion(c, b, h[q])
      BY <1>8, <3>1
    <3>3. a.reloc[h[q]] = Purged \/ HoldsIn(a, h[q], q)
      BY <3>1 DEF Records
    <3>4. c.reloc[h[q]] = Purged \/ HoldsIn(c, h[q], q)
      BY <3>2, <3>3, HoldsKept, PurgedKept DEF Owned
    <3>5. QED
      BY <1>4, <3>1, <3>2, <3>4, HoldsKept, PurgedKept
  <2>3. QED
    BY <2>1, <2>2
<1>20. Records(b, l2, h2, m)
  BY <1>11, <1>13, <1>15, <1>17, <1>19 DEF Records
<1>21. HoldsIn(b, h2[r], r)
  BY <1>12, <1>18
<1>22. b.static = a.static /\ \A x \in 0 .. a.static[0] - 1 : b.mem[x] = a.mem[x]
  BY <1>4, <1>7 DEF Kept
<1>23. b = Filled(t, size, r)
  BY <1>3, <1>6, Zenon DEF Filled
<1>24. QED
  BY <1>1, <1>2, <1>3, <1>9, <1>10, <1>20, <1>21, <1>22, <1>23

\* The loop of clear is the fold of the instance.
LEMMA ClearIsFold ==
  ASSUME NEW h, NEW a, NEW l
  PROVE  FoldLeft(LAMBDA x, r : ReleaseHandle(h, x, r), a, l) = C!Fold(h, a, l)
  BY DEF FoldLeft, MapThenFoldSet, Max, C!Fold, C!MapThenFoldSet, C!Greatest

\* f holds what the fold has made of the first n members of s, for every n.
ReleaseHistory(h, base, s, f) ==
  /\ f[0] = base
  /\ \A n \in 1 .. Len(s) : f[n] = ReleaseHandle(h, f[n - 1], s[n])
  /\ C!Fold(h, base, s) = f[Len(s)]

\* The history of that loop.
LEMMA ReleaseSteps ==
  ASSUME NEW h, NEW base, NEW S, NEW s \in Seq(S)
  PROVE  \E f : ReleaseHistory(h, base, s, f)
  BY C!FoldSteps DEF ReleaseHistory

\* The first n resources were released.
ClearedTo(a, b, l, h, m, n) ==
  /\ Owned(b, m) /\ b.static = a.static
  /\ \A x \in 0 .. a.static[0] - 1 : b.mem[x] = a.mem[x]
  /\ DOMAIN b.reloc = {m} \cup {h[l[i]] : i \in n + 1 .. Len(l)}

\* clear releases every resource and leaves only the memory manager's region.
LEMMA ClearRecords ==
  ASSUME NEW a, NEW l, NEW h, NEW m, Owned(a, m), Records(a, l, h, m),
         NEW b, b = C!Fold(h, a, l)
  PROVE  /\ Owned(b, m) /\ Records(b, <<>>, NoEntries, m)
         /\ b.static = a.static
         /\ \A x \in 0 .. a.static[0] - 1 : b.mem[x] = a.mem[x]
<1>1. l \in Seq(Resources)
  BY DEF Records
<1>2. PICK N \in Nat : N = Len(l) /\ DOMAIN l = 1 .. N
  BY <1>1
<1>4. PICK f : /\ f[0] = a
               /\ \A n \in 1 .. Len(l) : f[n] = ReleaseHandle(h, f[n - 1], l[n])
               /\ C!Fold(h, a, l) = f[Len(l)]
  <2>1. \E f : ReleaseHistory(h, a, l, f)
    BY <1>1, ReleaseSteps
  <2>2. QED
    BY <2>1 DEF ReleaseHistory
<1>5. \A i, j \in 1 .. N : h[l[i]] = h[l[j]] => i = j
  <2>1. \A i \in 1 .. N : l[i] \in DOMAIN h
    BY <1>2 DEF Records, Range
  <2>2. QED
    BY <1>2, <2>1 DEF Records, IsInjective
<1>6. \A i \in 1 .. N : h[l[i]] # m /\ h[l[i]] \in DOMAIN a.reloc
  <2>1. \A i \in 1 .. N : l[i] \in Range(l)
    BY <1>2 DEF Range
  <2>2. QED
    BY <2>1, NotTheOwner
<1> DEFINE Good == {n \in Nat : n <= N => ClearedTo(a, f[n], l, h, m, n)}
<1>7. 0 \in Good
  <2>1. 0 + 1 .. Len(l) = 1 .. N
    BY <1>2
  <2>2. Range(h) = {h[l[i]] : i \in 1 .. N}
    BY <1>2 DEF Records, Range
  <2>3. DOMAIN a.reloc = {m} \cup {h[l[i]] : i \in 0 + 1 .. Len(l)}
    BY <2>1, <2>2 DEF Records
  <2>4. ClearedTo(a, a, l, h, m, 0)
    BY <2>3 DEF ClearedTo
  <2>5. QED
    BY <1>4, <2>4
<1>8. ASSUME NEW n \in Nat, n \in Good
      PROVE  n + 1 \in Good
  <2>1. SUFFICES ASSUME n + 1 <= N
                 PROVE  ClearedTo(a, f[n + 1], l, h, m, n + 1)
    OBVIOUS
  <2>2. n + 1 \in 1 .. N /\ (n + 1) - 1 = n /\ n <= N
    BY <1>2, <2>1
  <2>3. PICK c, u : c = f[n] /\ u = h[l[n + 1]]
    OBVIOUS
  <2>4. ClearedTo(a, c, l, h, m, n)
    BY <1>8, <2>2, <2>3
  <2>5. f[n + 1] = ReleaseAllocation(c, u)
    BY <1>2, <1>4, <2>2, <2>3 DEF ReleaseHandle
  <2>6. Owned(c, m) /\ DOMAIN c.reloc = {m} \cup {h[l[i]] : i \in n + 1 .. N}
    BY <1>2, <2>4 DEF ClearedTo
  <2>7. u \in DOMAIN c.reloc /\ u # m
    <3>1. n + 1 \in n + 1 .. N
      BY <2>2
    <3>2. QED
      BY <1>6, <2>2, <2>3, <2>6, <3>1
  <2>8. c.reloc[u] # 0
    <3>1. 0 # Purged
      BY HeapAssumption
    <3>2. \A v \in DOMAIN c.reloc : c.reloc[v] = 0 => v = m
      BY <2>6, <3>1 DEF Owned, Sound, Handles
    <3>3. QED
      BY <2>7, <3>2
  <2>9. PICK d : d = ReleaseAllocation(c, u)
    OBVIOUS
  <2>10. Sound(d, Tags) /\ Kept(c, d) /\ DOMAIN d.reloc = DOMAIN c.reloc \ {u}
    BY <2>6, <2>7, <2>8, <2>9, ReleaseSound DEF Owned
  <2>11. Owned(d, m)
    <3>1. m \in DOMAIN d.reloc /\ m \in DOMAIN c.reloc
      BY <2>6, <2>7, <2>10 DEF Owned
    <3>2. SameRegion(c, d, m)
      BY <2>10, <3>1 DEF Kept
    <3>3. QED
      BY <2>6, <2>10, <3>1, <3>2, OwnerKept
  <2>12. {h[l[i]] : i \in n + 1 .. N} \ {u} = {h[l[i]] : i \in (n + 1) + 1 .. N}
    <3>1. \A i \in n + 1 .. N : i \in 1 .. N /\ (i = n + 1 \/ i \in (n + 1) + 1 .. N)
      OBVIOUS
    <3>2. \A i \in (n + 1) + 1 .. N : i \in n + 1 .. N /\ i # n + 1 /\ i \in 1 .. N
      OBVIOUS
    <3>3. \A i \in (n + 1) + 1 .. N : h[l[i]] # u
      BY <1>5, <2>2, <2>3, <3>2
    <3>4. QED
      BY <2>3, <3>1, <3>2, <3>3
  <2>13. DOMAIN d.reloc = {m} \cup {h[l[i]] : i \in (n + 1) + 1 .. N}
    BY <2>6, <2>7, <2>10, <2>12
  <2>14. d.static = a.static /\ \A x \in 0 .. a.static[0] - 1 : d.mem[x] = a.mem[x]
    BY <2>4, <2>10 DEF Kept, ClearedTo
  <2>15. ClearedTo(a, d, l, h, m, n + 1)
    BY <1>2, <2>11, <2>13, <2>14 DEF ClearedTo
  <2>16. QED
    BY <2>5, <2>9, <2>15
<1>9. Nat \subseteq Good
  <2> HIDE DEF Good
  <2>1. QED
    BY <1>7, <1>8, C!NatSetInduction
<1>10. ClearedTo(a, b, l, h, m, N)
  <2>1. N \in Good /\ N <= N
    BY <1>2, <1>9
  <2>2. ClearedTo(a, f[N], l, h, m, N)
    BY <2>1
  <2>3. QED
    BY <1>2, <1>4, <2>2
<1>11. DOMAIN b.reloc = {m}
  <2>1. N + 1 .. N = {}
    OBVIOUS
  <2>2. {h[l[i]] : i \in N + 1 .. N} = {}
    BY <2>1
  <2>3. QED
    BY <1>2, <1>10, <2>2 DEF ClearedTo
<1>12. PICK e : e = <<>>
  OBVIOUS
<1>13. e \in Seq(Resources) /\ DOMAIN e = {}
  BY <1>12
<1>14. IsInjective(e) /\ Range(e) = {} /\ IsInjective(NoEntries) /\ Range(NoEntries) = {}
       /\ DOMAIN NoEntries = {}
  BY <1>13 DEF IsInjective, Range, NoEntries
<1>15. Records(b, e, NoEntries, m)
  BY <1>11, <1>13, <1>14 DEF Records
<1>16. /\ Owned(b, m) /\ Records(b, <<>>, NoEntries, m)
       /\ b.static = a.static
       /\ \A x \in 0 .. a.static[0] - 1 : b.mem[x] = a.mem[x]
  BY <1>10, <1>12, <1>15 DEF ClearedTo
<1>17. QED
  BY <1>16

-----------------------------------------------------------------------------
(***************************************************************************)
(* The inductive invariant of the cache. HandlesIntact, BooksAgree and     *)
(* MissServed are about what a put leaves; that they hold in the middle of *)
(* one, while resources are evicted, half of the cache is thrown out and   *)
(* the allocator compacts, needs the rest.                                 *)
(***************************************************************************)
HeapInv == Owned(heap, mMemory)

RecordsInv == Records(heap, lru, handle, mMemory)

\* mMemoryUse is the size of what is cached. In a build with assertions what
\* evictLeastRecentlyUsed still wants is enough to make room below the limit,
\* and when it is done there is room, even if the cache has run empty first.
UseInv ==
  /\ mMemoryUse = SumSize(Range(lru))
  /\ ~ndebug =>
       /\ mMemoryUse <= MemoryLimit
       /\ phase = "evict" => mMemoryUse - want <= MemoryLimit - Size[Head(todo)]
       /\ phase = "allocate" => mMemoryUse <= MemoryLimit - Size[Head(todo)]

\* What is still to be put is not cached and has no repetitions; the missed
\* resource comes last, and an eviction always finds something to evict.
TodoInv ==
  /\ todo \in Seq(Resources) /\ IsInjective(todo) /\ Range(todo) \cap Range(lru) = {}
  /\ phase = "idle" => todo = <<>>
  /\ phase \in {"put", "evict", "allocate"} =>
       loading \in Resources /\ (todo # <<>> => todo[Len(todo)] = loading)
  /\ phase \in {"evict", "allocate"} => todo # <<>> /\ Size[Head(todo)] <= MemoryLimit
  /\ phase = "evict" => lru # <<>>

\* When everything was put the missed resource is there.
ServedInv ==
  phase = "put" /\ todo = <<>> /\ Size[loading] <= MemoryLimit =>
    loading \in Range(lru) /\ HoldsIn(heap, handle[loading], loading)

\* Types of the rest.
ControlInv ==
  /\ ndebug \in BOOLEAN
  /\ list \in Seq(Resources) /\ IsInjective(list)
  /\ phase \in {"idle", "put", "evict", "allocate", "crashed", "aborted"}
  /\ loading \in Resources \cup {None}
  /\ want \in Nat

IInv == HeapInv /\ RecordsInv /\ UseInv /\ TodoInv /\ ServedInv /\ ControlInv

\* What holds once growth of volatile memory past the head has spoiled the heap:
\* the model has ended and the rest has its types.
Spoiled ==
  /\ phase = "corrupt"
  /\ ndebug \in BOOLEAN /\ loading \in Resources \cup {None} /\ want \in Nat
  /\ mMemoryUse \in Nat
  /\ Range(list) \subseteq Resources /\ Range(todo) \subseteq Resources

-----------------------------------------------------------------------------
(***************************************************************************)
(* The invariant is inductive: one lemma for each action.                  *)
(***************************************************************************)
\* The empty list.
LEMMA EmptyList ==
  ASSUME NEW S
  PROVE  <<>> \in Seq(S) /\ IsInjective(<<>>) /\ Range(<<>>) = {}
<1>1. PICK e : e = <<>>
  OBVIOUS
<1>2. e \in Seq(S) /\ DOMAIN e = {}
  BY <1>1
<1>3. IsInjective(e) /\ Range(e) = {}
  BY <1>2 DEF IsInjective, Range
<1>4. QED
  BY <1>1, <1>2, <1>3

\* The memory manager and the cache are created.
LEMMA InitInv == Init => IInv
<1>1. SUFFICES ASSUME Init PROVE IInv
  OBVIOUS
<1>2. PICK t : t = AllocateStatic(Create, 1)
  OBVIOUS
<1>3. Sound(t.a, Tags) /\ DOMAIN t.a.reloc = {t.uid} /\ t.a.reloc[t.uid] = 0
  BY <1>2, BootSound DEF Tags
<1>4. heap = t.a /\ mMemory = t.uid
  BY <1>1, <1>2, Zenon DEF Init
<1>5. /\ ndebug \in NDebugs /\ lru = <<>> /\ handle = NoEntries /\ mMemoryUse = 0
      /\ list = <<>> /\ phase = "idle" /\ loading = None /\ todo = <<>> /\ want = 0
  BY <1>1 DEF Init
<1>6. HeapInv
  BY <1>3, <1>4 DEF HeapInv, Owned
<1>7. lru \in Seq(Resources) /\ IsInjective(lru) /\ Range(lru) = {}
  BY <1>5, EmptyList
<1>8. RecordsInv
  <2>1. DOMAIN handle = {} /\ Range(handle) = {} /\ IsInjective(handle)
    BY <1>5 DEF NoEntries, Range, IsInjective
  <2>2. QED
    BY <1>3, <1>4, <1>7, <2>1 DEF RecordsInv, Records
<1>9. UseInv
  BY <1>5, <1>7, SumSizeEmpty, HeapAssumption DEF UseInv, MemoryLimit
<1>10. TodoInv /\ ServedInv
  BY <1>5, <1>7, EmptyList DEF TodoInv, ServedInv
<1>11. ControlInv
  BY <1>5, EmptyList, CacheAssumption DEF ControlInv
<1>12. QED
  BY <1>6, <1>8, <1>9, <1>10, <1>11 DEF IInv

\* The use of the cache is a number of bytes.
LEMMA UseNat ==
  ASSUME IInv
  PROVE  mMemoryUse \in Nat /\ IsFiniteSet(Range(lru)) /\ Range(lru) \subseteq Resources
<1>1. lru \in Seq(Resources)
  BY DEF IInv, RecordsInv, Records
<1>2. IsFiniteSet(Range(lru)) /\ Range(lru) \subseteq Resources
  BY <1>1, RangeFinite
<1>3. QED
  BY <1>2, SumSizeNat DEF IInv, UseInv

\* What is left of the types when a step spoils the heap.
LEMMA SpoiledTypes ==
  ASSUME IInv, phase' = "corrupt", UNCHANGED <<ndebug, list, loading, want>>,
         mMemoryUse' \in Nat, todo' = todo \/ Range(todo') \subseteq Range(todo)
  PROVE  Spoiled'
<1>1. Range(list) \subseteq Resources /\ Range(todo) \subseteq Resources
  BY RangeFinite DEF IInv, ControlInv, TodoInv
<1>2. QED
  BY <1>1 DEF IInv, ControlInv, Spoiled

\* A replay resizes volatile memory; no byte is written, if it meets no region.
LEMMA SetVolatileMemoryInv ==
  ASSUME IInv, NEW size \in VolatileSizes, SetVolatileMemory(size),
         size > HeapSize \/ heap.head = 0 \/ \A o \in DOMAIN heap.purgable : size <= o
  PROVE  IInv' /\ heap'.mem = heap.mem
<1>1. size \in Nat \ {0}
  BY CacheAssumption
<1>2. Owned(heap, mMemory) /\ Records(heap, lru, handle, mMemory)
  BY DEF IInv, HeapInv, RecordsInv
<1>3. PICK b : b = ResizeStaticAllocation(heap, mMemory, size).a
  OBVIOUS
<1>4. Sound(b, Tags) /\ Resized(heap, b)
  BY <1>1, <1>2, <1>3, ResizeSound DEF Owned
<1>5. Owned(b, mMemory) /\ Records(b, lru, handle, mMemory) /\ b.mem = heap.mem
  BY <1>2, <1>4, KeptRecords DEF Resized
<1>6. heap' = b /\ phase = "idle"
  BY <1>3 DEF SetVolatileMemory
<1>7. UNCHANGED <<ndebug, mMemory, lru, handle, mMemoryUse, list, phase, loading, todo, want>>
  <2>1. RegionsDisjoint(heap')
    BY <1>4, <1>6, LayoutDisjoint
  <2>2. phase' = "idle"
    BY <2>1, Zenon DEF SetVolatileMemory, Unless
  <2>3. QED
    BY <1>6, <2>2 DEF SetVolatileMemory, cache
<1>8. HeapInv' /\ RecordsInv'
  BY <1>5, <1>6, <1>7 DEF HeapInv, RecordsInv
<1>9. UseInv' /\ TodoInv' /\ ServedInv' /\ ControlInv'
  BY <1>6, <1>7 DEF IInv, UseInv, TodoInv, ServedInv, ControlInv, MemoryLimit
<1>10. QED
  BY <1>5, <1>6, <1>8, <1>9 DEF IInv

\* If it meets a region, the heap is spoiled: the region is moved into the new
\* volatile memory, or out of the heap.
LEMMA SetVolatileMemorySpoils ==
  ASSUME IInv, NEW size \in VolatileSizes, SetVolatileMemory(size),
         size <= HeapSize, heap.head # 0, NEW x \in DOMAIN heap.purgable, ~(size <= x)
  PROVE  Spoiled' /\ GrowsPastHead
<1>1. size \in 1 .. HeapSize
  BY CacheAssumption, HeapAssumption
<1>2. Owned(heap, mMemory)
  BY DEF IInv, HeapInv
<1>3. /\ heap.head \in Nat /\ x \in Nat /\ heap.head <= x
  BY <1>2 DEF Owned, Sound, Layout
<1>4. x < size /\ 0 < heap.head /\ heap.head < size
  BY <1>1, <1>3
<1>5. PICK b : b = ResizeStaticAllocation(heap, mMemory, size).a
  OBVIOUS
<1>6. ~RegionsDisjoint(b)
  BY <1>1, <1>2, <1>4, <1>5, ResizeSpoils DEF Owned
<1>7. heap' = b
  BY <1>5 DEF SetVolatileMemory
<1>8. ~RegionsDisjoint(heap')
  BY <1>6, <1>7
<1>9. phase' = "corrupt"
  BY <1>8, Zenon DEF SetVolatileMemory, Unless
<1>10. UNCHANGED <<ndebug, mMemoryUse, list, loading, todo, want>>
  BY DEF SetVolatileMemory, cache
<1>11. Spoiled'
  BY <1>9, <1>10, UseNat, SpoiledTypes
<1>12. QED
  BY <1>4, <1>11 DEF GrowsPastHead

\* A replay stores to its volatile memory.
LEMMA StoreVolatileInv ==
  ASSUME IInv, StoreVolatile
  PROVE  /\ IInv'
         /\ \A x \in 0 .. HeapSize - 1 : heap'.mem[x] \in {heap.mem[x], VolatileTag}
<1>1. Owned(heap, mMemory) /\ Records(heap, lru, handle, mMemory)
  BY DEF IInv, HeapInv, RecordsInv
<1>2. PICK b : b = [heap EXCEPT !.mem = Fill(@, 0, heap.static[0], VolatileTag)]
  OBVIOUS
<1>3. /\ Sound(b, Tags) /\ b.reloc = heap.reloc
      /\ \A u \in DOMAIN heap.reloc : SameRegion(heap, b, u)
      /\ \A x \in 0 .. HeapSize - 1 : b.mem[x] \in {VolatileTag, heap.mem[x]}
  BY <1>1, <1>2, FillVolatile DEF Owned, Tags
<1>4. Owned(b, mMemory) /\ Records(b, lru, handle, mMemory)
  BY <1>1, <1>3, KeptRecords
<1>5. heap' = b
  <2>1. heap.reloc[mMemory] = 0
    BY <1>1 DEF Owned
  <2>2. QED
    BY <1>2, <2>1, Zenon DEF StoreVolatile, VolatileSize
<1>6. /\ phase = "idle"
      /\ UNCHANGED <<ndebug, mMemory, lru, handle, mMemoryUse, list, phase, loading, todo, want>>
  BY DEF StoreVolatile, cache, put
<1>7. HeapInv' /\ RecordsInv'
  BY <1>4, <1>5, <1>6 DEF HeapInv, RecordsInv
<1>8. UseInv' /\ TodoInv' /\ ServedInv' /\ ControlInv'
  BY <1>6 DEF IInv, UseInv, TodoInv, ServedInv, ControlInv
<1>9. QED
  BY <1>3, <1>5, <1>7, <1>8 DEF IInv

\* A replay lists its resources.
LEMMA SetPrefetchInv ==
  ASSUME IInv, NEW resources \in Lists, SetPrefetch(resources)
  PROVE  IInv' /\ UNCHANGED <<heap, mMemory>>
<1>1. /\ list' = resources /\ phase = "idle"
      /\ UNCHANGED <<ndebug, heap, mMemory, lru, handle, mMemoryUse, phase, loading, todo, want>>
  BY DEF SetPrefetch, cache, put
<1>2. HeapInv' /\ RecordsInv'
  BY <1>1 DEF IInv, HeapInv, RecordsInv
<1>3. UseInv' /\ TodoInv' /\ ServedInv'
  BY <1>1 DEF IInv, UseInv, TodoInv, ServedInv
<1>4. ControlInv'
  BY <1>1, CacheAssumption DEF IInv, ControlInv
<1>5. QED
  BY <1>1, <1>2, <1>3, <1>4 DEF IInv

\* A hit only changes the order of use.
LEMMA LoadHitInv ==
  ASSUME IInv, NEW r, LoadHit(r)
  PROVE  IInv' /\ UNCHANGED <<heap, mMemory>>
<1>1. /\ phase = "idle" /\ r \in Range(lru) /\ lru' = Append(RemoveFirst(lru, r), r)
      /\ UNCHANGED <<ndebug, heap, mMemory, handle, mMemoryUse, list, phase, loading, todo, want>>
  BY DEF LoadHit, Cached, put
<1>2. Owned(heap, mMemory) /\ Records(heap, lru, handle, mMemory)
  BY DEF IInv, HeapInv, RecordsInv
<1>3. lru \in Seq(Resources) /\ IsInjective(lru) /\ r \in Resources
  BY <1>1, <1>2, RangeFinite DEF Records
<1>4. PICK l : l = RemoveFirst(lru, r)
  OBVIOUS
<1>5. l \in Seq(Resources) /\ IsInjective(l) /\ Range(l) = Range(lru) \ {r}
  BY <1>1, <1>3, <1>4, RemoveFirstEffect
<1>6. lru' \in Seq(Resources) /\ IsInjective(lru') /\ Range(lru') = Range(lru)
  <2>1. r \notin Range(l)
    BY <1>5
  <2>2. /\ Append(l, r) \in Seq(Resources) /\ IsInjective(Append(l, r))
        /\ Range(Append(l, r)) = Range(l) \cup {r}
    BY <1>3, <1>5, <2>1, AppendEffect
  <2>3. QED
    BY <1>1, <1>4, <1>5, <2>2
<1>7. HeapInv'
  BY <1>1, <1>2 DEF HeapInv
<1>8. RecordsInv'
  BY <1>1, <1>2, <1>6 DEF RecordsInv, Records
<1>9. UseInv' /\ TodoInv' /\ ServedInv' /\ ControlInv'
  BY <1>1, <1>6 DEF IInv, UseInv, TodoInv, ServedInv, ControlInv
<1>10. QED
  BY <1>1, <1>7, <1>8, <1>9 DEF IInv

\* evictLeastRecentlyUsed and loadCache drop a resource: allocator, index and
\* books together.
LEMMA UncacheEffect ==
  ASSUME IInv, NEW r \in Range(lru), Uncache(r), mMemory' = mMemory
  PROVE  /\ Owned(heap', mMemory') /\ Records(heap', lru', handle', mMemory')
         /\ Kept(heap, heap')
         /\ Range(lru') = Range(lru) \ {r} /\ Len(lru') = Len(lru) - 1
         /\ mMemoryUse' = SumSize(Range(lru')) /\ mMemoryUse' \in Nat
         /\ mMemoryUse' = mMemoryUse - Size[r] /\ Size[r] \in Nat
<1>1. /\ heap' = ReleaseAllocation(heap, handle[r])
      /\ lru' = RemoveFirst(lru, r)
      /\ handle' = Erase(handle, {r})
      /\ mMemoryUse' = mMemoryUse - Size[r]
  BY DEF Uncache
<1>2. Owned(heap, mMemory) /\ Records(heap, lru, handle, mMemory)
  BY DEF IInv, HeapInv, RecordsInv
<1>3. PICK b : b = ReleaseAllocation(heap, handle[r])
  OBVIOUS
<1>4. /\ Owned(b, mMemory) /\ Kept(heap, b)
      /\ Records(b, RemoveFirst(lru, r), Erase(handle, {r}), mMemory)
  BY <1>2, <1>3, ReleaseRecords
<1>5. Range(lru') = Range(lru) \ {r} /\ Len(lru') = Len(lru) - 1
  <2>1. lru \in Seq(Resources) /\ IsInjective(lru)
    BY <1>2 DEF Records
  <2>2. QED
    BY <1>1, <2>1, RemoveFirstEffect
<1>6. /\ SumSize(Range(lru)) \in Nat /\ SumSize(Range(lru) \ {r}) \in Nat
      /\ SumSize(Range(lru)) = Size[r] + SumSize(Range(lru) \ {r}) /\ Size[r] \in Nat
  <2>1. IsFiniteSet(Range(lru)) /\ Range(lru) \subseteq Resources
    BY UseNat
  <2>2. QED
    BY <2>1, SumSizeLess, CacheAssumption
<1>7. mMemoryUse = SumSize(Range(lru))
  BY DEF IInv, UseInv
<1>8. mMemoryUse' = SumSize(Range(lru')) /\ mMemoryUse' \in Nat
  BY <1>1, <1>5, <1>6, <1>7
<1>9. QED
  BY <1>1, <1>3, <1>4, <1>5, <1>6, <1>8

\* A miss drops a purged record and lists what is to be fetched.
LEMMA LoadMissInv ==
  ASSUME IInv, NEW r \in Range(list), LoadMiss(r)
  PROVE  IInv' /\ mMemory' = mMemory /\ Kept(heap, heap')
<1>1. Owned(heap, mMemory) /\ Records(heap, lru, handle, mMemory) /\ r \in Resources
  <2>1. list \in Seq(Resources)
    BY DEF IInv, ControlInv
  <2>2. QED
    BY <2>1, RangeFinite DEF IInv, HeapInv, RecordsInv
<1>2. /\ loading' = r /\ phase' = "put" /\ phase = "idle"
      /\ UNCHANGED <<ndebug, mMemory, list, want>>
  BY DEF LoadMiss, Miss
<1>3. PICK prefetch : todo' = Uncached(Append(Anticipated(r, prefetch), r), Range(lru'))
  BY DEF LoadMiss, Miss
<1>4. /\ Owned(heap', mMemory') /\ Records(heap', lru', handle', mMemory')
      /\ Kept(heap, heap') /\ r \notin Range(lru')
      /\ mMemoryUse' = SumSize(Range(lru'))
      /\ mMemoryUse' <= mMemoryUse
  <2>1. CASE r \in Range(lru)
    <3>1. Uncache(r)
      BY <2>1 DEF LoadMiss, Cached
    <3>2. mMemoryUse \in Nat
      BY UseNat
    <3>3. QED
      BY <1>2, <2>1, <3>1, <3>2, UncacheEffect
  <2>2. CASE r \notin Range(lru)
    <3>1. UNCHANGED <<heap, lru, handle, mMemoryUse>>
      BY <2>2 DEF LoadMiss, Cached, cache
    <3>2. mMemoryUse \in Nat /\ mMemoryUse = SumSize(Range(lru))
      BY UseNat DEF IInv, UseInv
    <3>3. Kept(heap, heap')
      BY <3>1, KeptReflexive
    <3>4. mMemoryUse' <= mMemoryUse
      BY <3>1, <3>2
    <3>5. QED
      BY <1>1, <1>2, <2>2, <3>1, <3>2, <3>3, <3>4
  <2>3. QED
    BY <2>1, <2>2
<1>5. HeapInv' /\ RecordsInv'
  BY <1>4 DEF HeapInv, RecordsInv
<1>6. PICK s, c : s = Append(Anticipated(r, prefetch), r) /\ c = Range(lru')
  OBVIOUS
<1>7. s \in Seq(Resources) /\ IsInjective(s) /\ s # <<>> /\ s[Len(s)] = r
  <2>1. list \in Seq(Resources) /\ IsInjective(list)
    BY DEF IInv, ControlInv
  <2>2. QED
    BY <1>6, <2>1, AnticipatedEffect
<1>8. todo' = Uncached(s, c)
  BY <1>3, <1>6
<1>9. /\ todo' \in Seq(Resources) /\ IsInjective(todo') /\ Range(todo') = Range(s) \ c
      /\ todo' # <<>> /\ todo'[Len(todo')] = r
  <2>1. s[Len(s)] \notin c
    BY <1>4, <1>6, <1>7
  <2>2. PICK t : t = Uncached(s, c)
    OBVIOUS
  <2>3. /\ t \in Seq(Resources) /\ IsInjective(t) /\ Range(t) = Range(s) \ c
        /\ s # <<>> /\ s[Len(s)] \notin c => t # <<>> /\ t[Len(t)] = s[Len(s)]
    BY <1>7, <2>2, UncachedEffect
  <2>4. QED
    BY <1>7, <1>8, <2>1, <2>2, <2>3
<1>10. TodoInv'
  BY <1>1, <1>2, <1>6, <1>9 DEF TodoInv
<1>11. ServedInv'
  BY <1>9 DEF ServedInv
<1>12. UseInv'
  <2>1. mMemoryUse \in Nat /\ MemoryLimit \in Nat /\ mMemoryUse' \in Nat
    <3>1. lru' \in Seq(Resources)
      BY <1>4 DEF Records
    <3>2. QED
      BY <1>4, <3>1, UseNat, RangeFinite, SumSizeNat, HeapAssumption DEF MemoryLimit
  <2>2. ~ndebug => mMemoryUse <= MemoryLimit
    BY DEF IInv, UseInv
  <2>3. QED
    BY <1>2, <1>4, <2>1, <2>2 DEF UseInv, MemoryLimit
<1>13. ControlInv'
  BY <1>1, <1>2 DEF IInv, ControlInv
<1>14. QED
  BY <1>2, <1>4, <1>5, <1>10, <1>11, <1>12, <1>13 DEF IInv

\* A failed fetch stops the process.
LEMMA FetchLostInv ==
  ASSUME IInv, FetchLost
  PROVE  IInv' /\ UNCHANGED <<heap, mMemory>>
<1>1. /\ phase' = "crashed"
      /\ UNCHANGED <<ndebug, heap, mMemory, lru, handle, mMemoryUse, list, loading, todo, want>>
  BY DEF FetchLost, cache
<1>2. HeapInv' /\ RecordsInv'
  BY <1>1 DEF IInv, HeapInv, RecordsInv
<1>3. UseInv' /\ TodoInv' /\ ServedInv' /\ ControlInv'
  BY <1>1 DEF IInv, UseInv, TodoInv, ServedInv, ControlInv, MemoryLimit
<1>4. QED
  BY <1>1, <1>2, <1>3 DEF IInv

\* putCache skips a resource that is too large, or has to evict, or not.
LEMMA PutBeginInv ==
  ASSUME IInv, PutBegin
  PROVE  IInv' /\ UNCHANGED <<heap, mMemory>>
<1>1. /\ phase = "put" /\ todo # <<>>
      /\ UNCHANGED <<ndebug, heap, mMemory, lru, handle, mMemoryUse, list, loading>>
  BY DEF PutBegin, cache
<1>2. HeapInv' /\ RecordsInv'
  BY <1>1 DEF IInv, HeapInv, RecordsInv
<1>3. /\ todo \in Seq(Resources) /\ IsInjective(todo) /\ Range(todo) \cap Range(lru) = {}
      /\ loading \in Resources /\ todo[Len(todo)] = loading
  BY <1>1 DEF IInv, TodoInv
<1>4. /\ Head(todo) \in Resources
      /\ Tail(todo) \in Seq(Resources) /\ IsInjective(Tail(todo))
      /\ Range(Tail(todo)) = Range(todo) \ {Head(todo)}
      /\ Tail(todo) # <<>> => Tail(todo)[Len(Tail(todo))] = loading
      /\ Tail(todo) = <<>> => loading = Head(todo)
  BY <1>1, <1>3, TailEffect
<1>5. mMemoryUse \in Nat /\ MemoryLimit \in Nat /\ Size[Head(todo)] \in Nat \ {0} /\ want \in Nat
  BY <1>4, UseNat, HeapAssumption, CacheAssumption DEF IInv, ControlInv, MemoryLimit
<1>6. /\ mMemoryUse = SumSize(Range(lru))
      /\ ~ndebug => mMemoryUse <= MemoryLimit
  BY DEF IInv, UseInv
<1>7. CASE Size[Head(todo)] > MemoryLimit
  <2>1. todo' = Tail(todo) /\ phase' = "put" /\ want' = want
    BY <1>1, <1>5, <1>7 DEF PutBegin
  <2>2. TodoInv'
    BY <1>1, <1>3, <1>4, <2>1 DEF TodoInv
  <2>3. ServedInv'
    BY <1>1, <1>4, <1>5, <1>7, <2>1 DEF ServedInv, MemoryLimit
  <2>4. UseInv'
    BY <1>1, <1>6, <2>1 DEF UseInv, MemoryLimit
  <2>5. ControlInv'
    BY <1>1, <2>1 DEF IInv, ControlInv
  <2>6. QED
    BY <1>1, <1>2, <2>2, <2>3, <2>4, <2>5 DEF IInv
<1>8. CASE /\ Size[Head(todo)] <= MemoryLimit
           /\ mMemoryUse > MemoryLimit - Size[Head(todo)] /\ ~ndebug
  <2>1. /\ todo' = todo /\ phase' = "evict"
        /\ want' = mMemoryUse - (MemoryLimit - Size[Head(todo)]) /\ want' \in Nat
    BY <1>5, <1>8 DEF PutBegin
  <2>2. lru # <<>>
    <3>1. SUFFICES ASSUME lru = <<>> PROVE FALSE
      OBVIOUS
    <3>2. mMemoryUse = 0
      BY <1>6, <3>1, EmptyList, SumSizeEmpty
    <3>3. QED
      BY <1>5, <1>8, <3>2
  <2>3. TodoInv'
    BY <1>1, <1>3, <1>8, <2>1, <2>2 DEF TodoInv, MemoryLimit
  <2>4. ServedInv' /\ ControlInv'
    BY <1>1, <2>1 DEF IInv, ServedInv, ControlInv
  <2>5. mMemoryUse' - want' <= MemoryLimit - Size[Head(todo')]
    <3>1. PICK u \in Nat, k \in Nat, z \in Nat :
            u = mMemoryUse /\ k = MemoryLimit /\ z = Size[Head(todo)]
      BY <1>5
    <3>2. mMemoryUse' = u /\ Size[Head(todo')] = z /\ want' = u - (k - z)
      BY <1>1, <2>1, <3>1
    <3>3. u - (u - (k - z)) <= k - z
      OBVIOUS
    <3>4. QED
      BY <3>1, <3>2, <3>3
  <2>6. UseInv'
    BY <1>1, <1>6, <2>1, <2>5 DEF UseInv, MemoryLimit
  <2>7. QED
    BY <1>1, <1>2, <2>3, <2>4, <2>6 DEF IInv
<1>9. CASE /\ Size[Head(todo)] <= MemoryLimit
           /\ ~(mMemoryUse > MemoryLimit - Size[Head(todo)] /\ ~ndebug)
  <2>1. todo' = todo /\ phase' = "allocate" /\ want' = want
    BY <1>5, <1>9 DEF PutBegin
  <2>2. TodoInv'
    BY <1>1, <1>3, <1>9, <2>1 DEF TodoInv, MemoryLimit
  <2>3. ServedInv' /\ ControlInv'
    BY <1>1, <2>1 DEF IInv, ServedInv, ControlInv
  <2>4. ~ndebug => mMemoryUse <= MemoryLimit - Size[Head(todo)]
    BY <1>5, <1>9
  <2>5. UseInv'
    BY <1>1, <1>6, <2>1, <2>4 DEF UseInv, MemoryLimit
  <2>6. QED
    BY <1>1, <1>2, <2>2, <2>3, <2>5 DEF IInv
<1>10. QED
  BY <1>5, <1>7, <1>8, <1>9

\* One turn of evictLeastRecentlyUsed.
LEMMA EvictInv ==
  ASSUME IInv, Evict
  PROVE  IInv' /\ mMemory' = mMemory /\ Kept(heap, heap')
<1>1. PICK r : r = Head(lru)
  OBVIOUS
<1>2. /\ phase = "evict" /\ Uncache(r)
      /\ want' = IF want > Size[r] THEN want - Size[r] ELSE 0
      /\ phase' = IF want > Size[r] /\ Len(lru) > 1 THEN "evict" ELSE "allocate"
      /\ UNCHANGED <<ndebug, mMemory, list, loading, todo>>
  BY <1>1 DEF Evict
<1>3. /\ todo \in Seq(Resources) /\ IsInjective(todo) /\ Range(todo) \cap Range(lru) = {}
      /\ loading \in Resources /\ todo # <<>> /\ todo[Len(todo)] = loading
      /\ Size[Head(todo)] <= MemoryLimit /\ lru # <<>>
  BY <1>2 DEF IInv, TodoInv
<1>4. r \in Range(lru) /\ lru \in Seq(Resources)
  BY <1>1, <1>3, TailEffect DEF IInv, RecordsInv, Records
<1>5. /\ Owned(heap', mMemory') /\ Records(heap', lru', handle', mMemory')
      /\ Kept(heap, heap')
      /\ Range(lru') = Range(lru) \ {r} /\ Len(lru') = Len(lru) - 1
      /\ mMemoryUse' = SumSize(Range(lru')) /\ mMemoryUse' \in Nat
      /\ mMemoryUse' = mMemoryUse - Size[r] /\ Size[r] \in Nat
  BY <1>2, <1>4, UncacheEffect
<1>6. HeapInv' /\ RecordsInv'
  BY <1>5 DEF HeapInv, RecordsInv
<1>7. PICK u \in Nat, w \in Nat, z \in Nat, k \in Nat, s \in Nat, n \in Nat :
        /\ u = mMemoryUse /\ w = want /\ z = Size[r] /\ k = MemoryLimit
        /\ s = Size[Head(todo)] /\ n = Len(lru)
  <2>1. Head(todo) \in Resources
    BY <1>3, TailEffect
  <2>2. Size[Head(todo)] \in Nat
    BY <2>1, CacheAssumption
  <2>3. Len(lru) \in Nat
    BY <1>4
  <2>4. MemoryLimit \in Nat
    BY HeapAssumption DEF MemoryLimit
  <2>5. want \in Nat /\ mMemoryUse \in Nat
    BY UseNat DEF IInv, ControlInv
  <2>6. QED
    BY <1>5, <2>2, <2>3, <2>4, <2>5
<1>8. /\ mMemoryUse' = u - z /\ want' = (IF w > z THEN w - z ELSE 0)
      /\ phase' = (IF w > z /\ n > 1 THEN "evict" ELSE "allocate")
      /\ Len(lru') = n - 1 /\ Size[Head(todo')] = s /\ s <= k
  BY <1>2, <1>3, <1>5, <1>7
<1>9. want' \in Nat
  BY <1>8
<1>10. phase' = "evict" => lru' # <<>>
  <2>1. lru' = <<>> => Len(lru') = 0
    OBVIOUS
  <2>2. QED
    BY <1>8, <2>1
<1>11. TodoInv'
  <2>1. phase' \in {"evict", "allocate"}
    BY <1>8
  <2>2. QED
    BY <1>2, <1>3, <1>5, <1>10, <2>1 DEF TodoInv, MemoryLimit
<1>12. ServedInv'
  BY <1>8 DEF ServedInv
<1>13. ControlInv'
  BY <1>2, <1>8, <1>9 DEF IInv, ControlInv
<1>14. UseInv'
  <2>1. ~ndebug => u <= k /\ u - w <= k - s
    BY <1>2, <1>7 DEF IInv, UseInv
  <2>2. ~ndebug => mMemoryUse' <= k
    BY <1>8, <2>1
  <2>3. ~ndebug /\ phase' = "evict" => mMemoryUse' - want' <= k - s
    <3>1. SUFFICES ASSUME ~ndebug, phase' = "evict" PROVE mMemoryUse' - want' <= k - s
      OBVIOUS
    <3>2. w > z
      BY <1>8, <3>1
    <3>3. (u - z) - (w - z) <= k - s
      BY <2>1, <3>1
    <3>4. QED
      BY <1>8, <3>2, <3>3
  <2>4. ~ndebug /\ phase' = "allocate" => mMemoryUse' <= k - s
    <3>1. SUFFICES ASSUME ~ndebug, phase' = "allocate" PROVE u - z <= k - s
      BY <1>8
    <3>2. CASE w <= z
      BY <2>1, <3>1, <3>2
    <3>3. CASE w > z
      <4>1. n <= 1
        BY <1>8, <3>1, <3>3
      <4>2. Range(lru') = {}
        <5>1. lru' \in Seq(Resources) /\ Len(lru') \in Nat
          BY <1>5 DEF Records
        <5>2. Len(lru') = 0
          BY <1>8, <4>1, <5>1
        <5>3. lru' = <<>>
          BY <5>1, <5>2
        <5>4. QED
          BY <5>3, EmptyList
      <4>3. mMemoryUse' = 0
        BY <1>5, <4>2, SumSizeEmpty
      <4>4. QED
        BY <1>8, <4>3
    <3>4. QED
      BY <3>2, <3>3
  <2>5. MemoryLimit' = MemoryLimit /\ ndebug' = ndebug
    BY <1>2 DEF MemoryLimit
  <2>6. QED
    BY <1>5, <1>7, <1>8, <2>2, <2>3, <2>4, <2>5 DEF UseInv
<1>15. QED
  BY <1>2, <1>5, <1>6, <1>11, <1>12, <1>13, <1>14 DEF IInv

\* The allocation fails: half of the cache is to be evicted, or nothing is
\* left.
LEMMA AllocateFailInv ==
  ASSUME IInv, Snug(heap), Allocate, ~AllocatePurgable(heap, Size[Head(todo)]).ok
  PROVE  IInv' /\ mMemory' = mMemory /\ Kept(heap, heap')
<1>1. PICK r, t : r = Head(todo) /\ t = AllocatePurgable(heap, Size[r])
  OBVIOUS
<1>2. /\ phase = "allocate" /\ heap' = t.a
      /\ IF lru # <<>>
         THEN phase' = "evict" /\ want' = mMemoryUse \div 2
         ELSE phase' = (IF ndebug THEN "allocate" ELSE "aborted") /\ UNCHANGED want
      /\ UNCHANGED <<ndebug, mMemory, lru, handle, mMemoryUse, list, loading, todo>>
  BY <1>1 DEF Allocate, cache
<1>3. /\ todo \in Seq(Resources) /\ IsInjective(todo) /\ todo # <<>>
      /\ Size[Head(todo)] <= MemoryLimit
  BY <1>2 DEF IInv, TodoInv
<1>4. r \in Resources /\ Size[r] \in Nat \ {0}
  BY <1>1, <1>3, TailEffect, CacheAssumption
<1>5. Owned(heap, mMemory) /\ Records(heap, lru, handle, mMemory)
  BY DEF IInv, HeapInv, RecordsInv
<1>6. Owned(t.a, mMemory) /\ Records(t.a, lru, handle, mMemory) /\ Kept(heap, t.a)
  BY <1>1, <1>4, <1>5, AllocateFailRecords
<1>7. HeapInv' /\ RecordsInv'
  BY <1>2, <1>6 DEF HeapInv, RecordsInv
<1>8. want' \in Nat
  BY <1>2, UseNat DEF IInv, ControlInv
<1>9. TodoInv' /\ ServedInv'
  BY <1>2, <1>3 DEF IInv, TodoInv, ServedInv, MemoryLimit
<1>10. ControlInv'
  BY <1>2, <1>8 DEF IInv, ControlInv
<1>11. UseInv'
  <2>1. PICK u \in Nat, k \in Nat, z \in Nat, w \in Nat :
          u = mMemoryUse /\ k = MemoryLimit /\ z = Size[Head(todo)] /\ w = want'
    BY <1>1, <1>4, <1>8, UseNat, HeapAssumption DEF MemoryLimit
  <2>2. ~ndebug => u <= k /\ u <= k - z
    BY <1>2, <2>1 DEF IInv, UseInv
  <2>3. ~ndebug => u - w <= k - z
    BY <2>2
  <2>4. mMemoryUse' = u /\ MemoryLimit' = k /\ Size[Head(todo')] = z /\ want' = w
    BY <1>2, <2>1 DEF MemoryLimit
  <2>5. mMemoryUse' = SumSize(Range(lru'))
    BY <1>2 DEF IInv, UseInv
  <2>6. QED
    BY <1>2, <2>2, <2>3, <2>4, <2>5 DEF UseInv
<1>12. QED
  BY <1>2, <1>6, <1>7, <1>9, <1>10, <1>11 DEF IInv

\* The allocation succeeds and the resource is cached.
LEMMA AllocateDoneInv ==
  ASSUME IInv, Snug(heap), Allocate, AllocatePurgable(heap, Size[Head(todo)]).ok
  PROVE  /\ IInv' /\ mMemory' = mMemory /\ heap'.static = heap.static
         /\ \A x \in 0 .. heap.static[0] - 1 : heap'.mem[x] = heap.mem[x]
<1>1. PICK r, t : r = Head(todo) /\ t = AllocatePurgable(heap, Size[r])
  OBVIOUS
<1>2. heap' = [t.a EXCEPT !.mem = Fill(@, t.a.reloc[t.uid], Size[r], r)]
  BY <1>1, Zenon DEF Allocate
<1>3. /\ phase = "allocate" /\ lru' = Append(lru, r) /\ handle' = Insert(handle, r, t.uid)
      /\ mMemoryUse' = mMemoryUse + Size[r] /\ todo' = Tail(todo) /\ phase' = Unless("put")
      /\ UNCHANGED <<ndebug, mMemory, list, loading, want>>
  BY <1>1, Zenon DEF Allocate
<1>4. /\ todo \in Seq(Resources) /\ IsInjective(todo) /\ todo # <<>>
      /\ Range(todo) \cap Range(lru) = {}
      /\ loading \in Resources /\ todo[Len(todo)] = loading
      /\ Size[Head(todo)] <= MemoryLimit
  BY <1>3 DEF IInv, TodoInv
<1>5. /\ r \in Resources /\ r \in Range(todo) /\ r \notin Range(lru)
      /\ todo' \in Seq(Resources) /\ IsInjective(todo') /\ Range(todo') = Range(todo) \ {r}
      /\ todo' # <<>> => todo'[Len(todo')] = loading
      /\ todo' = <<>> => loading = r
  BY <1>1, <1>3, <1>4, TailEffect
<1>6. Owned(heap, mMemory) /\ Records(heap, lru, handle, mMemory)
  BY DEF IInv, HeapInv, RecordsInv
<1>7. PICK b : b = Filled(t, Size[r], r)
  OBVIOUS
<1>8. /\ Owned(b, mMemory)
      /\ Records(b, Append(lru, r), Insert(handle, r, t.uid), mMemory)
      /\ HoldsIn(b, Insert(handle, r, t.uid)[r], r)
      /\ b.static = heap.static
      /\ \A x \in 0 .. heap.static[0] - 1 : b.mem[x] = heap.mem[x]
  <2>1. AllocatePurgable(heap, Size[r]).ok
    BY <1>1
  <2>2. QED
    BY <1>1, <1>5, <1>6, <1>7, <2>1, AllocateRecords
<1>9. heap' = b
  BY <1>2, <1>7, Zenon DEF Filled
<1>10. phase' = "put"
  <2>1. RegionsDisjoint(heap')
    BY <1>8, <1>9, LayoutDisjoint DEF Owned
  <2>2. QED
    BY <1>3, <2>1, Zenon DEF Unless
<1>11. HeapInv' /\ RecordsInv' /\ HoldsIn(heap', handle'[r], r)
  BY <1>3, <1>8, <1>9 DEF HeapInv, RecordsInv
<1>12. lru' \in Seq(Resources) /\ Range(lru') = Range(lru) \cup {r}
  BY <1>3, <1>5, <1>6, AppendEffect DEF Records
<1>13. TodoInv'
  BY <1>3, <1>4, <1>5, <1>10, <1>12 DEF TodoInv
<1>14. ServedInv'
  BY <1>3, <1>5, <1>11, <1>12 DEF ServedInv
<1>15. ControlInv'
  BY <1>3, <1>10 DEF IInv, ControlInv
<1>16. UseInv'
  <2>1. PICK u \in Nat, k \in Nat, z \in Nat : u = mMemoryUse /\ k = MemoryLimit /\ z = Size[r]
    BY <1>5, UseNat, HeapAssumption, CacheAssumption DEF MemoryLimit
  <2>2. ~ndebug => u <= k - z
    BY <1>1, <1>3, <2>1 DEF IInv, UseInv
  <2>3. mMemoryUse' = u + z /\ MemoryLimit' = k
    BY <1>3, <2>1 DEF MemoryLimit
  <2>4. ~ndebug => mMemoryUse' <= MemoryLimit'
    BY <2>2, <2>3
  <2>5. mMemoryUse' = SumSize(Range(lru'))
    <3>1. IsFiniteSet(Range(lru')) /\ Range(lru') \subseteq Resources
      BY <1>12, RangeFinite
    <3>2. r \in Range(lru') /\ Range(lru') \ {r} = Range(lru)
      BY <1>5, <1>12
    <3>3. SumSize(Range(lru')) = Size[r] + SumSize(Range(lru') \ {r})
      BY <3>1, <3>2, SumSizeLess
    <3>4. SumSize(Range(lru)) = u
      BY <2>1 DEF IInv, UseInv
    <3>5. SumSize(Range(lru')) = z + u
      BY <2>1, <3>2, <3>3, <3>4
    <3>6. QED
      BY <2>3, <3>5
  <2>6. QED
    BY <1>3, <1>10, <2>4, <2>5 DEF UseInv
<1>17. QED
  BY <1>3, <1>8, <1>9, <1>11, <1>13, <1>14, <1>15, <1>16 DEF IInv

\* With the head inside volatile memory the allocation succeeds, and spoils the
\* heap.
LEMMA AllocateSpoils ==
  ASSUME IInv, ~Snug(heap), Allocate
  PROVE  Spoiled' /\ HeadInside
<1>1. PICK r, a, t : r = Head(todo) /\ a = heap /\ t = TryPurgable(a, Size[r])
  OBVIOUS
<1>2. phase = "allocate"
  BY DEF Allocate
<1>3. todo \in Seq(Resources) /\ todo # <<>> /\ Size[r] <= MemoryLimit /\ IsInjective(todo)
  BY <1>1, <1>2 DEF IInv, TodoInv
<1>4. /\ r \in Resources /\ Size[r] \in 1 .. HeapSize
      /\ Range(Tail(todo)) \subseteq Range(todo)
  <2>1. r \in Resources /\ Range(Tail(todo)) \subseteq Range(todo)
    BY <1>1, <1>3, TailEffect
  <2>2. QED
    BY <1>3, <2>1, CacheAssumption, HeapAssumption DEF MemoryLimit
<1>5. Sound(a, Tags) /\ mMemory \in DOMAIN a.reloc /\ a.reloc[mMemory] = 0
  BY <1>1 DEF IInv, HeapInv, Owned
<1>6. Frame(a) /\ ~Snug(a) /\ DOMAIN a.purgable \subseteq a.head .. HeapSize - 1
  BY <1>1, <1>5, HeapAssumption DEF Sound, Layout, Frame
<1>7. t.ok = TRUE /\ HasAstray(t.a, a.static[0], DOMAIN a.purgable)
  BY <1>1, <1>4, <1>6, TryWraps
<1>8. IsHeap(t.a) /\ t.a.static = a.static
  BY <1>1, <1>6, TryKeeps DEF Frame
<1>9. AllocatePurgable(a, Size[r]) = t
  BY <1>1, <1>7, Zenon DEF AllocatePurgable
<1>10. PICK b : b = Filled(t, Size[r], r)
  OBVIOUS
<1>11. b.static = a.static /\ b.purgable = t.a.purgable
  <2>1. PICK c, u : c = t.a /\ u = t.uid
    OBVIOUS
  <2>2. PICK e : e = Fill(c.mem, c.reloc[u], Size[r], r)
    OBVIOUS
  <2>3. b = [c EXCEPT !.mem = e]
    BY <1>10, <2>1, <2>2, Zenon DEF Filled
  <2>4. IsHeap(c)
    BY <1>8, <2>1
  <2>5. b.static = c.static /\ b.purgable = c.purgable
    BY <2>3, <2>4 DEF IsHeap
  <2>6. QED
    BY <1>8, <2>1, <2>5
<1>12. HasAstray(b, a.static[0], DOMAIN a.purgable)
  BY <1>7, <1>11 DEF HasAstray
<1>13. ~RegionsDisjoint(b)
  <2>1. DOMAIN b.static = {0} /\ b.static[0] \in 1 .. HeapSize
    BY <1>6, <1>11 DEF Frame
  <2>2. HasAstray(b, b.static[0], DOMAIN a.purgable)
    BY <1>11, <1>12
  <2>3. QED
    BY <2>1, <2>2, AstrayOverlaps
<1>14. AllocatePurgable(heap, Size[Head(todo)]) = t
  BY <1>1, <1>9
<1>15. /\ heap' = b /\ phase' = Unless("put") /\ mMemoryUse' = mMemoryUse + Size[r]
       /\ todo' = Tail(todo) /\ UNCHANGED <<ndebug, list, loading, want>>
  BY <1>1, <1>7, <1>10, <1>14, Zenon DEF Allocate, Filled
<1>16. phase' = "corrupt"
  BY <1>13, <1>15, Zenon DEF Unless
<1>17. mMemoryUse' \in Nat
  BY <1>4, <1>15, UseNat
<1>18. Spoiled'
  BY <1>4, <1>15, <1>16, <1>17, SpoiledTypes
<1>19. HeadInside
  BY <1>1, <1>5, <1>6 DEF HeadInside, VolatileSize, Snug, Frame
<1>20. QED
  BY <1>18, <1>19

\* The miss was served.
LEMMA MissEndInv ==
  ASSUME IInv, MissEnd
  PROVE  IInv' /\ UNCHANGED <<heap, mMemory>>
<1>1. /\ phase' = "idle" /\ todo = <<>> /\ loading' = None
      /\ UNCHANGED <<ndebug, heap, mMemory, lru, handle, mMemoryUse, list, todo, want>>
  BY DEF MissEnd, cache
<1>2. HeapInv' /\ RecordsInv'
  BY <1>1 DEF IInv, HeapInv, RecordsInv
<1>3. UseInv' /\ TodoInv' /\ ServedInv' /\ ControlInv'
  BY <1>1 DEF IInv, UseInv, TodoInv, ServedInv, ControlInv, MemoryLimit
<1>4. QED
  BY <1>1, <1>2, <1>3 DEF IInv

\* The cache is emptied.
LEMMA ClearInv ==
  ASSUME IInv, Clear
  PROVE  /\ IInv' /\ mMemory' = mMemory /\ heap'.static = heap.static
         /\ \A x \in 0 .. heap.static[0] - 1 : heap'.mem[x] = heap.mem[x]
<1>1. Owned(heap, mMemory) /\ Records(heap, lru, handle, mMemory)
  BY DEF IInv, HeapInv, RecordsInv
<1>2. PICK b : b = C!Fold(handle, heap, lru)
  OBVIOUS
<1>0. heap' = b
  BY <1>2, ClearIsFold, Zenon DEF Clear
<1>3. /\ Owned(b, mMemory) /\ Records(b, <<>>, NoEntries, mMemory)
      /\ b.static = heap.static
      /\ \A x \in 0 .. heap.static[0] - 1 : b.mem[x] = heap.mem[x]
  BY <1>1, <1>2, ClearRecords
<1>4. /\ phase = "idle" /\ lru' = <<>> /\ handle' = NoEntries /\ mMemoryUse' = 0
      /\ UNCHANGED <<ndebug, mMemory, list, phase, loading, todo, want>>
  BY Zenon DEF Clear, put
<1>5. HeapInv' /\ RecordsInv'
  BY <1>0, <1>3, <1>4 DEF HeapInv, RecordsInv
<1>6. Range(lru') = {}
  BY <1>4, EmptyList
<1>7. UseInv'
  <2>1. mMemoryUse' = SumSize(Range(lru'))
    BY <1>4, <1>6, SumSizeEmpty
  <2>2. mMemoryUse' <= MemoryLimit' /\ phase' = "idle"
    BY <1>4, HeapAssumption DEF MemoryLimit
  <2>3. QED
    BY <2>1, <2>2 DEF UseInv
<1>8. TodoInv' /\ ServedInv' /\ ControlInv'
  BY <1>4, <1>6 DEF IInv, TodoInv, ServedInv, ControlInv
<1>9. QED
  BY <1>0, <1>3, <1>4, <1>5, <1>7, <1>8 DEF IInv

\* A step of VolatileKept.
VolatileStep ==
  \A x \in 0 .. HeapSize - 1 :
    x < VolatileSize /\ x < VolatileSize' => heap'.mem[x] \in {heap.mem[x], VolatileTag}

\* A step that leaves the static region alone is one.
LEMMA VolatileBelow ==
  ASSUME IInv, \A x \in 0 .. heap.static[0] - 1 : heap'.mem[x] = heap.mem[x]
  PROVE  VolatileStep
<1>1. VolatileSize = heap.static[0] /\ heap.static[0] \in Nat
  BY DEF IInv, HeapInv, Owned, Sound, Layout, VolatileSize
<1>2. \A x \in 0 .. HeapSize - 1 : x < VolatileSize => x \in 0 .. heap.static[0] - 1
  BY <1>1
<1>3. QED
  BY <1>2 DEF VolatileStep

\* Every step keeps the invariant and the volatile memory, or is the growth of
\* volatile memory past the head, or an allocation after it, that spoils the heap.
LEMMA NextInv ==
  ASSUME IInv, [Next]_vars
  PROVE  (IInv' /\ VolatileStep) \/ (Spoiled' /\ (HeadInside \/ GrowsPastHead))
<1>1. ASSUME NEW size \in VolatileSizes, SetVolatileMemory(size)
      PROVE  (IInv' /\ VolatileStep) \/ (Spoiled' /\ GrowsPastHead)
  <2>1. CASE size > HeapSize \/ heap.head = 0 \/ \A o \in DOMAIN heap.purgable : size <= o
    BY <1>1, <2>1, SetVolatileMemoryInv DEF VolatileStep
  <2>2. CASE ~(size > HeapSize \/ heap.head = 0 \/ \A o \in DOMAIN heap.purgable : size <= o)
    <3>1. size <= HeapSize /\ heap.head # 0
      BY <2>2, CacheAssumption, HeapAssumption
    <3>2. PICK x \in DOMAIN heap.purgable : ~(size <= x)
      BY <2>2
    <3>3. QED
      BY <1>1, <3>1, <3>2, SetVolatileMemorySpoils
  <2>3. QED
    BY <2>1, <2>2
<1>2. CASE StoreVolatile
  BY <1>2, StoreVolatileInv DEF VolatileStep
<1>3. ASSUME NEW resources \in Lists, SetPrefetch(resources)
      PROVE  IInv' /\ VolatileStep
  BY <1>3, SetPrefetchInv DEF VolatileStep
<1>4. ASSUME NEW r \in Range(list), LoadHit(r)
      PROVE  IInv' /\ VolatileStep
  BY <1>4, LoadHitInv DEF VolatileStep
<1>5. ASSUME NEW r \in Range(list), LoadMiss(r)
      PROVE  IInv' /\ VolatileStep
  BY <1>5, LoadMissInv, VolatileBelow DEF Kept
<1>6. CASE FetchLost
  BY <1>6, FetchLostInv DEF VolatileStep
<1>7. CASE PutBegin
  BY <1>7, PutBeginInv DEF VolatileStep
<1>8. CASE Evict
  BY <1>8, EvictInv, VolatileBelow DEF Kept
<1>9. CASE Allocate
  <2>1. CASE Snug(heap) /\ AllocatePurgable(heap, Size[Head(todo)]).ok
    BY <1>9, <2>1, AllocateDoneInv, VolatileBelow
  <2>2. CASE Snug(heap) /\ ~AllocatePurgable(heap, Size[Head(todo)]).ok
    BY <1>9, <2>2, AllocateFailInv, VolatileBelow DEF Kept
  <2>3. CASE ~Snug(heap)
    BY <1>9, <2>3, AllocateSpoils
  <2>4. QED
    BY <2>1, <2>2, <2>3
<1>10. CASE MissEnd
  BY <1>10, MissEndInv DEF VolatileStep
<1>11. CASE Clear
  BY <1>11, ClearInv, VolatileBelow
<1>12. CASE UNCHANGED vars
  <2>1. UNCHANGED <<ndebug, heap, mMemory, lru, handle, mMemoryUse, list,
                    phase, loading, todo, want>>
    BY <1>12 DEF vars
  <2>2. HeapInv' /\ RecordsInv'
    BY <2>1 DEF IInv, HeapInv, RecordsInv
  <2>3. UseInv' /\ TodoInv' /\ ServedInv' /\ ControlInv'
    BY <2>1 DEF IInv, UseInv, TodoInv, ServedInv, ControlInv, MemoryLimit
  <2>4. QED
    BY <2>1, <2>2, <2>3 DEF IInv, VolatileStep
<1>13. QED
  BY <1>1, <1>2, <1>3, <1>4, <1>5, <1>6, <1>7, <1>8, <1>9, <1>10, <1>11, <1>12 DEF Next

\* A spoiled heap ends the model.
LEMMA SpoiledStays ==
  ASSUME Spoiled, [Next]_vars
  PROVE  UNCHANGED vars /\ Spoiled'
<1>1. UNCHANGED vars
  BY DEF Spoiled, Next, SetVolatileMemory, StoreVolatile, SetPrefetch, LoadHit, LoadMiss,
         FetchLost, PutBegin, Evict, Allocate, MissEnd, Clear
<1>2. QED
  BY <1>1 DEF Spoiled, vars

-----------------------------------------------------------------------------
(***************************************************************************)
(* The theorems.  There is no hypothesis on the sizes of volatile memory:  *)
(* growth past purgableHead_ spoils the heap, and they say that nothing    *)
(* else does and what holds until then.                                    *)
(***************************************************************************)
\* The inductive invariant of cache, loader, memory manager and allocator, for
\* every heap size, all resources and their sizes, all lists and both builds,
\* until growth of volatile memory spoils the heap.
THEOREM Invariance == Spec => [](IInv \/ Spoiled)
<1>1. Init => IInv \/ Spoiled
  BY InitInv
<1>2. (IInv \/ Spoiled) /\ [Next]_vars => (IInv \/ Spoiled)'
  BY NextInv, SpoiledStays
<1>3. QED
  BY <1>1, <1>2, PTL DEF Spec

\* A heap that is not spoiled is one that the invariant describes.
LEMMA NotSpoiled ==
  ASSUME IInv \/ Spoiled, phase # "corrupt"
  PROVE  IInv
  BY DEF Spoiled

\* Every variable keeps its type; no use or want goes below zero (mMemoryUse
\* and bytesToEvict are unsigned in in_memory_resource_cache.cpp).
THEOREM TypeCorrect == Spec => []TypeOK
<1>1. IInv => TypeOK
  <2>1. SUFFICES ASSUME IInv PROVE TypeOK
    OBVIOUS
  <2>2. Owned(heap, mMemory) /\ Records(heap, lru, handle, mMemory)
    BY <2>1 DEF IInv, HeapInv, RecordsInv
  <2>3. heap.head \in 0 .. HeapSize /\ heap.mem \in [0 .. HeapSize - 1 -> Tags]
    BY <2>2 DEF Owned, Sound, Layout
  <2>4. ASSUME NEW u \in DOMAIN heap.reloc
        PROVE  heap.reloc[u] \in (0 .. HeapSize - 1) \cup {Purged}
    <3>1. CASE heap.reloc[u] = Purged
      BY <3>1
    <3>2. CASE heap.reloc[u] \in {0} \cup DOMAIN heap.purgable
      <4>1. HeapSize \in Nat \ {0}
        BY HeapAssumption
      <4>2. 0 \in 0 .. HeapSize - 1
        BY <4>1
      <4>3. \A o \in DOMAIN heap.purgable : o \in 0 .. HeapSize - 1
        BY <2>2, <4>1 DEF Owned, Sound, Layout
      <4>4. QED
        BY <3>2, <4>2, <4>3
    <3>3. QED
      BY <2>2, <3>1, <3>2 DEF Owned, Sound, Handles
  <2>5. mMemory \in DOMAIN heap.reloc
    BY <2>2 DEF Owned
  <2>6. \A r \in Range(lru) : handle[r] \in DOMAIN heap.reloc
    BY <2>2, NotTheOwner
  <2>7. Range(list) \subseteq Resources /\ Range(todo) \subseteq Resources
    BY <2>1, RangeFinite DEF IInv, ControlInv, TodoInv
  <2>8. mMemoryUse \in Nat
    BY <2>1, UseNat
  <2>9. /\ ndebug \in BOOLEAN /\ loading \in Resources \cup {None} /\ want \in Nat
        /\ phase \in {"idle", "put", "evict", "allocate", "crashed", "aborted"}
    BY <2>1 DEF IInv, ControlInv
  <2>10. QED
    BY <2>3, <2>4, <2>5, <2>6, <2>7, <2>8, <2>9 DEF TypeOK, Tags
<1>2. Spoiled => TypeOK
  BY DEF Spoiled, TypeOK
<1>3. QED
  BY <1>1, <1>2, Invariance, PTL

\* Two regions come to share a byte, or one to lie outside the heap, only by
\* growth of volatile memory past the head (memory_allocator.cpp, line 109): no
\* other resizing, allocation, compaction, purge or eviction spoils the heap.
THEOREM LayoutKept == Spec => OverlapOnlyByGrowth
<1>1. (IInv \/ Spoiled) /\ [Next]_vars =>
        (phase' = "corrupt" => phase = "corrupt" \/ HeadInside \/ GrowsPastHead)
  <2>1. SUFFICES ASSUME IInv, [Next]_vars, phase' = "corrupt"
                 PROVE  HeadInside \/ GrowsPastHead
    BY DEF Spoiled
  <2>2. ~IInv'
    BY <2>1 DEF IInv, ControlInv
  <2>3. QED
    BY <2>1, <2>2, NextInv
<1>2. QED
  BY <1>1, Invariance, PTL DEF Spec, OverlapOnlyByGrowth

\* A region that holds a resource gives its bytes and no others.
LEMMA HeldBytes ==
  ASSUME IInv, NEW r \in Range(lru), HoldsIn(heap, handle[r], r)
  PROVE  BytesOf(r) = {r} /\ ~IsPurged(r)
<1>1. Sound(heap, Tags) /\ r \in Resources
  BY UseNat DEF IInv, HeapInv, Owned
<1>2. PICK o \in Nat, z \in Nat \ {0} : o = heap.reloc[handle[r]] /\ z = Size[r]
  BY <1>1, CacheAssumption, HeapAssumption DEF HoldsIn, Sound, Layout
<1>3. \A i \in 0 .. z - 1 : heap.mem[o + i] = r
  BY <1>2 DEF HoldsIn
<1>4. \A x \in o .. o + z - 1 : x - o \in 0 .. z - 1 /\ o + (x - o) = x
  OBVIOUS
<1>5. \A x \in o .. o + z - 1 : heap.mem[x] = r
  BY <1>3, <1>4
<1>6. o \in o .. o + z - 1
  OBVIOUS
<1>7. {heap.mem[x] : x \in o .. o + z - 1} = {r}
  BY <1>5, <1>6
<1>8. BytesOf(r) = {r}
  BY <1>2, <1>7 DEF BytesOf, Bytes
<1>9. ~IsPurged(r)
  BY <1>1, HeapAssumption DEF IsPurged, HoldsIn, Sound, Layout
<1>10. QED
  BY <1>8, <1>9

\* A cached resource that was not purged is found where its handle leads, with
\* its own bytes and nothing else (the memcpy of loadCache).
THEOREM IntactHandles == Spec => []HandlesIntact
<1>1. (IInv \/ Spoiled) => HandlesIntact
  <2>1. SUFFICES ASSUME IInv, NEW r \in Range(lru), ~IsPurged(r)
                 PROVE  LET o == heap.reloc[handle[r]] IN
                        /\ o \in DOMAIN heap.purgable
                        /\ heap.purgable[o] = Size[r]
                        /\ heap.inv[o] = handle[r]
                        /\ BytesOf(r) = {r}
    BY NotSpoiled DEF HandlesIntact
  <2>2. Owned(heap, mMemory) /\ Records(heap, lru, handle, mMemory)
    BY <2>1 DEF IInv, HeapInv, RecordsInv
  <2>3. HoldsIn(heap, handle[r], r)
    BY <2>1, <2>2 DEF Records, IsPurged
  <2>4. handle[r] \in DOMAIN heap.reloc
    BY <2>1, <2>2, NotTheOwner
  <2>5. heap.inv[heap.reloc[handle[r]]] = handle[r]
    BY <2>1, <2>2, <2>4 DEF Owned, Sound, Handles, IsPurged
  <2>6. BytesOf(r) = {r}
    BY <2>1, <2>3, HeldBytes
  <2>7. QED
    BY <2>3, <2>5, <2>6 DEF HoldsIn
<1>2. QED
  BY <1>1, Invariance, PTL

\* The index of the cache, its use and the handles of the allocator agree, and
\* in a build with assertions the use stays within the limit (the assertion of
\* line 59 of in_memory_resource_cache.cpp).
THEOREM Books == Spec => []BooksAgree
<1>1. (IInv \/ Spoiled) => BooksAgree
  <2>1. SUFFICES ASSUME IInv PROVE BooksAgree
    BY DEF Spoiled, BooksAgree
  <2>2. Owned(heap, mMemory) /\ Records(heap, lru, handle, mMemory)
    BY <2>1 DEF IInv, HeapInv, RecordsInv
  <2>3. /\ IsInjective(lru) /\ DOMAIN handle = Range(lru)
        /\ DOMAIN heap.reloc = {mMemory} \cup Range(handle)
        /\ mMemory \notin Range(handle) /\ IsInjective(handle)
    BY <2>2 DEF Records
  <2>4. mMemoryUse = SumFunction([r \in Range(lru) |-> Size[r]])
    BY <2>1 DEF IInv, UseInv, SumSize
  <2>5. ~ndebug => mMemoryUse <= MemoryLimit
    BY <2>1 DEF IInv, UseInv
  <2>6. ASSUME NEW r \in Range(lru), ~IsPurged(r)
        PROVE  heap.reloc[handle[r]] \in DOMAIN heap.purgable
    BY <2>2, <2>6 DEF Records, HoldsIn, IsPurged
  <2>7. ASSUME NEW o \in DOMAIN heap.purgable
        PROVE  \E r \in Range(lru) : ~IsPurged(r) /\ o = heap.reloc[handle[r]]
    <3>1. PICK u : u = heap.inv[o]
      OBVIOUS
    <3>2. u \in DOMAIN heap.reloc /\ heap.reloc[u] = o
      BY <2>2, <3>1 DEF Owned, Sound, Handles
    <3>3. o # 0 /\ o # Purged
      BY <2>2, HeapAssumption DEF Owned, Sound, Layout
    <3>4. u \in Range(handle)
      BY <2>2, <2>3, <3>2, <3>3 DEF Owned
    <3>5. PICK r \in Range(lru) : handle[r] = u
      BY <2>3, <3>4 DEF Range
    <3>6. QED
      BY <3>2, <3>3, <3>5 DEF IsPurged
  <2>8. DOMAIN heap.purgable = {heap.reloc[handle[r]] : r \in {x \in Range(lru) : ~IsPurged(x)}}
    BY <2>6, <2>7
  <2>9. QED
    BY <2>3, <2>4, <2>5, <2>8 DEF BooksAgree
<1>2. QED
  BY <1>1, Invariance, PTL

\* A miss of a resource that may be cached at all ends with its bytes in the
\* cache: the prefetched resources have not pushed it out.
THEOREM ServedMiss == Spec => []MissServed
<1>1. (IInv \/ Spoiled) => MissServed
  BY HeldBytes DEF IInv, ServedInv, MissServed, Cached, Spoiled
<1>2. QED
  BY <1>1, Invariance, PTL

\* No step but the replay's own stores changes a byte of its volatile memory, up
\* to the one that spoils the heap.
THEOREM VolatileUntouched == Spec => VolatileKept
<1>1. (IInv \/ Spoiled) /\ [Next]_vars => (phase' # "corrupt" => VolatileStep)
  BY NextInv, SpoiledStays DEF Spoiled
<1>2. QED
  BY <1>1, Invariance, PTL DEF Spec, VolatileKept, VolatileStep
=============================================================================
