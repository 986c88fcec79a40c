----------------------------- MODULE Allocator ------------------------------
(***************************************************************************)
(* The replay device's allocator (gapir/cc/memory_allocator.cpp).  One     *)
(* heap holds static regions, which never move, and purgable regions,      *)
(* which the allocator may relocate or purge behind the handles of their   *)
(* owners.  Purgable memory grows down from the top of the heap:           *)
(* purgableHead_ is where the next region ends.                            *)
(*                                                                         *)
(* The allocator is a record and its methods are operators on it, because  *)
(* the caller of one method often is another one.  The fields are          *)
(*   head      purgableHead_                                               *)
(*   static    staticRegionMap_, offset -> size                            *)
(*   purgable  purgableRegionMap_, offset -> size; its null entry, which   *)
(*             stands for every purged region, is the value Purged below   *)
(*   reloc     relocationMap_, uid -> offset of its region, or Purged; a   *)
(*             handle is a uid                                             *)
(*   inv       inverseRelocationMap_, offset -> uid                        *)
(*   mem       the bytes of the heap, each the tag of its last writer      *)
(* idGenerator_ only has to give fresh uids: the least free one is taken.  *)
(***************************************************************************)
EXTENDS Integers, Sequences, FiniteSets, FiniteSetsExt, Functions, SequencesExt

CONSTANTS HeapSize,   \* heapSize_
          Word,       \* size_t holds the numbers below Word
          Purged,     \* the null address
          Junk        \* what an uninitialised byte holds

ASSUME HeapAssumption ==
  /\ HeapSize \in Nat \ {0} /\ Word \in Nat /\ Word > 2 * HeapSize
  /\ Purged \notin 0 .. HeapSize

\* std::map: no entries; insert, which keeps an entry that is there; erase; and
\* the addresses of the heap in the order of an iterator and of a reverse one.
NoEntries == [x \in {} |-> x]
Insert(f, k, v) == [x \in DOMAIN f \cup {k} |-> IF x \in DOMAIN f THEN f[x] ELSE v]
Erase(f, K) == [x \in DOMAIN f \ K |-> f[x]]
Upwards == [n \in 1 .. HeapSize |-> n - 1]
Downwards == [n \in 1 .. HeapSize |-> HeapSize - n]

\* A region operation that succeeded, with its handle, or that failed.
Done(a, u) == [a |-> a, ok |-> TRUE, uid |-> u]
Failed(a)  == [a |-> a, ok |-> FALSE, uid |-> 0]

FreshUid(a) == Min((1 .. Cardinality(DOMAIN a.reloc) + 1) \ DOMAIN a.reloc)

\* Mutant of MemMove: the bytes stay where they were.
MemKept(mem, dest, src, size) == mem

\* memmove(dest, src, size); bytes past the heap are lost.
MemMove(mem, dest, src, size) ==
  [x \in DOMAIN mem |->
     IF x \in dest .. dest + size - 1 THEN mem[x - dest + src] ELSE mem[x]]

\* Mutant of Fill: the byte below the region is written as well.
FillLow(mem, start, size, tag) ==
  [x \in DOMAIN mem |-> IF x \in start - 1 .. start + size - 1 THEN tag ELSE mem[x]]

Fill(mem, start, size, tag) ==
  [x \in DOMAIN mem |-> IF x \in start .. start + size - 1 THEN tag ELSE mem[x]]

Create == [head |-> HeapSize, static |-> NoEntries, purgable |-> NoEntries,
           reloc |-> NoEntries, inv |-> NoEntries,
           mem |-> [x \in 0 .. HeapSize - 1 |-> Junk]]

StaticBelow(a, x) == {o \in DOMAIN a.static : o < x}

\* getClosestStaticData: the end of the last static region that starts below x.
ClosestStaticData(a, x) ==
  IF StaticBelow(a, x) = {} THEN 0
  ELSE LET o == Max(StaticBelow(a, x)) IN o + a.static[o]

\* The heads that the loops of lines 109-127 and 288-296 try, highest first,
\* and the ones with room below (the mutant counts a byte too many).  The
\* subtraction is one of size_t.
Heads(a, head) == {head} \cup StaticBelow(a, head)
FittingHeadsOffByOne(a, head, size) ==
  {h \in Heads(a, head) : (h - ClosestStaticData(a, h)) % Word >= size - 1}
FittingHeads(a, head, size) ==
  {h \in Heads(a, head) : (h - ClosestStaticData(a, h)) % Word >= size}

RegisterPurgable(a, offset, size) ==
  LET u == FreshUid(a) IN
  Done([a EXCEPT !.purgable = Insert(@, offset, size),
                 !.inv = Insert(@, offset, u),
                 !.reloc = Insert(@, u, offset)], u)

\* allocatePurgable(size, false).  On failure the head is left at the lowest
\* static region.
TryPurgable(a, size) ==
  LET fit == FittingHeads(a, a.head, size) IN
  IF fit = {} THEN Failed([a EXCEPT !.head = Min(Heads(a, a.head))])
  ELSE LET offset == (Max(fit) - size) % Word
       IN  RegisterPurgable([a EXCEPT !.head = offset], offset, size)

\* Regions have moved, from each offset of to: their handles follow.  The insert
\* of lines 355 and 454 keeps an entry that the new place has already.
Redirect(a, to) ==
  LET from(o) == CHOOSE x \in DOMAIN to : to[x] = o
      kept == DOMAIN a.inv \ DOMAIN to
  IN  [a EXCEPT
         !.reloc = [u \in DOMAIN @ |-> IF \E o \in DOMAIN to : a.inv[o] = u
                                      THEN to[CHOOSE o \in DOMAIN to : a.inv[o] = u]
                                      ELSE @[u]],
         !.inv = [o \in kept \cup Range(to) |-> IF o \in kept THEN @[o] ELSE @[from(o)]]]

\* One turn of the loop of compactPurgableMemory: the region at o, if there is
\* one, is moved to the highest place that is free.  The early return of line 293
\* needs a region that does not fit where it already is, and is not reached.
PackRegion(a, done, o) ==
  LET size == a.purgable[o]
      to == Max(FittingHeads(a, done.head, size)) - size
  IN  IF o \notin DOMAIN a.purgable THEN done
      ELSE [head |-> to, mem |-> MemMove(done.mem, to, o, size), to |-> Insert(done.to, o, to)]

\* All purgable regions, from the top down.
Packed(a) ==
  FoldLeft(LAMBDA done, o : PackRegion(a, done, o),
           [head |-> HeapSize, mem |-> a.mem, to |-> NoEntries], Downwards)

\* compactPurgableMemory.  Nothing changes, not even the head, when no region
\* moves.
Compact(a) ==
  LET p == Packed(a)
      from(o) == CHOOSE x \in DOMAIN p.to : p.to[x] = o
  IN  IF \A o \in DOMAIN p.to : p.to[o] = o THEN Failed(a)
      ELSE Done([Redirect(a, p.to) EXCEPT
             !.head = p.head,
             !.mem = p.mem,
             !.purgable = [o \in Range(p.to) |-> a.purgable[from(o)]]], 0)

\* allocatePurgable(size, true).  A second compaction moves nothing.
AllocatePurgable(a, size) ==
  LET t == TryPurgable(a, size)
      c == Compact(t.a)
  IN  IF t.ok \/ ~c.ok THEN t ELSE TryPurgable(c.a, size)

RegisterRelocate(a, to) == [Redirect(a, to) EXCEPT !.purgable = Erase(@, DOMAIN to)]

RegisterPurge(a, purge) ==
  [a EXCEPT !.purgable = Erase(@, purge),
            !.inv = Erase(@, purge),
            !.reloc = [u \in DOMAIN @ |-> IF \E o \in purge : a.inv[o] = u THEN Purged ELSE @[u]]]

\* One turn of the loop of purgeOrRelocateRange: the region at o, if it is one of
\* the regions, is copied below the head or has to be purged.
MoveRegion(regions, done, o) ==
  LET t == TryPurgable(done.a, regions[o])
      to == t.a.reloc[t.uid]
  IN  IF o \notin DOMAIN regions THEN done
      ELSE IF t.ok
      THEN [done EXCEPT !.a = [t.a EXCEPT !.mem = MemMove(@, to, o, regions[o])],
                        !.to = Insert(@, o, to)]
      ELSE [done EXCEPT !.a = t.a, !.purge = @ \cup {o}]

\* The purgable regions of [start, end), and the one before start wherever it
\* ends.
RangeRegions(a, start, end) ==
  LET below == {o \in DOMAIN a.purgable : o < start}
      first == IF below = {} THEN start ELSE Max(below)
  IN  Restrict(a.purgable, {o \in DOMAIN a.purgable : first <= o /\ o < end})

\* The registrations are of different regions, so those of a loop are one step.
PurgeOrRelocateRange(a, start, end) ==
  LET regions == RangeRegions(a, start, end)
      all == FoldLeft(LAMBDA done, o : MoveRegion(regions, done, o),
                      [a |-> a, to |-> NoEntries, purge |-> {}], Upwards)
  IN  RegisterPurge(RegisterRelocate(all.a, all.to), all.purge)

\* The gaps that allocateStatic compares; the first of the widest is taken.
StaticGap(a, start) ==
  Min({o \in DOMAIN a.static : o >= start} \cup {HeapSize}) - start
StaticStarts(a) == {0} \cup {o + a.static[o] : o \in DOMAIN a.static}
WidestGap(a) ==
  CHOOSE s \in StaticStarts(a) : \A t \in StaticStarts(a) :
    StaticGap(a, t) < StaticGap(a, s) \/ (StaticGap(a, t) = StaticGap(a, s) /\ s <= t)

AllocateStatic(a, size) ==
  LET gap == WidestGap(a)
      offset == IF gap = 0 THEN 0 ELSE gap + (StaticGap(a, gap) - size) \div 2
      u == FreshUid(a)
      registered == [a EXCEPT !.static = Insert(@, offset, size),
                              !.inv = Insert(@, offset, u),
                              !.reloc = Insert(@, u, offset)]
  IN  IF StaticGap(a, gap) < size THEN Failed(a)
      ELSE Done(PurgeOrRelocateRange(registered, offset, offset + size), u)

ResizeStaticAllocation(a, u, size) ==
  LET offset == a.reloc[u] IN
  IF offset \notin DOMAIN a.static \/ size > StaticGap([a EXCEPT !.static = Erase(@, {offset})], offset)
  THEN Failed(a)
  ELSE Done(PurgeOrRelocateRange([a EXCEPT !.static[offset] = size],
                                 offset, offset + size), u)

ReleaseAllocation(a, u) ==
  LET offset == a.reloc[u]
      gone == IF offset = Purged THEN u ELSE a.inv[offset]
      forgotten == [a EXCEPT !.reloc = Erase(@, {gone})]
  IN  IF offset = Purged THEN forgotten
      ELSE IF offset \in DOMAIN a.static
      THEN [forgotten EXCEPT !.static = Erase(@, {offset}), !.inv = Erase(@, {offset})]
      ELSE [forgotten EXCEPT !.purgable = Erase(@, {offset}), !.inv = Erase(@, {offset})]

TotalStaticDataUsage(a) == SumFunction(a.static)

-----------------------------------------------------------------------------
\* The bytes of a region.
Bytes(offset, size) == offset .. offset + size - 1

\* No byte of the heap belongs to two regions, and none lies outside the heap.
RegionsDisjoint(a) ==
  LET static == {Bytes(o, a.static[o]) : o \in DOMAIN a.static}
      purgable == {Bytes(o, a.purgable[o]) : o \in DOMAIN a.purgable}
  IN  /\ \A r \in static \cup purgable : r \subseteq 0 .. HeapSize - 1
      /\ \A r, s \in static : r # s => r \cap s = {}
      /\ \A r, s \in purgable : r # s => r \cap s = {}
      /\ \A r \in static, s \in purgable : r \cap s = {}
=============================================================================
