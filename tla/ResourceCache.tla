--------------------------- MODULE ResourceCache ----------------------------
(***************************************************************************)
(* The in-memory resource cache of the replay device                       *)
(* (gapir/cc/in_memory_resource_cache.cpp, resource_cache.cpp), its loader *)
(* (cached_resource_loader.cpp) and the memory manager (memory_manager.cpp)*)
(* that shares the allocator with it.  The memory manager owns the only    *)
(* static region, the volatile memory of the replays, and resizes it for   *)
(* every replay; the cache allocates purgable regions for resources.       *)
(*                                                                         *)
(* One thread runs all of this.  The loops of the code are the steps of    *)
(* the model: a miss fetches a list of resources, each is put in the       *)
(* cache, and each put evicts and allocates until it succeeds.             *)
(*                                                                         *)
(* mResources is ordered by ids that only grow, so it is a sequence, least *)
(* recently used first; mResourceIndex is its inverse.  The bytes of a     *)
(* resource are the resource itself as a tag.  A load has a target, as all *)
(* loads of the interpreter do (context.cpp:774).                          *)
(***************************************************************************)
EXTENDS Allocator

CONSTANTS Resources,
          Size,           \* resource -> getSize(); Builder.Write makes no empty one
          Lists,          \* the lists that a replay may pass to setPrefetch
          PrefetchPart,   \* what part of the cache a miss prefetches (10)
          VolatileSizes,  \* the volatile memory sizes of the replays
          NDebugs,        \* the builds: is assert compiled out?
          CanClear,       \* is clear called? (the program does not)
          VolatileTag,    \* what the replay's own stores leave in memory
          None

ASSUME CacheAssumption ==
  /\ Size \in [Resources -> Nat \ {0}]
  \* in the order of first use, each once (resource_cache.cpp:67)
  /\ \A l \in Lists : l \in Seq(Resources) /\ IsInjective(l)
  /\ PrefetchPart \in Nat \ {0}
  /\ VolatileSizes \subseteq Nat \ {0}
  /\ NDebugs \subseteq BOOLEAN /\ CanClear \in BOOLEAN

VARIABLES ndebug,    \* the build
          heap,      \* mAllocator
          mMemory,   \* the handle of the memory manager
          lru,       \* mResources: the cached resources, least recently used first
          handle,    \* the handle of each cached resource
          mMemoryUse,
          list,      \* ResourceCache::mResources, the resources to expect
          phase,     \* where the thread is
          loading,   \* the resource whose miss is being served
          todo,      \* the fetched resources that are still to be put
          want       \* bytes that evictLeastRecentlyUsed still has to release

vars == <<ndebug, heap, mMemory, lru, handle, mMemoryUse, list, phase, loading, todo, want>>
cache == <<lru, handle, mMemoryUse>>
put == <<phase, loading, todo, want>>

MemoryLimit == HeapSize     \* main.cpp gives the cache the whole heap

Cached(r) == r \in Range(lru)
IsPurged(r) == heap.reloc[handle[r]] = Purged
VolatileSize == heap.static[heap.reloc[mMemory]]

\* The bytes that a copy out of the cache gives.
BytesOf(r) == {heap.mem[x] : x \in Bytes(heap.reloc[handle[r]], Size[r])}

Init ==
  LET boot == AllocateStatic(Create, 1) IN
  /\ ndebug \in NDebugs
  /\ heap = boot.a
  /\ mMemory = boot.uid
  /\ lru = <<>>
  /\ handle = NoEntries
  /\ mMemoryUse = 0
  /\ list = <<>>
  /\ phase = "idle"
  /\ loading = None
  /\ todo = <<>>
  /\ want = 0

\* Mutants of Uncache: the record stays, or the books do.
UncacheKeepsRecord(r) ==
  /\ heap' = ReleaseAllocation(heap, handle[r])
  /\ mMemoryUse' = mMemoryUse - Size[r]
  /\ UNCHANGED <<lru, handle>>
UncacheKeepsUse(r) ==
  /\ heap' = ReleaseAllocation(heap, handle[r])
  /\ lru' = RemoveFirst(lru, r)
  /\ handle' = Erase(handle, {r})
  /\ UNCHANGED mMemoryUse

\* evictLeastRecentlyUsed and clear give memory back one resource at a time.
Uncache(r) ==
  /\ heap' = ReleaseAllocation(heap, handle[r])
  /\ lru' = RemoveFirst(lru, r)
  /\ handle' = Erase(handle, {r})
  /\ mMemoryUse' = mMemoryUse - Size[r]

\* Where the thread goes with the heap that a step leaves.  Once two regions share
\* bytes, or one lies outside the heap, what is read and written is undefined and
\* the model ends.
Unless(next) == IF RegionsDisjoint(heap') THEN next ELSE "corrupt"

-----------------------------------------------------------------------------
\* Context::initialize: the next replay needs size bytes of volatile memory.
SetVolatileMemory(size) ==
  /\ phase = "idle"
  /\ heap' = ResizeStaticAllocation(heap, mMemory, size).a
  /\ phase' = Unless("idle")
  /\ UNCHANGED <<ndebug, mMemory, cache, list, loading, todo, want>>

\* The replay stores to its volatile memory.
StoreVolatile ==
  /\ phase = "idle"
  /\ heap' = [heap EXCEPT !.mem = Fill(@, heap.reloc[mMemory], VolatileSize, VolatileTag)]
  /\ UNCHANGED <<ndebug, mMemory, cache, list, put>>

\* Context::prefetch: a replay with resources lists them.
SetPrefetch(resources) ==
  /\ phase = "idle"
  /\ list' = resources
  /\ UNCHANGED <<ndebug, heap, mMemory, cache, put>>

\* loadCache finds the bytes and makes r the most recently used.
LoadHit(r) ==
  /\ phase = "idle"
  /\ Cached(r)
  /\ ~IsPurged(r)
  /\ lru' = Append(RemoveFirst(lru, r), r)
  /\ UNCHANGED <<ndebug, heap, mMemory, handle, mMemoryUse, list, put>>

\* anticipateNextResources: what follows r in the list, up to bytes in all.
Anticipated(r, bytes) ==
  LET rest == SubSeq(list, SelectInSeq(list, LAMBDA x : x = r) + 1, Len(list))
      before(n) == SumFunction([i \in 1 .. n - 1 |-> Size[rest[i]]])
  IN  SubSeq(rest, 1, Cardinality({n \in DOMAIN rest : before(n) < bytes}))

\* The resources of a list that are not cached, in its order.
KeepUncached(cached, kept, r) == IF r \in cached THEN kept ELSE Append(kept, r)
Uncached(resources, cached) ==
  FoldLeft(LAMBDA kept, r : KeepUncached(cached, kept, r), <<>>, resources)

\* Mutant of Miss: the resource that was missed is forgotten (line 268).
MissForgets(r) ==
  LET tcs == HeapSize - TotalStaticDataUsage(heap)
      prefetch == (IF Size[r] < tcs THEN tcs - Size[r] ELSE 0) \div PrefetchPart
  IN  /\ loading' = r
      /\ todo' = Uncached(Anticipated(r, prefetch), Range(lru'))
      /\ phase' = "put"
      /\ UNCHANGED <<ndebug, mMemory, list, want>>

\* loadCacheMiss up to the fetch of prefetchImpl, for the bytes that follow.
Miss(r) ==
  LET tcs == HeapSize - TotalStaticDataUsage(heap)
      prefetch == (IF Size[r] < tcs THEN tcs - Size[r] ELSE 0) \div PrefetchPart
  IN  /\ loading' = r
      /\ todo' = Uncached(Append(Anticipated(r, prefetch), r), Range(lru'))
      /\ phase' = "put"
      /\ UNCHANGED <<ndebug, mMemory, list, want>>

\* loadCache does not find r, or drops the record of an r that was purged.
LoadMiss(r) ==
  /\ phase = "idle"
  /\ Cached(r) => IsPurged(r)
  /\ IF Cached(r) THEN Uncache(r) ELSE UNCHANGED <<heap, cache>>
  /\ Miss(r)

\* prefetchImpl uses what a fetch returned without looking at it.  Each batch is
\* fetched before its first resource is put.
FetchLost ==
  /\ phase = "put"
  /\ todo # <<>>
  /\ phase' = "crashed"
  /\ UNCHANGED <<ndebug, heap, mMemory, cache, list, loading, todo, want>>

\* putCache, up to its loop: with assert compiled out resize evicts nothing.
PutBegin ==
  LET r == Head(todo) IN
  /\ phase = "put"
  /\ todo # <<>>
  /\ \/ /\ Size[r] > MemoryLimit
        /\ todo' = Tail(todo)
        /\ UNCHANGED <<phase, want>>
     \/ /\ Size[r] <= MemoryLimit
        /\ IF mMemoryUse > MemoryLimit - Size[r] /\ ~ndebug
           THEN phase' = "evict" /\ want' = mMemoryUse - (MemoryLimit - Size[r])
           ELSE phase' = "allocate" /\ UNCHANGED want
        /\ UNCHANGED todo
  /\ UNCHANGED <<ndebug, heap, mMemory, cache, list, loading>>

\* One turn of the loop of evictLeastRecentlyUsed.
Evict ==
  LET r == Head(lru) IN
  /\ phase = "evict"
  /\ Uncache(r)
  /\ want' = IF want > Size[r] THEN want - Size[r] ELSE 0
  /\ phase' = IF want > Size[r] /\ Len(lru) > 1 THEN "evict" ELSE "allocate"
  /\ UNCHANGED <<ndebug, mMemory, list, loading, todo>>

\* One turn of the loop of putCache, which succeeds, evicts half of the cache
\* or, with nothing to evict, fails its assertion.
Allocate ==
  LET r == Head(todo)
      t == AllocatePurgable(heap, Size[r])
  IN  /\ phase = "allocate"
      /\ \/ /\ t.ok
            /\ heap' = [t.a EXCEPT !.mem = Fill(@, t.a.reloc[t.uid], Size[r], r)]
            /\ lru' = Append(lru, r)
            /\ handle' = Insert(handle, r, t.uid)
            /\ mMemoryUse' = mMemoryUse + Size[r]
            /\ todo' = Tail(todo)
            /\ phase' = Unless("put")
            /\ UNCHANGED want
         \/ /\ ~t.ok
            /\ heap' = t.a
            /\ IF lru # <<>>
               THEN phase' = "evict" /\ want' = mMemoryUse \div 2
               ELSE phase' = (IF ndebug THEN "allocate" ELSE "aborted") /\ UNCHANGED want
            /\ UNCHANGED <<cache, todo>>
      /\ UNCHANGED <<ndebug, mMemory, list, loading>>

\* loadCacheMiss copies the bytes out, if they are there.  When they are not,
\* the loader fetches them for itself and putCache fails again.
MissEnd ==
  /\ phase = "put"
  /\ todo = <<>>
  /\ phase' = "idle"
  /\ loading' = None
  /\ UNCHANGED <<ndebug, heap, mMemory, cache, list, todo, want>>

ReleaseHandle(handles, a, r) == ReleaseAllocation(a, handles[r])

\* InMemoryResourceCache::clear.
Clear ==
  /\ CanClear
  /\ phase = "idle"
  /\ heap' = FoldLeft(LAMBDA a, r : ReleaseHandle(handle, a, r), heap, lru)
  /\ lru' = <<>>
  /\ handle' = NoEntries
  /\ mMemoryUse' = 0
  /\ UNCHANGED <<ndebug, mMemory, list, put>>

Next ==
  \/ \E size \in VolatileSizes : SetVolatileMemory(size)
  \/ StoreVolatile
  \/ \E resources \in Lists : SetPrefetch(resources)
  \/ \E r \in Range(list) : LoadHit(r)
  \/ \E r \in Range(list) : LoadMiss(r)
  \/ FetchLost
  \/ PutBegin
  \/ Evict
  \/ Allocate
  \/ MissEnd
  \/ Clear

Spec == Init /\ [][Next]_vars

-----------------------------------------------------------------------------
\* A corrupt heap is not looked at again.
TypeOK ==
  /\ ndebug \in BOOLEAN
  /\ phase # "corrupt" =>
       /\ heap.head \in 0 .. HeapSize
       /\ heap.mem \in [0 .. HeapSize - 1 -> Resources \cup {Junk, VolatileTag}]
       /\ \A u \in DOMAIN heap.reloc : heap.reloc[u] \in (0 .. HeapSize - 1) \cup {Purged}
       /\ mMemory \in DOMAIN heap.reloc
       /\ \A r \in Range(lru) : handle[r] \in DOMAIN heap.reloc
  /\ mMemoryUse \in Nat
  /\ Range(list) \subseteq Resources
  /\ phase \in {"idle", "put", "evict", "allocate", "crashed", "aborted", "corrupt"}
  /\ loading \in Resources \cup {None}
  /\ Range(todo) \subseteq Resources
  /\ want \in Nat

\* Volatile memory and cached data share the heap and no byte of it: "Expansion
\* of volatile memory in this scheme will simply relocate or purge cache data"
\* (memory_allocator.h:34).
NoOverlap == RegionsDisjoint(heap)

\* Volatile memory reaches past the head of the purgable memory, so that the gap
\* of allocatePurgable (line 109) is the difference of a smaller and a larger
\* number; or the step makes it do so.
HeadInside == 0 < heap.head /\ heap.head < VolatileSize
GrowsPastHead ==
  \E size \in VolatileSizes : 0 < heap.head /\ heap.head < size /\ SetVolatileMemory(size)

\* That growth is the only thing that spoils the heap: whatever else is allocated,
\* evicted, compacted, purged and resized, no byte gets two owners and no region
\* leaves the heap.
OverlapOnlyByGrowth ==
  [][phase' = "corrupt" => phase = "corrupt" \/ HeadInside \/ GrowsPastHead]_vars

\* A cached resource that was not purged is found where its handle points, with
\* its own bytes: no eviction, compaction or store has touched them (the memcpy
\* of lines 140 and 298 gives the replay its resource).
HandlesIntact ==
  phase # "corrupt" => \A r \in Range(lru) : ~IsPurged(r) =>
     LET o == heap.reloc[handle[r]] IN
     /\ o \in DOMAIN heap.purgable
     /\ heap.purgable[o] = Size[r]
     /\ heap.inv[o] = handle[r]
     /\ BytesOf(r) = {r}

\* The books of the cache and of the allocator agree: every handle of the
\* allocator has one owner, every purgable region is that of a cached resource,
\* mMemoryUse is the size of what is cached (purged or not), and in a build with
\* assertions it stays within the limit (line 59).
BooksAgree ==
  phase # "corrupt" =>
    /\ IsInjective(lru) /\ DOMAIN handle = Range(lru)
    /\ DOMAIN heap.reloc = {mMemory} \cup Range(handle)
    /\ mMemory \notin Range(handle) /\ IsInjective(handle)
    /\ DOMAIN heap.purgable = {heap.reloc[handle[r]] : r \in {x \in Range(lru) : ~IsPurged(x)}}
    /\ mMemoryUse = SumFunction([r \in Range(lru) |-> Size[r]])
    /\ ~ndebug => mMemoryUse <= MemoryLimit

\* A miss of a resource that may be cached at all is served from the cache: the
\* prefetched resources have not pushed it out (lines 271-285, "Unless something
\* went very wrong, the data should now be in cache").
MissServed ==
  phase = "put" /\ todo = <<>> /\ Size[loading] <= MemoryLimit =>
    Cached(loading) /\ ~IsPurged(loading) /\ BytesOf(loading) = {loading}

\* Nothing but the replay's own stores changes its volatile memory, up to the step
\* that spoils the heap.
VolatileKept ==
  [][phase' # "corrupt" => \A x \in 0 .. HeapSize - 1 :
       x < VolatileSize /\ x < VolatileSize' =>
         heap'.mem[x] \in {heap.mem[x], VolatileTag}]_vars
=============================================================================
