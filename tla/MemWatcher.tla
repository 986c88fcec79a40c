----------------------------- MODULE MemWatcher -----------------------------
(***************************************************************************)
(* The memory watcher of the dependency graph (gapis/resolve/              *)
(* dependencygraph2/memory.go, memory_intervals.go).  It collects the      *)
(* slices that a command reads and writes, and on a flush turns them into  *)
(* dependencies on the nodes that wrote the memory last.                   *)
(*                                                                         *)
(* The watcher is a record and its methods are operators on it:            *)
(*   pending  pendingAccesses, pool -> list of spans with their modes      *)
(*   writes   memoryWrites, pool -> list of spans with the writing node    *)
(*   fenced   isPostFence                                                  *)
(*   acc      nodeAccesses, reduced to the Deps of a node's accesses       *)
(* An absent list is an empty one: no operation empties a list.  A mode is *)
(* the set of its bits, and a node in a list is in a singleton.            *)
(***************************************************************************)
EXTENDS Intervals, Accesses

CONSTANT Pools      \* memory pools; 0 is the application's

NewMemWatcher ==
  [pending |-> [p \in Pools |-> <<>>], writes |-> [p \in Pools |-> <<>>],
   fenced |-> FALSE, acc |-> NoAccesses]

Modes == SUBSET {"R", "W"}

\* What an access does to the mode of memory that has the given one.
AddRead == [mode \in Modes |-> IF "W" \in mode THEN mode ELSE {"R"}]
AddWrite == [mode \in Modes |-> mode \cup {"W"}]

\* OnReadSlice and OnWriteSlice.
OnSlice(w, p, s, e, Mode) ==
  [w EXCEPT !.pending[p] = IF @ = <<>> THEN <<Elem(s, e, Mode[NoValue])>>
                           ELSE Update(@, s, e, Mode)]

ApplyMemWrite(l, s, e, n) == IF l = <<>> THEN <<Elem(s, e, {n})>> ELSE Replace(l, s, e, {n})

ApplyMemRead(l, s, e) ==
  LET x == Intersection(l, s, e)
  IN UNION {l[i].val : i \in x.lowIndex + 1 .. x.lowIndex + x.overlap}

\* The accesses of one pool, in the order of their list: first what each one
\* reads, then what it writes.  The application's pool is written by
\* observations only.
FlushPool(writes, p, n, accesses) ==
  FoldLeft(LAMBDA f, a :
             [deps |-> f.deps \cup (IF "R" \in a.val
                                    THEN ApplyMemRead(f.writes, a.start, a.end) ELSE {}),
              writes |-> IF "W" \in a.val /\ p # 0
                         THEN ApplyMemWrite(f.writes, a.start, a.end, n) ELSE f.writes],
           [deps |-> {}, writes |-> writes], accesses)

FlushMem(w, n) ==
  LET f == [p \in Pools |-> FlushPool(w.writes[p], p, n, w.pending[p])]
  IN [w EXCEPT !.writes = [p \in Pools |-> f[p].writes],
               !.pending = [p \in Pools |-> <<>>],
               !.acc = AddDeps(@, n, UNION {f[p].deps : p \in Pools})]

\* Mutant of AddObs: the fence does not flush.
AddObsUnfenced(w, n, s, e, isWrite, obs) ==
  [w EXCEPT !.writes[0] = ApplyMemWrite(@, s, e, obs)]

\* An observation of the application's memory becomes visible, under its own
\* node.  The first write observation is the fence of the command.
AddObs(w, n, s, e, isWrite, obs) ==
  LET flushed == IF isWrite /\ ~w.fenced THEN [FlushMem(w, n) EXCEPT !.fenced = TRUE] ELSE w
  IN [flushed EXCEPT !.writes[0] = ApplyMemWrite(@, s, e, obs)]
=============================================================================
