---------------------------- MODULE FragWatcher -----------------------------
(***************************************************************************)
(* The fragment watcher of the dependency graph (gapis/resolve/            *)
(* dependencygraph2/fragments.go), for one object of the API's state: the  *)
(* entries of different objects do not meet.  Commands read and write the  *)
(* object's fragments (fields, map or array entries) or the whole object,  *)
(* which is the CompleteFragment.                                          *)
(*                                                                         *)
(* The watcher is a record and its methods are operators on it:            *)
(*   access   refAccesses: fragment -> its accesses since the command      *)
(*            began, with the accessStack (one entry per depth of          *)
(*            subcommands) and the pending mode                            *)
(*   pending  pendingFragments                                             *)
(*   writes   refWrites: frags, the last writer of each fragment, and      *)
(*            nodeSlice with nodeSet, the writers of any fragment          *)
(*   acc      nodeAccesses, reduced to the Deps of a node's accesses       *)
(***************************************************************************)
EXTENDS Integers, Sequences, SequencesExt, Functions, Accesses

CONSTANTS Frags,      \* the fragments of the object
          Complete,   \* the CompleteFragment
          MaxDepth    \* how deep subcommands nest

NoAccess == [node |-> 0, mode |-> {}]
NewStack == [d \in 0 .. MaxDepth |-> NoAccess]
NewFragAccess == [stack |-> NewStack, pending |-> {}]

NewFragWatcher ==
  [access |-> <<>>, pending |-> <<>>, acc |-> NoAccesses,
   writes |-> [frags |-> <<>>, nodeSlice |-> <<>>, nodeSet |-> <<>>]]

\* The mode of node n's own accesses at depth d.
GetMode(access, frag, d, n) ==
  IF frag \in DOMAIN access /\ access[frag].stack[d].node = n
  THEN access[frag].stack[d].mode ELSE {}

\* AddRead and AddWrite of a fragAccess.
AddAccess(a, d, n, mode) ==
  [stack |-> [a.stack EXCEPT ![d] =
                [node |-> n, mode |-> {mode} \cup (IF @.node = n THEN @.mode ELSE {})]],
   pending |-> a.pending \cup {mode}]

Fragment(access, frag) == IF frag \in DOMAIN access THEN access[frag] ELSE NewFragAccess

\* A read that an access of the same node covers is left out.
OnReadFrag(w, d, n, frag) ==
  IF GetMode(w.access, frag, d, n) \cup GetMode(w.access, Complete, d, n) # {} THEN w
  ELSE [w EXCEPT !.access = Set(@, frag, AddAccess(Fragment(@, frag), d, n, "R")),
                 !.pending = Append(@, frag)]

\* Mutant of Cleared: what a subcommand writes leaves the accesses of its
\* parent as they were.
NotCleared(access, frag) == access

\* What a write of frag does to the earlier accesses: a complete write clears
\* those of all other fragments, their pending writes too; another write those
\* of the fragment itself and of the complete fragment.
Cleared(access, frag) ==
  [f \in DOMAIN access |->
     IF frag = Complete
     THEN IF f = Complete THEN access[f]
          ELSE [stack |-> NewStack, pending |-> access[f].pending \ {"W"}]
     ELSE IF f \in {frag, Complete} THEN [access[f] EXCEPT !.stack = NewStack]
     ELSE access[f]]

\* A write that a write of the same node covers is left out.
OnWriteFrag(w, d, n, frag) ==
  IF "W" \in GetMode(w.access, frag, d, n) \cup GetMode(w.access, Complete, d, n) THEN w
  ELSE LET cleared == Cleared(w.access, frag)
       IN [w EXCEPT !.access = Set(cleared, frag, AddAccess(Fragment(cleared, frag), d, n, "W")),
                    !.pending = Append(@, frag)]

\* One writer less, or one more, for a fragment.  The last node of nodeSlice
\* takes the place of one that goes, and keeps its old index in nodeSet.
Forget(ws, n) ==
  IF n \notin DOMAIN ws.nodeSet THEN ws
  ELSE LET e == ws.nodeSet[n]
           last == Len(ws.nodeSlice)
       IN IF e.count > 1 THEN [ws EXCEPT !.nodeSet = Set(@, n, [e EXCEPT !.count = @ - 1])]
          ELSE [ws EXCEPT !.nodeSet = Restrict(@, DOMAIN @ \ {n}),
                          !.nodeSlice = Front(IF e.index < last
                                              THEN [@ EXCEPT ![e.index] = ws.nodeSlice[last]]
                                              ELSE @)]

Remember(ws, n) ==
  IF n \in DOMAIN ws.nodeSet
  THEN [ws EXCEPT !.nodeSet = Set(@, n, [ws.nodeSet[n] EXCEPT !.count = @ + 1])]
  ELSE [ws EXCEPT !.nodeSlice = Append(@, n),
                  !.nodeSet = Set(@, n, [count |-> 1, index |-> Len(ws.nodeSlice) + 1])]

FlushNonCompleteWrite(ws, frag, n) ==
  LET set == [ws EXCEPT !.frags = Set(@, frag, n)]
  IN IF frag \notin DOMAIN ws.frags THEN Remember(set, n)
     ELSE IF ws.frags[frag] = n THEN set
     ELSE Remember(Forget(set, ws.frags[frag]), n)

\* frags.Clear() of watcher.go has a value receiver and changes only its
\* copy: the writers of the single fragments stay in frags.
FlushCompleteWrite(ws, n) ==
  [frags |-> Set(ws.frags, Complete, n), nodeSlice |-> <<n>>,
   nodeSet |-> Set(<<>>, n, [count |-> 1, index |-> 1])]

SetPending(access, frag, mode) == Set(access, frag, [stack |-> access[frag].stack, pending |-> mode])

\* One pending fragment of a flush; complete writes are done last.  old: did
\* the object have writes before this flush?
FlushOne(w, n, frag, old) ==
  LET p == w.access[frag].pending
      deps == IF "R" \notin p \/ ~old THEN {}
              ELSE IF frag = Complete THEN ToSet(w.writes.nodeSlice)
              ELSE IF frag \in DOMAIN w.writes.frags THEN {w.writes.frags[frag]} ELSE {}
      writes == "W" \in p /\ frag # Complete
  IN [w EXCEPT !.acc = AddDeps(@, n, deps),
               !.access = SetPending(@, frag, IF frag = Complete THEN p \ {"R"} ELSE {}),
               !.writes = IF writes THEN FlushNonCompleteWrite(@, frag, n) ELSE @]

FlushFrags(w, n) ==
  LET old == w.writes.nodeSlice # <<>>
      body == FoldLeft(LAMBDA v, frag : FlushOne(v, n, frag, old), w, w.pending)
      done == [body EXCEPT !.pending = <<>>]
  IN IF w.pending # <<>> /\ "W" \in Fragment(done.access, Complete).pending
     THEN [done EXCEPT !.writes = FlushCompleteWrite(@, n), !.access = SetPending(@, Complete, {})]
     ELSE done
=============================================================================
