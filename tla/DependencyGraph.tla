-------------------------- MODULE DependencyGraph ---------------------------
(***************************************************************************)
(* The dependency graph of a capture and the dead code elimination on it   *)
(* (gapis/resolve/dependencygraph2).                                       *)
(*                                                                         *)
(* The builder watches the commands of a capture being mutated, one after  *)
(* the other.  Every call of its StateWatcher interface is an action: a    *)
(* command begins, its read observations become visible, it and its        *)
(* subcommands read and write memory and state and open or close forward   *)
(* dependencies, its write observations become visible (the fence), it     *)
(* ends.  The generated code that makes these calls is external; the       *)
(* guards are its order (gapis/api/templates/mutate.go.tmpl).              *)
(*                                                                         *)
(* DCE then keeps the requested commands with all that they depend on.     *)
(*                                                                         *)
(* A node is its position in graph.nodes, from 1; 0 is NodeNoID.           *)
(***************************************************************************)
EXTENDS MemWatcher, FragWatcher, FiniteSets

CONSTANTS Configs,      \* [merge, watch]: MergeSubCmdNodes, and the watchers
                        \* whose calls happen in a behaviour
          Bytes,        \* addresses of a pool
          Spans,        \* slices <<start, end>>, empty ones among them
          ObsLists,     \* the observations that a command may have
          DepIDs,       \* forward dependencies
          Records,      \* recorded subcommands
          MaxCmds, MaxNodes, MaxEvents, MaxRequests

ASSUME GraphAssumption ==
  /\ 0 \in Pools /\ Complete \notin Frags /\ MaxDepth \in Nat
  /\ Bytes \subseteq Nat /\ Spans \subseteq Nat \X Nat /\ ObsLists \subseteq Seq(Spans)
  /\ \A x \in Spans : x[1] <= x[2]
  /\ MaxCmds \in Nat /\ MaxNodes \in Nat /\ MaxEvents \in Nat /\ MaxRequests \in Nat

VARIABLES config, stage, cmds, events,
          stack,        \* subCmdStack
          mem, frag,    \* memWatcher, fragWatcher
          forward,      \* forwardWatcher
          records,      \* recordNodes: the node that recorded a subcommand
          graph,        \* nodes, dependenciesFrom, unopenedForwardDependencies
          pendingNodes, \* with parents and initial nodes, until the command ends
          dce,          \* isLive and liveCmds of DCEBuilder
          wrote,        \* the last writer of each byte and fragment
          whole,        \* the nodes that wrote the object as a whole
          need          \* <<kind, n, m>>: node n needs what node m did

watchers == <<mem, frag, forward, records>>
ghosts == <<wrote, whole, need>>
vars == <<config, stage, cmds, events, stack, mem, frag, forward, records, graph,
          pendingNodes, dce, wrote, whole, need>>

Ctx == Last(stack)                      \* cmdCtx()
NumNodes == Len(graph.nodes)
IsObs(n) == graph.nodes[n].kind = "obs"

NewForward == [open |-> <<>>, pairs |-> <<>>, acc |-> <<>>, node |-> <<>>, unopened |-> FALSE]

Init ==
  /\ config \in Configs
  /\ stage = "idle" /\ cmds = 0 /\ events = 0 /\ stack = <<>>
  /\ mem = NewMemWatcher /\ frag = NewFragWatcher /\ forward = NewForward
  /\ records = [r \in Records |-> 0]
  /\ graph = [nodes |-> <<>>, deps |-> <<>>, room |-> <<>>, unopened |-> {}, panicked |-> FALSE]
  /\ pendingNodes = <<>>
  /\ dce = [live |-> {}, cmds |-> <<>>]
  /\ wrote = [memory |-> [p \in Pools |-> [b \in Bytes |-> 0]], field |-> [f \in Frags |-> 0]]
  /\ need = {} /\ whole = {}

-----------------------------------------------------------------------------
(***************************************************************************)
(* Nodes.                                                                  *)
(***************************************************************************)
AddNode(g, kind, cmd) ==
  [g EXCEPT !.nodes = Append(@, [kind |-> kind, cmd |-> cmd]),
            !.deps = Append(@, {}), !.room = Append(@, 0)]

Pending(n, parent, inits) == [node |-> n, parent |-> parent, inits |-> inits]

\* An action that a watcher of the configuration may see, in a command.
Event(watcher) ==
  /\ stage \in {"begun", "body", "fenced"} /\ watcher \in config.watch
  /\ events < MaxEvents
  /\ events' = events + 1
  /\ stage' = IF stage = "begun" THEN "body" ELSE stage

OnBeginCmd ==
  /\ stage = "idle" /\ cmds < MaxCmds /\ NumNodes < MaxNodes
  /\ cmds' = cmds + 1 /\ stage' = "begun"
  /\ graph' = AddNode(graph, "cmd", cmds + 1)
  /\ pendingNodes' = Append(pendingNodes, Pending(NumNodes + 1, 0, {}))
  /\ mem' = [mem EXCEPT !.fenced = FALSE]
  /\ stack' = <<[node |-> NumNodes + 1, depth |-> 0]>>
  /\ UNCHANGED <<config, events, frag, forward, records, dce, ghosts>>

\* The observations of a command get their nodes and are applied in order.
Observe(obs, isWrite) ==
  LET n == NumNodes
      k == Len(obs)
  IN /\ n + k <= MaxNodes
     /\ graph' = FoldLeft(LAMBDA g, o : AddNode(g, "obs", cmds), graph, obs)
     /\ pendingNodes' = pendingNodes \o [i \in 1 .. k |-> Pending(n + i, 0, {})]
     /\ mem' = FoldLeft(LAMBDA w, i : AddObs(w, Ctx.node, obs[i][1], obs[i][2], isWrite, n + i),
                        mem, [i \in 1 .. k |-> i])
     /\ wrote' = [wrote EXCEPT !.memory[0] =
                    [b \in Bytes |->
                       LET hit == {i \in 1 .. k : obs[i][1] <= b /\ b < obs[i][2]}
                       IN IF hit = {} THEN @[b] ELSE n + Max(hit)]]

OnReadObs(obs) ==
  /\ stage = "begun" /\ Event("memory")
  /\ Observe(obs, FALSE)
  /\ UNCHANGED <<config, cmds, stack, frag, forward, records, dce, whole, need>>

\* The fence of the command, outside its subcommands.
OnWriteObs(obs) ==
  /\ stage \in {"begun", "body"} /\ Len(stack) = 1
  /\ "memory" \in config.watch /\ events < MaxEvents
  /\ events' = events + 1 /\ stage' = "fenced"
  /\ Observe(obs, TRUE)
  /\ UNCHANGED <<config, cmds, stack, frag, forward, records, dce, whole, need>>

-----------------------------------------------------------------------------
(***************************************************************************)
(* Accesses of the current command or subcommand.                          *)
(***************************************************************************)
Covered(x) == {b \in Bytes : x[1] <= b /\ b < x[2]}
Needs(kind, from) == {<<kind, Ctx.node, m>> : m \in from \ {0, Ctx.node}}

\* What a read needs: the last writer of each byte.  Commands' own writes to
\* the application's memory are covered by observations or not at all.
OnReadSlice(p, x) ==
  /\ Event("memory")
  /\ mem' = OnSlice(mem, p, x[1], x[2], AddRead)
  /\ LET from == {wrote.memory[p][b] : b \in Covered(x)} \ {0}
     IN need' = need \cup Needs("memory", IF p = 0 THEN {n \in from : IsObs(n)} ELSE from)
  /\ UNCHANGED <<config, cmds, stack, frag, forward, records, graph, pendingNodes, dce, wrote, whole>>

OnWriteSlice(p, x) ==
  /\ Event("memory")
  /\ mem' = OnSlice(mem, p, x[1], x[2], AddWrite)
  /\ wrote' = [wrote EXCEPT !.memory[p] =
                 [b \in Bytes |-> IF b \in Covered(x) THEN Ctx.node ELSE @[b]]]
  /\ UNCHANGED <<config, cmds, stack, frag, forward, records, graph, pendingNodes, dce, whole, need>>

\* What a read of the object needs: the last writer of each field.  A field
\* that was written with the whole object is told apart, and a writer that the
\* node needs already, for the whole object, is not needed again for a field.
FieldKind(f) == IF wrote.field[f] \in whole THEN "whole" ELSE "field"

ReadFrag(f) ==
  /\ Event("fragments")
  /\ frag' = OnReadFrag(frag, Ctx.depth, Ctx.node, f)
  /\ need' = need \cup
       (IF f = Complete THEN Needs("object", {wrote.field[g] : g \in Frags})
        ELSE Needs(FieldKind(f), {m \in {wrote.field[f]} : <<"object", Ctx.node, m>> \notin need}))
  /\ UNCHANGED <<config, cmds, stack, mem, forward, records, graph, pendingNodes, dce, wrote, whole>>

WriteFrag(f) ==
  /\ Event("fragments")
  /\ frag' = OnWriteFrag(frag, Ctx.depth, Ctx.node, f)
  /\ wrote' = [wrote EXCEPT !.field =
                 [g \in Frags |-> IF f \in {g, Complete} THEN Ctx.node ELSE @[g]]]
  /\ whole' = whole \cup (IF f = Complete THEN {Ctx.node} ELSE {})
  /\ UNCHANGED <<config, cmds, stack, mem, forward, records, graph, pendingNodes, dce, need>>

\* A command that records a subcommand, to be executed by later commands.
OnRecordSubCmd(r) ==
  /\ Event("records") /\ Len(stack) = 1
  /\ records' = [records EXCEPT ![r] = Ctx.node]
  /\ UNCHANGED <<config, cmds, stack, mem, frag, forward, graph, pendingNodes, dce, ghosts>>

-----------------------------------------------------------------------------
(***************************************************************************)
(* Forward dependencies.  The ForwardNodes that an opening, its map entry  *)
(* and its closing share is pairs[i].                                      *)
(***************************************************************************)
\* The accesses of the node so far, when a flush has put them away.
Reloaded(w, n) == IF w.acc = <<>> /\ n \in DOMAIN w.node THEN [w EXCEPT !.acc = w.node[n]] ELSE w
Access(w, i, mode) == [w EXCEPT !.acc = Append(@, [pair |-> i, mode |-> mode])]
Without(w, d) == [w EXCEPT !.open = Restrict(@, DOMAIN @ \ {d})]

OpenForwardDependency(d) ==
  LET w == Reloaded(forward, Ctx.node)
      i == Len(w.pairs) + 1
  IN /\ Event("forward")
     /\ forward' = Access([w EXCEPT !.pairs = Append(@, [open |-> Ctx.node, close |-> 0]),
                                    !.open = IF d \in DOMAIN @ THEN @ ELSE Set(@, d, i)],
                          i, "open")
     /\ UNCHANGED <<config, cmds, stack, mem, frag, records, graph, pendingNodes, dce, ghosts>>

CloseForwardDependency(d) ==
  LET w == Reloaded(forward, Ctx.node)
      i == w.open[d]
  IN /\ Event("forward")
     /\ IF d \in DOMAIN w.open
        THEN /\ forward' = Access([Without(w, d) EXCEPT !.pairs[i] = [open |-> w.pairs[i].open, close |-> Ctx.node]],
                                  i, "close")
             /\ need' = need \cup {<<"forward", w.pairs[i].open, Ctx.node>>}
        ELSE forward' = [w EXCEPT !.unopened = TRUE] /\ UNCHANGED need
     /\ UNCHANGED <<config, cmds, stack, mem, frag, records, graph, pendingNodes, dce, wrote, whole>>

DropForwardDependency(d) ==
  /\ Event("forward") /\ d \in DOMAIN forward.open
  /\ forward' = Access(Without(forward, d), forward.open[d], "drop")
  /\ UNCHANGED <<config, cmds, stack, mem, frag, records, graph, pendingNodes, dce, ghosts>>

FlushForward(w, n) == [w EXCEPT !.node = Set(@, n, w.acc), !.acc = <<>>]

-----------------------------------------------------------------------------
(***************************************************************************)
(* Subcommands.  With MergeSubCmdNodes they only add what they execute to  *)
(* their command.                                                          *)
(***************************************************************************)
FlushAll(n) ==
  /\ frag' = FlushFrags(frag, n)
  /\ mem' = FlushMem(mem, n)
  /\ forward' = FlushForward(forward, n)

RecordNode(r) == {records[r]} \ {0}
RecordNeeds(n, r) == {<<"record", n, m>> : m \in RecordNode(r) \ {n}}

\* A command of the API makes no forward access before its subcommands
\* (vkQueueSubmit signals its fence when they have run).
NoForwardYet ==
  /\ forward.acc = <<>>
  /\ Ctx.node \in DOMAIN forward.node => forward.node[Ctx.node] = <<>>

OnBeginSubCmd(r) ==
  LET n == NumNodes + 1
  IN /\ ~config.merge /\ Event("records") /\ n <= MaxNodes /\ Ctx.depth < MaxDepth
     /\ NoForwardYet
     /\ graph' = AddNode(graph, "sub", cmds)
     /\ pendingNodes' = Append(pendingNodes, Pending(n, Ctx.node, RecordNode(r)))
     /\ FlushAll(Ctx.node)
     /\ stack' = Append(stack, [node |-> n, depth |-> Ctx.depth + 1])
     /\ need' = need \cup RecordNeeds(n, r) \cup {<<"record", n, Ctx.node>>}
     /\ UNCHANGED <<config, cmds, records, dce, wrote, whole>>

OnBeginMergedSubCmd(r) ==
  /\ config.merge /\ Event("records")
  /\ pendingNodes' = [i \in DOMAIN pendingNodes |->
                        IF pendingNodes[i].node = Ctx.node
                        THEN [pendingNodes[i] EXCEPT !.inits = @ \cup RecordNode(r)]
                        ELSE pendingNodes[i]]
  /\ need' = need \cup RecordNeeds(Ctx.node, r)
  /\ UNCHANGED <<config, cmds, stack, mem, frag, forward, records, graph, dce, wrote, whole>>

OnEndSubCmd ==
  /\ stage \in {"body", "fenced"} /\ Len(stack) > 1
  /\ FlushAll(Ctx.node)
  /\ stack' = Front(stack)
  /\ UNCHANGED <<config, stage, cmds, events, records, graph, pendingNodes, dce, ghosts>>

-----------------------------------------------------------------------------
(***************************************************************************)
(* The end of a command: what the watchers found becomes dependencies.     *)
(***************************************************************************)
\* Mutant of AddDependency: the edge is added the other way round.
AddReversed(g, src, tgt) == [g EXCEPT !.deps[tgt] = @ \cup {src}]

\* The dependencies of a node are in the order of Go's maps, so any of them
\* may be the last one, which must not be later than tgt.
AddDependency(g, src, tgt) ==
  IF tgt \in g.deps[src] THEN g
  ELSE IF g.room[src] = 0 \/ (\E d \in g.deps[src] : d > tgt)
  THEN [g EXCEPT !.panicked = TRUE]
  ELSE [g EXCEPT !.deps[src] = @ \cup {tgt}, !.room[src] = @ - 1]

\* Mutant of AddForward: no room is reserved for a dependency on a later node.
AddForwardNoRoom(g, n, w, a) ==
  LET pair == w.pairs[a.pair]
  IN CASE a.mode = "open" /\ pair.close \in 1 .. n -> [g EXCEPT !.deps[n] = @ \cup {pair.close}]
       [] a.mode = "close" /\ pair.open < pair.close -> AddDependency(g, pair.open, pair.close)
       [] OTHER -> g

\* One forward access of node n.  A dependency on a later node is added when
\* the later node is done, in room that is reserved for it.
AddForward(g, n, w, a) ==
  LET pair == w.pairs[a.pair]
  IN CASE a.mode = "open" /\ (pair.close = 0 \/ pair.close > n) -> [g EXCEPT !.room[n] = @ + 1]
       [] a.mode = "open" /\ pair.close \in 1 .. n -> [g EXCEPT !.deps[n] = @ \cup {pair.close}]
       [] a.mode = "close" /\ pair.open < pair.close -> AddDependency(g, pair.open, pair.close)
       [] OTHER -> g

AddNodeDependencies(g, p, f, m, w) ==
  LET own == (IF p.parent = 0 THEN {} ELSE {p.parent}) \cup p.inits
               \cup DepsOf(f.acc, p.node) \cup DepsOf(m.acc, p.node)
  IN FoldLeft(LAMBDA h, a : AddForward(h, p.node, w, a),
              [g EXCEPT !.deps[p.node] = own],
              IF p.node \in DOMAIN w.node THEN w.node[p.node] ELSE <<>>)

OnEndCmd ==
  LET f == FlushFrags(frag, Ctx.node)
      m == FlushMem(mem, Ctx.node)
      w == FlushForward(forward, Ctx.node)
      g == FoldLeft(LAMBDA h, p : AddNodeDependencies(h, p, f, m, w), graph, pendingNodes)
  IN /\ stage \in {"begun", "body", "fenced"} /\ Len(stack) = 1
     /\ graph' = IF w.unopened THEN [g EXCEPT !.unopened = @ \cup {cmds}] ELSE g
     /\ frag' = [f EXCEPT !.access = <<>>, !.acc = NoAccesses]
     /\ mem' = [m EXCEPT !.acc = NoAccesses]
     /\ forward' = [w EXCEPT !.node = <<>>, !.unopened = FALSE]
     /\ pendingNodes' = <<>> /\ stack' = <<>> /\ stage' = "idle"
     /\ UNCHANGED <<config, cmds, events, records, dce, ghosts>>

-----------------------------------------------------------------------------
(***************************************************************************)
(* Dead code elimination.                                                  *)
(***************************************************************************)
CmdNode(c) == CHOOSE n \in 1 .. NumNodes : graph.nodes[n] = [kind |-> "cmd", cmd |-> c]

\* The breadth-first search from the requested nodes.
MarkDependencies(nodes) ==
  FoldLeft(LAMBDA live, i : live \cup UNION {graph.deps[n] : n \in live},
           nodes, [i \in 1 .. NumNodes |-> i])

\* Mutant of ProcessNode: write observations stay with their dead command.
ProcessReads(b, n, live) ==
  LET node == graph.nodes[n]
  IN CASE n \notin live -> b
       [] n \in live /\ node.kind = "cmd" ->
            [orphans |-> <<>>, cmds |-> Append(b.cmds, [cmd |-> node.cmd, reads |-> b.orphans])]
       [] OTHER -> b

\* A live command takes the live observations of the dead commands before it
\* as reads of its own.
ProcessNode(b, n, live) ==
  LET node == graph.nodes[n]
  IN CASE n \notin live \/ node.kind = "sub" -> b
       [] n \in live /\ node.kind = "cmd" ->
            [orphans |-> <<>>, cmds |-> Append(b.cmds, [cmd |-> node.cmd, reads |-> b.orphans])]
       [] OTHER -> IF CmdNode(node.cmd) \in live THEN b
                   ELSE [b EXCEPT !.orphans = Append(@, n)]

\* DCECapture: requested are the nodes asked for and those of commands that
\* are alive by themselves.
DCECapture(requested) ==
  LET live == MarkDependencies(requested \cup {CmdNode(c) : c \in graph.unopened})
      built == FoldLeft(LAMBDA b, n : ProcessNode(b, n, live),
                        [orphans |-> <<>>, cmds |-> <<>>], [n \in 1 .. NumNodes |-> n])
  IN /\ stage = "idle" /\ ~graph.panicked
     /\ stage' = "built"
     /\ dce' = [live |-> live, cmds |-> built.cmds]
     /\ UNCHANGED <<config, cmds, events, stack, mem, frag, forward, records, graph,
                    pendingNodes, ghosts>>

Requests == {s \in SUBSET {n \in 1 .. NumNodes : ~IsObs(n)} : Cardinality(s) \in 1 .. MaxRequests}

Next ==
  \/ OnBeginCmd \/ OnEndCmd \/ OnEndSubCmd
  \/ \E o \in ObsLists : OnReadObs(o) \/ OnWriteObs(o)
  \/ \E p \in Pools, x \in Spans : OnReadSlice(p, x) \/ OnWriteSlice(p, x)
  \/ \E f \in Frags \cup {Complete} : ReadFrag(f) \/ WriteFrag(f)
  \/ \E r \in Records : OnRecordSubCmd(r) \/ OnBeginSubCmd(r) \/ OnBeginMergedSubCmd(r)
  \/ \E d \in DepIDs : \/ OpenForwardDependency(d) \/ CloseForwardDependency(d)
                       \/ DropForwardDependency(d)
  \/ \E s \in Requests : DCECapture(s)

Spec == Init /\ [][Next]_vars

-----------------------------------------------------------------------------
(***************************************************************************)
(* Properties.                                                             *)
(***************************************************************************)
\* The type of the graph: its three lists go together, dependencies are on
\* nodes, a node waits in pendingNodes only while its command runs, and
\* addDependency never panics for want of room or order.
TypeOK ==
  /\ config \in Configs /\ stage \in {"idle", "begun", "body", "fenced", "built"}
  /\ cmds \in 0 .. MaxCmds /\ events \in 0 .. MaxEvents
  /\ (stage \in {"idle", "built"}) <=> (stack = <<>>)
  /\ \A i \in DOMAIN stack : stack[i].depth = i - 1 /\ stack[i].node \in 1 .. NumNodes
  /\ NumNodes <= MaxNodes /\ Len(graph.deps) = NumNodes /\ Len(graph.room) = NumNodes
  /\ \A n \in 1 .. NumNodes : graph.deps[n] \subseteq 1 .. NumNodes /\ graph.room[n] \in Nat
  /\ graph.unopened \subseteq 1 .. cmds /\ ~graph.panicked
  /\ \A i \in DOMAIN pendingNodes : graph.nodes[pendingNodes[i].node].cmd = cmds /\ stack # <<>>
  /\ dce.live \subseteq 1 .. NumNodes

\* The interval lists stay sorted and without overlap through every Update
\* and Replace, empty slices included, and between commands they give for
\* each byte exactly the node that wrote it last (in the application's pool,
\* where only observations count: if that was an observation).
ListsExact ==
  \A p \in Pools :
    /\ Sorted(mem.pending[p]) /\ Sorted(mem.writes[p])
    /\ stage = "idle" => \A b \in Bytes :
         LET n == wrote.memory[p][b]
         IN (p = 0 => n # 0 /\ IsObs(n)) => ValuesAt(mem.writes[p], b) = {n} \ {0}

Settled(n) == \A i \in DOMAIN pendingNodes : pendingNodes[i].node # n
InGraph(kind) ==
  \A x \in need : x[1] = kind /\ Settled(x[2]) /\ Settled(x[3]) => x[3] \in graph.deps[x[2]]

\* A node that reads memory depends on the node that wrote it last, whatever
\* commands, subcommands, observations and fences came between, and however
\* the slices overlap; only what the node wrote itself before is left out.
MemoryDepsSound == InGraph("memory")

\* The same for the fields of an object of the API's state, through complete
\* reads and writes of the object before and after, when the last writer of
\* the field has not written the object as a whole: the accesses that
\* OnReadFrag and OnWriteFrag leave out as covered never hide a dependency.
FieldDepsSound == InGraph("field")

\* The same for reads of a whole object, which depend on the last writer of
\* each of its fields.
ObjectDepsSound == InGraph("object")

\* The same for a field whose last writer wrote the whole object, as the
\* clearing of a map does ("Write of complete fragment => replaces all
\* writes", fragments.go:268): a later read of the field depends on it.
WholeWritesSeen == InGraph("whole")

\* A node that opened a forward dependency depends on the one that closed it,
\* though that one comes later.
ForwardDepsSound == InGraph("forward")

ObsOf(c) == {n \in 1 .. NumNodes : IsObs(n) /\ graph.nodes[n].cmd = c}
Ascending(s) == \A i, j \in DOMAIN s : i < j => s[i] < s[j]

\* DCE keeps what the live commands need: with a live node the commands of
\* all nodes that it needs, in the order of the capture; an observation that
\* it needs is applied by a live command that is not later, and no
\* observation is applied out of order, also when it moved to another command.
LiveFaithful ==
  LET at(c) == {i \in DOMAIN dce.cmds : dce.cmds[i].cmd = c}
      applied(i) == ToSet(dce.cmds[i].reads) \cup ObsOf(dce.cmds[i].cmd)
  IN stage = "built" =>
       /\ Ascending([i \in DOMAIN dce.cmds |-> dce.cmds[i].cmd])
       /\ \A i \in DOMAIN dce.cmds :
            /\ Ascending(dce.cmds[i].reads)
            /\ \A a \in ToSet(dce.cmds[i].reads), b \in ObsOf(dce.cmds[i].cmd) : a < b
            /\ \A j \in 1 .. i - 1 : \A a \in applied(j), b \in applied(i) : a < b
       /\ \A x \in need : x[1] \notin {"object", "whole"} /\ x[2] \in dce.live =>
            \E i \in at(graph.nodes[x[2]].cmd) :
              IF IsObs(x[3]) THEN \E j \in 1 .. i : x[3] \in applied(j)
              ELSE at(graph.nodes[x[3]].cmd) # {}
=============================================================================
