----------------------- MODULE DependencyGraphProofs ------------------------
(***************************************************************************)
(* Proofs about DependencyGraph, for every capture: any number of          *)
(* commands, nested subcommands, observations, pools, fields and forward   *)
(* dependencies. The invariant has a part for the structure of the graph,  *)
(* one for memory, one for forward dependencies and one for the fields'    *)
(* watcher.                                                                *)
(***************************************************************************)
EXTENDS WatcherProofs

-----------------------------------------------------------------------------
(***************************************************************************)
(* The inductive invariant.                                                *)
(***************************************************************************)
\* Nodes up to Base are those of the commands that have ended.
Base == NumNodes - Len(pendingNodes)

\* The stage of the command, the counts and the graph go together, and every
\* command has its node.
StageOK ==
  /\ config \in Configs /\ stage \in {"idle", "begun", "body", "fenced", "built"}
  /\ cmds \in 0 .. MaxCmds /\ events \in 0 .. MaxEvents /\ NumNodes \in 0 .. MaxNodes
  /\ stage \in {"idle", "built"} <=> stack = <<>>
  /\ stack = <<>> => pendingNodes = <<>>
  /\ GraphType(graph, NumNodes)
  /\ graph.unopened \subseteq 1 .. cmds
  /\ \A c \in 1 .. cmds : \E n \in 1 .. NumNodes : graph.nodes[n] = [kind |-> "cmd", cmd |-> c]
  /\ records \in [Records -> 0 .. NumNodes]

\* The stack holds pending nodes, one for each depth, in the order in which
\* they were made.
StackOK ==
  /\ stack \in Seq([node : Nat, depth : Nat])
  /\ \A i \in 1 .. Len(stack) :
       /\ stack[i].depth = i - 1 /\ stack[i].depth <= MaxDepth
       /\ stack[i].node \in Base + 1 .. NumNodes /\ ~IsObs(stack[i].node)
  /\ \A i, j \in 1 .. Len(stack) : i < j => stack[i].node < stack[j].node

\* The pending nodes are the last nodes of the graph, of the current command.
PendingOK ==
  /\ pendingNodes \in Seq(PendingType) /\ Len(pendingNodes) <= NumNodes
  /\ \A i \in 1 .. Len(pendingNodes) :
       /\ pendingNodes[i].node = Base + i /\ graph.nodes[Base + i].cmd = cmds
       /\ pendingNodes[i].parent \in 0 .. NumNodes /\ pendingNodes[i].inits \subseteq 1 .. NumNodes

\* The dependencies of settled nodes are on settled nodes; the others have none yet.
DepsOK ==
  /\ \A n \in 1 .. Base : graph.deps[n] \subseteq 1 .. Base
  /\ \A n \in Base + 1 .. NumNodes : graph.deps[n] = {} /\ graph.room[n] = 0
  /\ graph.panicked = FALSE
  /\ dce.live \subseteq 1 .. NumNodes

\* The structure of the state.
Struct == StageOK /\ StackOK /\ PendingOK

\* The node of the current command or subcommand, 0 between commands.
Cur == IF stack = <<>> THEN 0 ELSE Ctx.node

\* No access is pending.
NoPending == mem.pending = [p \in Pools |-> <<>>]

\* The memory watcher between the steps of a command: nothing is pending
\* before the first access, and the fence is not yet passed before the write
\* observations.
MemOK ==
  /\ MemType(mem, NumNodes)
  /\ wrote = [memory |-> wrote.memory, field |-> wrote.field]
  /\ wrote.memory \in [Pools -> [Bytes -> 0 .. NumNodes]]
  /\ stage = "begun" \/ stack = <<>> => NoPending
  /\ stage \in {"begun", "body"} => ~mem.fenced

\* The lists of the watcher agree with the last writers.
MemLists == ListsHold(mem, wrote.memory, Cur, graph.nodes)

\* A need of memory is in the graph when its node is settled; before, the
\* watcher knows it.
MemNeeds ==
  \A x \in need : x[1] = "memory" =>
    /\ x[2] \in 1 .. NumNodes /\ x[3] \in 1 .. NumNodes
    /\ IF x[2] <= Base THEN x[3] \in graph.deps[x[2]]
       ELSE MemDep(mem, Cur, x[2], x[3])

\* The nodes of the stack.
StackNodes == {stack[i].node : i \in 1 .. Len(stack)}

\* The forward watcher between the steps: nodes under the current one have
\* made no accesses.
ForwardOK ==
  /\ ForwardType(forward, NumNodes)
  /\ stack = <<>> => forward.acc = <<>> /\ forward.node = <<>>
  /\ \A n \in StackNodes : n \in DOMAIN forward.node => forward.node[n] = <<>>

\* So it is in the state.
AccessesOK == AccessesHold(forward, Cur, Base, NumNodes)

\* Those of node n in the state.
OwnOf(n) == OwnDeps(pendingNodes[n - Base], frag, mem)

\* Those of all pending nodes.
Own == [n \in Base + 1 .. NumNodes |-> OwnOf(n)]

\* EndedHold in the state.
EndedOK == EndedHold(Own, StackNodes, Cur, forward.pairs, Base, NumNodes)

\* There is room in the settled nodes for what is to come, and every forward
\* need is of a pair.
RoomOK ==
  /\ RoomHold(graph, forward.pairs, Base)
  /\ \A x \in need : x[1] = "forward" => Paired(forward.pairs, x[2], x[3])

\* The fragment watcher between the steps.
FragOK ==
  /\ FragType(frag, NumNodes)
  /\ stack = <<>> => frag.access = <<>> /\ frag.pending = <<>>

-----------------------------------------------------------------------------
(***************************************************************************)
(* The structure through the steps.                                        *)
(***************************************************************************)
\* The step adds k nodes of a kind, pending, and changes no other.
Grown(k, kind, parent, inits) ==
  /\ Added(graph, graph', NumNodes, k, kind, cmds')
  /\ pendingNodes' \in Seq(PendingType) /\ Len(pendingNodes') = Len(pendingNodes) + k
  /\ \A i \in 1 .. Len(pendingNodes) : pendingNodes'[i] = pendingNodes[i]
  /\ \A i \in 1 .. k : pendingNodes'[Len(pendingNodes) + i] = Pending(NumNodes + i, parent, inits)

\* The counts of nodes are natural numbers.
LEMMA Numbers ==
  ASSUME Struct
  PROVE  /\ NumNodes \in Nat /\ Base \in Nat /\ Len(pendingNodes) \in Nat /\ Base <= NumNodes
         /\ NumNodes = Base + Len(pendingNodes) /\ Len(stack) \in Nat /\ cmds \in Nat
         /\ DOMAIN stack = 1 .. Len(stack) /\ DOMAIN pendingNodes = 1 .. Len(pendingNodes)
<1>1. NumNodes \in Nat /\ cmds \in Nat
  BY DEF Struct, StageOK
<1>2. Len(pendingNodes) \in Nat /\ Len(pendingNodes) <= NumNodes /\ DOMAIN pendingNodes = 1 .. Len(pendingNodes)
  BY DEF Struct, PendingOK
<1>3. Len(stack) \in Nat /\ DOMAIN stack = 1 .. Len(stack)
  BY DEF Struct, StackOK
<1>4. Base \in Nat /\ Base <= NumNodes /\ NumNodes = Base + Len(pendingNodes)
  BY <1>1, <1>2 DEF Base
<1>5. QED
  BY <1>1, <1>2, <1>3, <1>4

\* The current context is the last of the stack, deeper and later than the
\* others.
LEMMA CtxIs ==
  ASSUME Struct, stack # <<>>
  PROVE  /\ Len(stack) \in Nat \ {0} /\ Ctx = stack[Len(stack)]
         /\ Ctx.node \in 1 .. NumNodes /\ Ctx.node \in Base + 1 .. NumNodes /\ ~IsObs(Ctx.node)
         /\ Ctx.depth = Len(stack) - 1 /\ Ctx.depth \in 0 .. MaxDepth
         /\ \A i \in 1 .. Len(stack) - 1 : stack[i].node < Ctx.node
<1>1. PICK m \in Nat : m = Len(stack)
  BY Numbers
<1>2. m # 0
  <2>1. stack \in Seq([node : Nat, depth : Nat])
    BY DEF Struct, StackOK
  <2>2. QED
    BY <1>1, <2>1
<1>3. Ctx = stack[m]
  BY <1>1 DEF Ctx, Last
<1>4. /\ stack[m].depth = m - 1 /\ stack[m].depth <= MaxDepth
      /\ stack[m].node \in Base + 1 .. NumNodes /\ ~IsObs(stack[m].node)
      /\ \A i \in 1 .. m - 1 : stack[i].node < stack[m].node
  <2>1. m \in 1 .. Len(stack) /\ \A i \in 1 .. m - 1 : i \in 1 .. Len(stack) /\ i < m
    BY <1>1, <1>2
  <2>2. /\ stack[m].depth = m - 1 /\ stack[m].depth <= MaxDepth
        /\ stack[m].node \in Base + 1 .. NumNodes /\ ~IsObs(stack[m].node)
    BY <2>1 DEF Struct, StackOK
  <2>3. \A i \in 1 .. m - 1 : stack[i].node < stack[m].node
    BY <2>1 DEF Struct, StackOK
  <2>4. QED
    BY <2>2, <2>3
<1>5. MaxDepth \in Nat
  BY GraphAssumption
<1>6. Base \in Nat /\ NumNodes \in Nat
  BY Numbers
<1>7. QED
  BY <1>1, <1>2, <1>3, <1>4, <1>5, <1>6

\* What a step that adds nodes leaves of the graph.
LEMMA GrownIs ==
  ASSUME Struct, NEW k \in Nat, NEW kind, NEW parent, NEW inits, Grown(k, kind, parent, inits)
  PROVE  /\ NumNodes' = NumNodes + k /\ Base' = Base /\ GraphType(graph', NumNodes')
         /\ \A n \in 1 .. NumNodes : /\ graph'.nodes[n] = graph.nodes[n] /\ graph'.deps[n] = graph.deps[n]
                                     /\ graph'.room[n] = graph.room[n]
         /\ \A n \in NumNodes + 1 .. NumNodes' : /\ graph'.nodes[n] = [kind |-> kind, cmd |-> cmds']
                                                 /\ graph'.deps[n] = {} /\ graph'.room[n] = 0
         /\ graph'.unopened = graph.unopened /\ graph'.panicked = graph.panicked
<1>1. Added(graph, graph', NumNodes, k, kind, cmds') /\ Len(pendingNodes') = Len(pendingNodes) + k
  BY DEF Grown
<1>2. NumNodes' = NumNodes + k
  BY <1>1 DEF Added, GraphType, NumNodes
<1>3. Base' = Base
  <2>1. NumNodes \in Nat /\ Len(pendingNodes) \in Nat
    BY Numbers
  <2>2. QED
    BY <1>1, <1>2, <2>1 DEF Base
<1>4. QED
  BY <1>1, <1>2, <1>3 DEF Added

\* The new nodes are pending like the others.
LEMMA PendingGrows ==
  ASSUME Struct, NEW k \in Nat, NEW kind, NEW parent \in 0 .. NumNodes, NEW inits, inits \subseteq 1 .. NumNodes,
         Grown(k, kind, parent, inits), cmds' = cmds \/ pendingNodes = <<>>
  PROVE  PendingOK'
<1>1. /\ NumNodes' = NumNodes + k /\ Base' = Base
      /\ \A n \in 1 .. NumNodes : graph'.nodes[n] = graph.nodes[n]
      /\ \A n \in NumNodes + 1 .. NumNodes' : graph'.nodes[n] = [kind |-> kind, cmd |-> cmds']
  BY GrownIs
<1>2. PICK m \in Nat : m = Len(pendingNodes) /\ NumNodes = Base + m
  BY Numbers
<1>3. Base \in Nat /\ NumNodes \in Nat
  BY Numbers
<1>4. /\ pendingNodes' \in Seq(PendingType) /\ Len(pendingNodes') = m + k
      /\ \A i \in 1 .. m : pendingNodes'[i] = pendingNodes[i]
      /\ \A i \in 1 .. k : pendingNodes'[m + i] = Pending(NumNodes + i, parent, inits)
  BY <1>2 DEF Grown
<1>5. ASSUME NEW i \in 1 .. m + k
      PROVE  /\ pendingNodes'[i].node = Base + i /\ graph'.nodes[Base + i].cmd = cmds'
             /\ pendingNodes'[i].parent \in 0 .. NumNodes + k /\ pendingNodes'[i].inits \subseteq 1 .. NumNodes + k
  <2>1. CASE i <= m
    <3>1. i \in 1 .. m /\ Base + i \in 1 .. NumNodes /\ m # 0
      BY <1>2, <1>3, <2>1
    <3>2. /\ pendingNodes[i].node = Base + i /\ graph.nodes[Base + i].cmd = cmds
          /\ pendingNodes[i].parent \in 0 .. NumNodes /\ pendingNodes[i].inits \subseteq 1 .. NumNodes
      BY <1>2, <3>1 DEF Struct, PendingOK
    <3>3. cmds' = cmds
      <4>1. pendingNodes # <<>>
        BY <1>2, <3>1
      <4>2. QED
        BY <4>1
    <3>4. 1 .. NumNodes \subseteq 1 .. NumNodes + k /\ 0 .. NumNodes \subseteq 0 .. NumNodes + k
      BY <1>3
    <3>5. QED
      BY <1>1, <1>4, <3>1, <3>2, <3>3, <3>4
  <2>2. CASE i > m
    <3>1. PICK j \in 1 .. k : i = m + j
      BY <1>2, <2>2
    <3>2. pendingNodes'[i] = Pending(NumNodes + j, parent, inits)
      BY <1>4, <3>1
    <3>3. /\ pendingNodes'[i].node = NumNodes + j /\ pendingNodes'[i].parent = parent
          /\ pendingNodes'[i].inits = inits
      BY <3>2 DEF Pending
    <3>4. NumNodes + j = Base + i /\ Base + i \in NumNodes + 1 .. NumNodes'
      BY <1>1, <1>2, <1>3, <3>1
    <3>5. graph'.nodes[Base + i].cmd = cmds'
      BY <1>1, <3>4
    <3>6. 1 .. NumNodes \subseteq 1 .. NumNodes + k /\ 0 .. NumNodes \subseteq 0 .. NumNodes + k
      BY <1>3
    <3>7. QED
      BY <3>3, <3>4, <3>5, <3>6
  <2>3. QED
    BY <1>2, <2>1, <2>2
<1>6. Len(pendingNodes') <= NumNodes + k
  BY <1>2, <1>3, <1>4
<1>7. QED
  BY <1>1, <1>4, <1>5, <1>6 DEF PendingOK

\* The stack after a step that keeps it.
LEMMA StackKept ==
  ASSUME Struct, NEW k \in Nat, NumNodes' = NumNodes + k, Base' = Base, stack' = stack,
         \A n \in 1 .. NumNodes : graph'.nodes[n] = graph.nodes[n]
  PROVE  StackOK'
<1>1. Base \in Nat /\ NumNodes \in Nat
  BY Numbers
<1>2. ASSUME NEW i \in 1 .. Len(stack)
      PROVE  /\ stack[i].depth = i - 1 /\ stack[i].depth <= MaxDepth
             /\ stack[i].node \in Base + 1 .. NumNodes + k /\ graph'.nodes[stack[i].node].kind # "obs"
  <2>1. /\ stack[i].depth = i - 1 /\ stack[i].depth <= MaxDepth
        /\ stack[i].node \in Base + 1 .. NumNodes /\ graph.nodes[stack[i].node].kind # "obs"
    BY DEF Struct, StackOK, IsObs
  <2>2. stack[i].node \in 1 .. NumNodes /\ stack[i].node \in Base + 1 .. NumNodes + k
    BY <1>1, <2>1
  <2>3. QED
    BY <2>1, <2>2
<1>3. /\ stack \in Seq([node : Nat, depth : Nat])
      /\ \A i, j \in 1 .. Len(stack) : i < j => stack[i].node < stack[j].node
  BY DEF Struct, StackOK
<1>4. QED
  BY <1>2, <1>3 DEF StackOK, IsObs

\* An event of a watcher happens in a command.
LEMMA EventIs ==
  ASSUME Struct, NEW watcher, Event(watcher)
  PROVE  /\ stack # <<>> /\ stage \in {"begun", "body", "fenced"} /\ stage' \in {"body", "fenced"}
         /\ stage' = "fenced" <=> stage = "fenced"
         /\ events' \in 0 .. MaxEvents
<1>1. stack # <<>>
  BY DEF Event, Struct, StageOK
<1>2. events' \in 0 .. MaxEvents
  <2>1. events \in 0 .. MaxEvents /\ events < MaxEvents /\ events' = events + 1 /\ MaxEvents \in Nat
    BY GraphAssumption DEF Event, Struct, StageOK
  <2>2. QED
    BY <2>1
<1>3. QED
  BY <1>1, <1>2 DEF Event

\* A step in a command that adds no nodes.
InCommand ==
  /\ stack # <<>> /\ stage' \in {"body", "fenced"} /\ events' \in 0 .. MaxEvents
  /\ stage' = "fenced" <=> stage = "fenced"
  /\ UNCHANGED <<config, cmds, stack, graph, dce>>
  /\ PendingOK' /\ Len(pendingNodes') = Len(pendingNodes) /\ pendingNodes' # <<>>
  /\ records' \in [Records -> 0 .. NumNodes]

\* Such a step keeps the structure.
LEMMA StructInCommand ==
  ASSUME Struct, InCommand
  PROVE  Struct' /\ NumNodes' = NumNodes /\ Base' = Base
<1>1. NumNodes' = NumNodes /\ Base' = Base
  BY DEF InCommand, NumNodes, Base
<1>2. StageOK'
  <2>1. /\ config' = config /\ cmds' = cmds /\ stack' = stack /\ graph' = graph /\ stack # <<>>
        /\ stage' \in {"body", "fenced"} /\ events' \in 0 .. MaxEvents
        /\ records' \in [Records -> 0 .. NumNodes]
    BY DEF InCommand
  <2>2. /\ config \in Configs /\ cmds \in 0 .. MaxCmds /\ NumNodes \in 0 .. MaxNodes
        /\ GraphType(graph, NumNodes) /\ graph.unopened \subseteq 1 .. cmds
        /\ \A c \in 1 .. cmds : \E n \in 1 .. NumNodes : graph.nodes[n] = [kind |-> "cmd", cmd |-> c]
    BY DEF Struct, StageOK
  <2>3. QED
    BY <1>1, <2>1, <2>2 DEF StageOK
<1>3. StackOK'
  <2>1. NumNodes \in Nat /\ NumNodes' = NumNodes + 0 /\ stack' = stack
        /\ \A n \in 1 .. NumNodes : graph'.nodes[n] = graph.nodes[n]
    BY <1>1, Numbers DEF InCommand
  <2>2. QED
    BY <1>1, <2>1, StackKept
<1>4. QED
  BY <1>1, <1>2, <1>3 DEF Struct, InCommand

\* The pending nodes while a command runs.
LEMMA SomePending ==
  ASSUME Struct, stack # <<>>
  PROVE  Len(pendingNodes) > 0 /\ pendingNodes # <<>>
<1>1. Base + 1 <= NumNodes
  <2>1. Ctx.node \in Base + 1 .. NumNodes
    BY CtxIs
  <2>2. QED
    BY <2>1, Numbers
<1>2. QED
  BY <1>1, Numbers

\* A step that leaves what the nodes are made of alone.
LEMMA KeepsPending ==
  ASSUME Struct, stack # <<>>, UNCHANGED <<graph, pendingNodes, cmds>>
  PROVE  PendingOK' /\ Len(pendingNodes') = Len(pendingNodes) /\ pendingNodes' # <<>>
<1>1. NumNodes' = NumNodes /\ Base' = Base /\ pendingNodes' = pendingNodes /\ graph' = graph /\ cmds' = cmds
  BY DEF NumNodes, Base
<1>2. PendingOK'
  BY <1>1 DEF Struct, PendingOK
<1>3. QED
  BY <1>1, <1>2, SomePending

\* A read of memory is such a step.
LEMMA ReadSliceIn ==
  ASSUME Struct, NEW p \in Pools, NEW x \in Spans, OnReadSlice(p, x)
  PROVE  InCommand
<1>1. Event("memory") /\ UNCHANGED <<config, cmds, stack, graph, dce, records, pendingNodes>>
  BY DEF OnReadSlice
<1>2. QED
  BY <1>1, EventIs, KeepsPending DEF InCommand, Struct, StageOK

\* A write of memory is such a step.
LEMMA WriteSliceIn ==
  ASSUME Struct, NEW p \in Pools, NEW x \in Spans, OnWriteSlice(p, x)
  PROVE  InCommand
<1>1. Event("memory") /\ UNCHANGED <<config, cmds, stack, graph, dce, records, pendingNodes>>
  BY DEF OnWriteSlice
<1>2. QED
  BY <1>1, EventIs, KeepsPending DEF InCommand, Struct, StageOK

\* A read of a field is such a step.
LEMMA ReadFragIn ==
  ASSUME Struct, NEW f, ReadFrag(f)
  PROVE  InCommand
<1>1. Event("fragments") /\ UNCHANGED <<config, cmds, stack, graph, dce, records, pendingNodes>>
  BY DEF ReadFrag
<1>2. QED
  BY <1>1, EventIs, KeepsPending DEF InCommand, Struct, StageOK

\* A write of a field is such a step.
LEMMA WriteFragIn ==
  ASSUME Struct, NEW f, WriteFrag(f)
  PROVE  InCommand
<1>1. Event("fragments") /\ UNCHANGED <<config, cmds, stack, graph, dce, records, pendingNodes>>
  BY DEF WriteFrag
<1>2. QED
  BY <1>1, EventIs, KeepsPending DEF InCommand, Struct, StageOK

\* The recording of a subcommand is such a step.
LEMMA RecordIn ==
  ASSUME Struct, NEW r \in Records, OnRecordSubCmd(r)
  PROVE  InCommand
<1>1. /\ Event("records") /\ UNCHANGED <<config, cmds, stack, graph, dce, pendingNodes>>
      /\ records' = [records EXCEPT ![r] = Ctx.node]
  BY DEF OnRecordSubCmd
<1>2. Ctx.node \in 0 .. NumNodes
  BY <1>1, EventIs, CtxIs, Numbers
<1>3. records' \in [Records -> 0 .. NumNodes]
  BY <1>1, <1>2 DEF Struct, StageOK
<1>4. QED
  BY <1>1, <1>3, EventIs, KeepsPending DEF InCommand

\* The opening of a forward dependency is such a step.
LEMMA OpenIn ==
  ASSUME Struct, NEW d, OpenForwardDependency(d)
  PROVE  InCommand
<1>1. Event("forward") /\ UNCHANGED <<config, cmds, stack, graph, dce, records, pendingNodes>>
  BY DEF OpenForwardDependency
<1>2. QED
  BY <1>1, EventIs, KeepsPending DEF InCommand, Struct, StageOK

\* The closing of a forward dependency is such a step.
LEMMA CloseIn ==
  ASSUME Struct, NEW d, CloseForwardDependency(d)
  PROVE  InCommand
<1>1. Event("forward") /\ UNCHANGED <<config, cmds, stack, graph, dce, records, pendingNodes>>
  BY DEF CloseForwardDependency
<1>2. QED
  BY <1>1, EventIs, KeepsPending DEF InCommand, Struct, StageOK

\* The dropping of a forward dependency is such a step.
LEMMA DropIn ==
  ASSUME Struct, NEW d, DropForwardDependency(d)
  PROVE  InCommand
<1>1. Event("forward") /\ UNCHANGED <<config, cmds, stack, graph, dce, records, pendingNodes>>
  BY DEF DropForwardDependency
<1>2. QED
  BY <1>1, EventIs, KeepsPending DEF InCommand, Struct, StageOK

\* What recorded a subcommand is a node.
LEMMA RecordNodes ==
  ASSUME Struct, NEW r \in Records
  PROVE  RecordNode(r) \subseteq 1 .. NumNodes
  BY Numbers DEF RecordNode, Struct, StageOK

\* A merged subcommand is such a step; it adds the recording node to the
\* initial nodes of its command.
LEMMA MergedIn ==
  ASSUME Struct, NEW r \in Records, OnBeginMergedSubCmd(r)
  PROVE  /\ InCommand
         /\ \A i \in 1 .. Len(pendingNodes) :
              pendingNodes'[i] = IF pendingNodes[i].node = Ctx.node
                                 THEN [pendingNodes[i] EXCEPT !.inits = @ \cup RecordNode(r)]
                                 ELSE pendingNodes[i]
<1>1. Event("records") /\ UNCHANGED <<config, cmds, stack, graph, dce, records>>
  BY DEF OnBeginMergedSubCmd
<1>2. PICK m \in Nat : m = Len(pendingNodes) /\ DOMAIN pendingNodes = 1 .. m /\ m > 0
  BY <1>1, EventIs, Numbers, SomePending
<1>3. pendingNodes' = [i \in 1 .. m |->
                         IF pendingNodes[i].node = Ctx.node
                         THEN [pendingNodes[i] EXCEPT !.inits = @ \cup RecordNode(r)]
                         ELSE pendingNodes[i]]
  BY <1>2 DEF OnBeginMergedSubCmd
<1>4. RecordNode(r) \subseteq 1 .. NumNodes /\ NumNodes \in Nat
  BY RecordNodes, Numbers
<1>5. ASSUME NEW i \in 1 .. m
      PROVE  /\ pendingNodes'[i] \in PendingType /\ pendingNodes'[i].node = pendingNodes[i].node
             /\ pendingNodes'[i].parent = pendingNodes[i].parent
             /\ pendingNodes'[i].inits \subseteq 1 .. NumNodes
  <2>1. PICK a : a = pendingNodes[i]
    OBVIOUS
  <2>2. a \in PendingType /\ a.inits \subseteq 1 .. NumNodes
    BY <1>2, <2>1 DEF Struct, PendingOK
  <2>3. PICK b : b = [a EXCEPT !.inits = @ \cup RecordNode(r)]
    OBVIOUS
  <2>4. b \in PendingType /\ b.node = a.node /\ b.parent = a.parent /\ b.inits = a.inits \cup RecordNode(r)
    BY <1>4, <2>2, <2>3 DEF PendingType
  <2>5. pendingNodes'[i] = a \/ pendingNodes'[i] = b
    BY <1>3, <2>1, <2>3
  <2>6. QED
    BY <1>4, <2>1, <2>2, <2>4, <2>5
<1>6. pendingNodes' \in Seq(PendingType) /\ Len(pendingNodes') = m
  <2>1. DOMAIN pendingNodes' = 1 .. m /\ pendingNodes' = [i \in DOMAIN pendingNodes' |-> pendingNodes'[i]]
    BY <1>3
  <2>2. QED
    BY <1>5, <2>1, IsSequence
<1>7. NumNodes' = NumNodes /\ Base' = Base
  BY <1>1, <1>2, <1>6 DEF NumNodes, Base
<1>8. PendingOK'
  <2>1. \A i \in 1 .. m : /\ pendingNodes[i].node = Base + i /\ graph.nodes[Base + i].cmd = cmds
                          /\ pendingNodes[i].parent \in 0 .. NumNodes
    BY <1>2 DEF Struct, PendingOK
  <2>2. m <= NumNodes /\ graph' = graph /\ cmds' = cmds
    BY <1>1, <1>2 DEF Struct, PendingOK
  <2>3. QED
    BY <1>5, <1>6, <1>7, <2>1, <2>2 DEF PendingOK
<1>9. pendingNodes' # <<>>
  BY <1>2, <1>6
<1>10. QED
  BY <1>1, <1>2, <1>3, <1>6, <1>8, <1>9, EventIs DEF InCommand, Struct, StageOK

\* A step that adds nodes keeps the stage and the counts.
LEMMA StageGrows ==
  ASSUME Struct, NEW k \in Nat, NEW kind, NEW parent, NEW inits, Grown(k, kind, parent, inits),
         NumNodes + k <= MaxNodes, UNCHANGED <<config, records>>, events' \in 0 .. MaxEvents,
         stage' \in {"begun", "body", "fenced"}, stack' # <<>>,
         cmds' = cmds \/ (cmds' = cmds + 1 /\ k = 1 /\ kind = "cmd" /\ cmds < MaxCmds)
  PROVE  StageOK'
<1>1. /\ NumNodes' = NumNodes + k /\ GraphType(graph', NumNodes')
      /\ \A n \in 1 .. NumNodes : graph'.nodes[n] = graph.nodes[n]
      /\ \A n \in NumNodes + 1 .. NumNodes' : graph'.nodes[n] = [kind |-> kind, cmd |-> cmds']
      /\ graph'.unopened = graph.unopened
  BY GrownIs
<1>2. NumNodes \in Nat /\ cmds \in Nat /\ MaxNodes \in Nat /\ MaxCmds \in Nat
  BY Numbers, GraphAssumption
<1>3. /\ config \in Configs /\ graph.unopened \subseteq 1 .. cmds /\ cmds \in 0 .. MaxCmds
      /\ \A c \in 1 .. cmds : \E n \in 1 .. NumNodes : graph.nodes[n] = [kind |-> "cmd", cmd |-> c]
      /\ records \in [Records -> 0 .. NumNodes]
  BY DEF Struct, StageOK
<1>4. cmds' \in 0 .. MaxCmds /\ 1 .. cmds \subseteq 1 .. cmds' /\ NumNodes' \in 0 .. MaxNodes
      /\ 1 .. NumNodes \subseteq 1 .. NumNodes' /\ 0 .. NumNodes \subseteq 0 .. NumNodes'
  BY <1>1, <1>2, <1>3
<1>5. ASSUME NEW c \in 1 .. cmds' PROVE \E n \in 1 .. NumNodes' : graph'.nodes[n] = [kind |-> "cmd", cmd |-> c]
  <2>1. CASE c \in 1 .. cmds
    <3>1. PICK n \in 1 .. NumNodes : graph.nodes[n] = [kind |-> "cmd", cmd |-> c]
      BY <1>3, <2>1
    <3>2. QED
      BY <1>1, <1>4, <3>1
  <2>2. CASE c \notin 1 .. cmds
    <3>1. c = cmds' /\ k = 1 /\ kind = "cmd"
      BY <1>2, <2>2
    <3>2. NumNodes' \in NumNodes + 1 .. NumNodes' /\ NumNodes' \in 1 .. NumNodes'
      BY <1>1, <1>2, <3>1
    <3>3. graph'.nodes[NumNodes'] = [kind |-> "cmd", cmd |-> c]
      BY <1>1, <3>1, <3>2
    <3>4. QED
      BY <3>2, <3>3
  <2>3. QED
    BY <2>1, <2>2
<1>6. records' \in [Records -> 0 .. NumNodes']
  BY <1>3, <1>4
<1>7. graph'.unopened \subseteq 1 .. cmds' /\ config' \in Configs
  BY <1>1, <1>3, <1>4
<1>8. (stage' \in {"idle", "built"} <=> stack' = <<>>) /\ stage' \in {"idle", "begun", "body", "fenced", "built"}
  OBVIOUS
<1>9. QED
  BY <1>1, <1>4, <1>5, <1>6, <1>7, <1>8 DEF StageOK

\* One more pending node.
LEMMA GrownOne ==
  ASSUME Struct, NEW kind \in {"cmd", "sub", "obs"}, NEW parent \in 0 .. NumNodes, NEW inits, inits \subseteq 1 .. NumNodes,
         cmds' \in Nat, graph' = AddNode(graph, kind, cmds'),
         pendingNodes' = Append(pendingNodes, Pending(NumNodes + 1, parent, inits))
  PROVE  Grown(1, kind, parent, inits)
<1>1. GraphType(graph, NumNodes) /\ NumNodes \in Nat
  BY Numbers DEF Struct, StageOK
<1>2. Added(graph, graph', NumNodes, 1, kind, cmds')
  BY <1>1, AddedOne
<1>3. pendingNodes \in Seq(PendingType)
  BY DEF Struct, PendingOK
<1>4. PICK m \in Nat : m = Len(pendingNodes)
  BY Numbers
<1>5. PICK x \in PendingType : x = Pending(NumNodes + 1, parent, inits)
  <2>1. parent \in Nat /\ inits \subseteq Nat /\ NumNodes + 1 \in Nat
    BY <1>1
  <2>2. QED
    BY <2>1, PendingIs
<1>6. /\ pendingNodes' \in Seq(PendingType) /\ Len(pendingNodes') = m + 1
      /\ pendingNodes'[m + 1] = x /\ \A i \in 1 .. m : pendingNodes'[i] = pendingNodes[i]
  BY <1>3, <1>4, <1>5, AppendIs
<1>7. \A i \in 1 .. 1 : i = 1
  OBVIOUS
<1>8. QED
  BY <1>2, <1>4, <1>5, <1>6, <1>7 DEF Grown

\* A stack with one node.
LEMMA BeginCmdStruct ==
  ASSUME Struct, OnBeginCmd
  PROVE  Struct' /\ Grown(1, "cmd", 0, {}) /\ stack = <<>> /\ pendingNodes = <<>> /\ Base = NumNodes
<1>1. NumNodes \in Nat /\ cmds \in Nat /\ stack = <<>> /\ pendingNodes = <<>>
  BY Numbers DEF Struct, StageOK, OnBeginCmd
<1>2. Grown(1, "cmd", 0, {})
  <2>1. 0 \in 0 .. NumNodes /\ {} \subseteq 1 .. NumNodes /\ cmds' \in Nat /\ cmds' = cmds + 1
    BY <1>1 DEF OnBeginCmd
  <2>2. graph' = AddNode(graph, "cmd", cmds') /\ pendingNodes' = Append(pendingNodes, Pending(NumNodes + 1, 0, {}))
    BY <2>1 DEF OnBeginCmd
  <2>3. QED
    BY <2>1, <2>2, GrownOne
<1>3. Base = NumNodes /\ 0 \in 0 .. NumNodes /\ {} \subseteq 1 .. NumNodes
  BY <1>1 DEF Base
<1>4. PendingOK'
  BY <1>1, <1>2, <1>3, PendingGrows
<1>5. stack' = <<[node |-> NumNodes + 1, depth |-> 0]>> /\ stack' # <<>>
  BY DEF OnBeginCmd
<1>6. StageOK'
  <2>1. /\ NumNodes + 1 <= MaxNodes /\ UNCHANGED <<config, records>> /\ events' \in 0 .. MaxEvents
        /\ stage' \in {"begun", "body", "fenced"} /\ cmds' = cmds + 1 /\ cmds < MaxCmds
    BY <1>1, GraphAssumption DEF OnBeginCmd, Struct, StageOK
  <2>2. QED
    BY <1>2, <1>5, <2>1, StageGrows
<1>7. StackOK'
  <2>1. /\ NumNodes' = NumNodes + 1 /\ Base' = NumNodes
        /\ \A n \in NumNodes + 1 .. NumNodes' : graph'.nodes[n] = [kind |-> "cmd", cmd |-> cmds']
    BY <1>2, <1>3, GrownIs
  <2>2. /\ stack' \in Seq([node : Nat, depth : Nat]) /\ Len(stack') = 1
        /\ stack'[1].node = NumNodes + 1 /\ stack'[1].depth = 0
    BY <1>1, <1>5
  <2>3. graph'.nodes[NumNodes + 1].kind # "obs"
    BY <1>1, <2>1
  <2>4. \A i \in 1 .. 1 : i = 1
    OBVIOUS
  <2>5. MaxDepth \in Nat
    BY GraphAssumption
  <2>6. QED
    BY <1>1, <2>1, <2>2, <2>3, <2>4, <2>5 DEF StackOK, IsObs
<1>8. QED
  BY <1>1, <1>2, <1>3, <1>4, <1>6, <1>7 DEF Struct

\* Observations add their nodes.
LEMMA ObserveGrown ==
  ASSUME Struct, NEW obs \in ObsLists, NEW isWrite, Observe(obs, isWrite), cmds' = cmds
  PROVE  Grown(Len(obs), "obs", 0, {}) /\ Len(obs) \in Nat /\ NumNodes + Len(obs) <= MaxNodes
<1>1. obs \in Seq(Spans)
  BY GraphAssumption
<1>2. PICK k \in Nat : k = Len(obs)
  BY <1>1
<1>3. GraphType(graph, NumNodes) /\ NumNodes \in Nat /\ cmds \in Nat
  BY Numbers DEF Struct, StageOK
<1>4. Added(graph, graph', NumNodes, k, "obs", cmds)
  <2>1. graph' = FoldLeft(LAMBDA g, o : AddNode(g, "obs", cmds), graph, obs)
    BY DEF Observe
  <2>2. graph' = NodeFold!Fold(cmds, graph, obs)
    BY <2>1, NodesAreFold
  <2>3. Added(graph, NodeFold!Fold(cmds, graph, obs), NumNodes, k, "obs", cmds)
    BY <1>1, <1>2, <1>3, NodesAdded
  <2>4. QED
    BY <2>2, <2>3
<1>5. PICK s : s = [i \in 1 .. k |-> Pending(NumNodes + i, 0, {})]
  OBVIOUS
<1>6. s \in Seq(PendingType) /\ Len(s) = k /\ \A i \in 1 .. k : s[i] = Pending(NumNodes + i, 0, {})
  <2>1. \A i \in 1 .. k : Pending(NumNodes + i, 0, {}) \in PendingType
    <3>1. TAKE i \in 1 .. k
    <3>2. NumNodes + i \in Nat
      BY <1>3
    <3>3. QED
      BY <3>2, PendingIs
  <2>2. QED
    BY <1>5, <2>1
<1>7. PICK t \in Seq(PendingType) : t = pendingNodes
  BY DEF Struct, PendingOK
<1>8. pendingNodes' = t \o s
  BY <1>2, <1>5, <1>7 DEF Observe
<1>9. /\ pendingNodes' \in Seq(PendingType) /\ Len(pendingNodes') = Len(t) + k
      /\ \A i \in 1 .. Len(t) : pendingNodes'[i] = t[i]
      /\ \A i \in 1 .. k : pendingNodes'[Len(t) + i] = s[i]
  BY <1>6, <1>8, ConcatIs
<1>10. QED
  BY <1>2, <1>4, <1>6, <1>7, <1>9 DEF Grown, Observe

\* So they keep the structure.
LEMMA ObsStruct ==
  ASSUME Struct, NEW obs \in ObsLists, OnReadObs(obs) \/ OnWriteObs(obs)
  PROVE  /\ Struct' /\ Grown(Len(obs), "obs", 0, {}) /\ Len(obs) \in Nat /\ stack # <<>>
         /\ stage \in {"begun", "body"} /\ stage' \in {"body", "fenced"}
<1>1. /\ UNCHANGED <<config, cmds, stack, frag, forward, records, dce, need>>
      /\ \E w \in BOOLEAN : Observe(obs, w)
  BY DEF OnReadObs, OnWriteObs
<1>2. /\ stage \in {"begun", "body"} /\ stage' \in {"body", "fenced"} /\ events < MaxEvents
      /\ events' = events + 1
  BY DEF OnReadObs, OnWriteObs, Event
<1>3. stack # <<>> /\ events' \in 0 .. MaxEvents
  BY <1>2, GraphAssumption DEF Struct, StageOK
<1>4. Grown(Len(obs), "obs", 0, {}) /\ Len(obs) \in Nat /\ NumNodes + Len(obs) <= MaxNodes
  BY <1>1, ObserveGrown
<1>5. 0 \in 0 .. NumNodes /\ {} \subseteq 1 .. NumNodes
  BY Numbers
<1>6. PendingOK'
  BY <1>1, <1>4, <1>5, PendingGrows
<1>7. StageOK'
  BY <1>1, <1>2, <1>3, <1>4, StageGrows
<1>8. StackOK'
  <2>1. /\ NumNodes' = NumNodes + Len(obs) /\ Base' = Base
        /\ \A n \in 1 .. NumNodes : graph'.nodes[n] = graph.nodes[n]
    BY <1>4, GrownIs
  <2>2. QED
    BY <1>1, <1>4, <2>1, StackKept
<1>9. QED
  BY <1>2, <1>3, <1>4, <1>6, <1>7, <1>8 DEF Struct

\* A subcommand begins: one node, one more on the stack.
LEMMA BeginSubStruct ==
  ASSUME Struct, NEW r \in Records, OnBeginSubCmd(r)
  PROVE  /\ Struct' /\ Grown(1, "sub", Ctx.node, RecordNode(r)) /\ stack # <<>>
         /\ Len(stack') = Len(stack) + 1 /\ stack'[Len(stack) + 1].node = NumNodes + 1
         /\ \A i \in 1 .. Len(stack) : stack'[i] = stack[i]
<1>1. Event("records") /\ stack # <<>>
  BY EventIs DEF OnBeginSubCmd
<1>2. /\ Ctx.node \in 1 .. NumNodes /\ Ctx.depth = Len(stack) - 1 /\ NumNodes \in Nat /\ cmds \in Nat
      /\ Len(stack) \in Nat \ {0}
  BY <1>1, CtxIs, Numbers
<1>3. RecordNode(r) \subseteq 1 .. NumNodes
  BY RecordNodes
<1>4. Grown(1, "sub", Ctx.node, RecordNode(r))
  <2>1. /\ cmds' = cmds /\ graph' = AddNode(graph, "sub", cmds)
        /\ pendingNodes' = Append(pendingNodes, Pending(NumNodes + 1, Ctx.node, RecordNode(r)))
    BY DEF OnBeginSubCmd
  <2>2. Ctx.node \in 0 .. NumNodes
    BY <1>2
  <2>3. QED
    BY <1>2, <1>3, <2>1, <2>2, GrownOne
<1>5. PendingOK'
  <2>1. cmds' = cmds /\ Ctx.node \in 0 .. NumNodes
    BY <1>2 DEF OnBeginSubCmd
  <2>2. QED
    BY <1>3, <1>4, <2>1, PendingGrows
<1>6. PICK m \in Nat : m = Len(stack)
  BY <1>2
<1>7. PICK x \in [node : Nat, depth : Nat] : x = [node |-> NumNodes + 1, depth |-> m]
  <2>1. NumNodes + 1 \in Nat
    BY <1>2
  <2>2. [node |-> NumNodes + 1, depth |-> m] \in [node : Nat, depth : Nat]
    BY <2>1
  <2>3. QED
    BY <2>2
<1>8. stack' = Append(stack, x)
  <2>1. Ctx.depth + 1 = m
    BY <1>2, <1>6
  <2>2. QED
    BY <1>7, <2>1 DEF OnBeginSubCmd
<1>9. /\ stack' \in Seq([node : Nat, depth : Nat]) /\ Len(stack') = m + 1 /\ stack'[m + 1] = x
      /\ \A i \in 1 .. m : stack'[i] = stack[i]
  <2>1. stack \in Seq([node : Nat, depth : Nat])
    BY DEF Struct, StackOK
  <2>2. QED
    BY <1>6, <1>8, <2>1, AppendIs
<1>10. stack' # <<>>
  BY <1>6, <1>9
<1>11. StageOK'
  <2>1. /\ NumNodes + 1 <= MaxNodes /\ UNCHANGED <<config, records, cmds>>
    BY DEF OnBeginSubCmd
  <2>2. events' \in 0 .. MaxEvents /\ stage' \in {"begun", "body", "fenced"}
    BY <1>1, EventIs
  <2>3. QED
    BY <1>4, <1>10, <2>1, <2>2, StageGrows
<1>12. StackOK'
  <2>1. /\ NumNodes' = NumNodes + 1 /\ Base' = Base
        /\ \A n \in 1 .. NumNodes : graph'.nodes[n] = graph.nodes[n]
        /\ \A n \in NumNodes + 1 .. NumNodes' : graph'.nodes[n] = [kind |-> "sub", cmd |-> cmds']
    BY <1>4, GrownIs
  <2>2. Base \in Nat /\ Base <= NumNodes /\ MaxDepth \in Nat /\ m <= MaxDepth
    <3>1. Ctx.depth < MaxDepth
      BY DEF OnBeginSubCmd
    <3>2. QED
      BY <1>2, <1>6, <3>1, Numbers, GraphAssumption
  <2>3. ASSUME NEW i \in 1 .. m
        PROVE  /\ stack[i].depth = i - 1 /\ stack[i].depth <= MaxDepth
               /\ stack[i].node \in Base + 1 .. NumNodes /\ graph'.nodes[stack[i].node].kind # "obs"
    <3>1. /\ stack[i].depth = i - 1 /\ stack[i].depth <= MaxDepth
          /\ stack[i].node \in Base + 1 .. NumNodes /\ graph.nodes[stack[i].node].kind # "obs"
      BY <1>6 DEF Struct, StackOK, IsObs
    <3>2. stack[i].node \in 1 .. NumNodes
      BY <1>2, <2>2, <3>1
    <3>3. QED
      BY <2>1, <3>1, <3>2
  <2>4. ASSUME NEW i \in 1 .. m + 1
        PROVE  /\ stack'[i].depth = i - 1 /\ stack'[i].depth <= MaxDepth
               /\ stack'[i].node \in Base + 1 .. NumNodes + 1 /\ graph'.nodes[stack'[i].node].kind # "obs"
    <3>1. CASE i = m + 1
      <4>1. stack'[i].depth = m /\ stack'[i].node = NumNodes + 1
        BY <1>7, <1>9, <3>1
      <4>2. NumNodes + 1 \in NumNodes + 1 .. NumNodes' /\ NumNodes + 1 \in Base + 1 .. NumNodes + 1 /\ m = i - 1
        BY <1>2, <2>1, <2>2, <3>1
      <4>3. graph'.nodes[NumNodes + 1].kind = "sub"
        BY <2>1, <4>2
      <4>4. QED
        BY <2>2, <4>1, <4>2, <4>3
    <3>2. CASE i # m + 1
      <4>1. i \in 1 .. m
        BY <3>2
      <4>2. stack'[i] = stack[i]
        BY <1>9, <4>1
      <4>3. Base + 1 .. NumNodes \subseteq Base + 1 .. NumNodes + 1
        BY <1>2, <2>2
      <4>4. QED
        BY <2>3, <4>1, <4>2, <4>3
    <3>3. QED
      BY <3>1, <3>2
  <2>5. ASSUME NEW i \in 1 .. m + 1, NEW j \in 1 .. m + 1, i < j PROVE stack'[i].node < stack'[j].node
    <3>1. i \in 1 .. m /\ stack'[i] = stack[i] /\ stack[i].node \in Base + 1 .. NumNodes
      <4>1. i \in 1 .. m
        BY <2>5
      <4>2. QED
        BY <1>9, <2>3, <4>1
    <3>2. CASE j = m + 1
      <4>1. stack'[j].node = NumNodes + 1
        BY <1>7, <1>9, <3>2
      <4>2. QED
        BY <1>2, <2>2, <3>1, <4>1
    <3>3. CASE j # m + 1
      <4>1. j \in 1 .. m /\ stack'[j] = stack[j]
        BY <1>9, <3>3
      <4>2. stack[i].node < stack[j].node
        BY <1>6, <2>5, <3>1, <4>1 DEF Struct, StackOK
      <4>3. QED
        BY <3>1, <4>1, <4>2
    <3>4. QED
      BY <3>2, <3>3
  <2>6. QED
    BY <1>9, <2>1, <2>4, <2>5 DEF StackOK, IsObs
<1>13. QED
  BY <1>1, <1>4, <1>5, <1>6, <1>7, <1>9, <1>11, <1>12 DEF Struct

\* A subcommand ends: one less on the stack.
LEMMA EndSubStruct ==
  ASSUME Struct, OnEndSubCmd
  PROVE  /\ Struct' /\ NumNodes' = NumNodes /\ Base' = Base /\ stack # <<>> /\ stack' # <<>>
         /\ Len(stack') = Len(stack) - 1 /\ Len(stack) \in Nat /\ Len(stack) > 1
         /\ \A i \in 1 .. Len(stack) - 1 : stack'[i] = stack[i]
<1>1. PICK s \in Seq([node : Nat, depth : Nat]) : s = stack
  BY DEF Struct, StackOK
<1>2. PICK m \in Nat : m = Len(s) /\ m > 1 /\ m > 0
  BY <1>1 DEF OnEndSubCmd
<1>3. stack' = SubSeq(s, 1, m - 1)
  BY <1>1, <1>2 DEF OnEndSubCmd, Front
<1>4. /\ stack' \in Seq([node : Nat, depth : Nat]) /\ Len(stack') = m - 1
      /\ \A i \in 1 .. m - 1 : stack'[i] = s[i]
  <2>1. PICK S : S = [node : Nat, depth : Nat]
    OBVIOUS
  <2>2. s \in Seq(S)
    BY <2>1
  <2>3. /\ SubSeq(s, 1, m - 1) \in Seq(S) /\ Len(SubSeq(s, 1, m - 1)) = m - 1
        /\ \A i \in 1 .. m - 1 : SubSeq(s, 1, m - 1)[i] = s[i]
    BY <1>2, <2>2, ButLastIs
  <2>4. QED
    BY <1>3, <2>1, <2>3, Zenon
<1>5. stack # <<>> /\ stack' # <<>>
  BY <1>1, <1>2, <1>4
<1>6. NumNodes' = NumNodes /\ Base' = Base
      /\ UNCHANGED <<config, stage, cmds, events, records, graph, pendingNodes, dce, ghosts>>
  BY DEF OnEndSubCmd, NumNodes, Base
<1>7. StageOK'
  BY <1>5, <1>6 DEF Struct, StageOK
<1>8. PendingOK'
  BY <1>6 DEF Struct, PendingOK
<1>9. StackOK'
  <2>1. \A i \in 1 .. m - 1 : i \in 1 .. Len(stack)
    BY <1>1, <1>2
  <2>2. \A i \in 1 .. m - 1 : /\ s[i].depth = i - 1 /\ s[i].depth <= MaxDepth
                              /\ s[i].node \in Base + 1 .. NumNodes /\ graph.nodes[s[i].node].kind # "obs"
    BY <1>1, <2>1 DEF Struct, StackOK, IsObs
  <2>3. \A i, j \in 1 .. m - 1 : i < j => s[i].node < s[j].node
    BY <1>1, <2>1 DEF Struct, StackOK
  <2>4. QED
    BY <1>4, <1>6, <2>2, <2>3 DEF StackOK, IsObs
<1>10. QED
  BY <1>1, <1>2, <1>4, <1>5, <1>6, <1>7, <1>8, <1>9 DEF Struct

-----------------------------------------------------------------------------
(***************************************************************************)
(* Memory through the steps.                                               *)
(***************************************************************************)
\* The invariant of memory.
MemInv == MemOK /\ MemLists /\ MemNeeds

\* The current node.
LEMMA CurIs ==
  ASSUME Struct
  PROVE  /\ stack = <<>> => Cur = 0
         /\ stack # <<>> => Cur = Ctx.node /\ Cur \in 1 .. NumNodes /\ Cur # 0 /\ Cur \in Base + 1 .. NumNodes
<1>1. CASE stack = <<>>
  BY <1>1 DEF Cur
<1>2. CASE stack # <<>>
  <2>1. Cur = Ctx.node
    BY <1>2 DEF Cur
  <2>2. Ctx.node \in 1 .. NumNodes /\ NumNodes \in Nat /\ Ctx.node \in Base + 1 .. NumNodes
    BY <1>2, CtxIs, Numbers
  <2>3. Ctx.node # 0
    BY <2>2
  <2>4. QED
    BY <1>2, <2>1, <2>2, <2>3
<1>3. QED
  BY <1>1, <1>2

\* The memory needs after a step that keeps the settled nodes.
LEMMA NeedsStep ==
  ASSUME Struct, MemNeeds, NumNodes' \in Nat, NumNodes <= NumNodes', Base' = Base,
         \A n \in 1 .. NumNodes : graph'.deps[n] = graph.deps[n],
         \A x \in need' : x[1] = "memory" => x \in need,
         \A n, m : MemDep(mem, Cur, n, m) => MemDep(mem', Cur', n, m)
  PROVE  MemNeeds'
<1>1. NumNodes \in Nat /\ Base \in Nat /\ 1 .. NumNodes \subseteq 1 .. NumNodes'
  BY Numbers
<1>2. ASSUME NEW x \in need', x[1] = "memory"
      PROVE  /\ x[2] \in 1 .. NumNodes' /\ x[3] \in 1 .. NumNodes'
             /\ x[2] <= Base => x[3] \in graph'.deps[x[2]]
             /\ ~(x[2] <= Base) => MemDep(mem', Cur', x[2], x[3])
  <2>1. PICK n, m : n = x[2] /\ m = x[3]
    OBVIOUS
  <2>2. /\ n \in 1 .. NumNodes /\ m \in 1 .. NumNodes
        /\ IF n <= Base THEN m \in graph.deps[n] ELSE MemDep(mem, Cur, n, m)
    BY <1>2, <2>1 DEF MemNeeds
  <2>3. n <= Base => m \in graph'.deps[n]
    BY <2>2
  <2>4. ~(n <= Base) => MemDep(mem', Cur', n, m)
    BY <2>2
  <2>5. QED
    BY <1>1, <2>1, <2>2, <2>3, <2>4
<1>3. QED
  BY <1>2 DEF MemNeeds

\* Steps of the other watchers.
LEMMA MemFrame ==
  ASSUME Struct, MemInv, InCommand, mem' = mem, wrote'.memory = wrote.memory,
         wrote' = [memory |-> wrote'.memory, field |-> wrote'.field],
         \A x \in need' : x[1] = "memory" => x \in need
  PROVE  MemInv'
<1>1. Struct' /\ NumNodes' = NumNodes /\ Base' = Base /\ NumNodes \in Nat
  BY StructInCommand, Numbers
<1>2. stack' = stack /\ graph' = graph /\ stack # <<>> /\ stage' # "begun"
  BY DEF InCommand
<1>3. Cur' = Cur
  BY <1>2 DEF Cur, Ctx
<1>4. MemOK'
  <2>1. stage' \in {"begun", "body"} => stage \in {"begun", "body"}
    BY DEF InCommand, Struct, StageOK
  <2>2. QED
    BY <1>1, <1>2, <2>1 DEF MemInv, MemOK
<1>5. MemLists'
  BY <1>2, <1>3 DEF MemInv, MemLists
<1>6. MemNeeds'
  <2>1. MemNeeds
    BY DEF MemInv
  <2>2. QED
    BY <1>1, <1>2, <1>3, <2>1, NeedsStep
<1>7. QED
  BY <1>4, <1>5, <1>6 DEF MemInv

\* What MemOK says after a slice access.
LEMMA SliceMem ==
  ASSUME Struct, MemInv, NEW p \in Pools, NEW x \in Spans, NEW F \in {AddRead, AddWrite},
         mem' = OnSlice(mem, p, x[1], x[2], F), InCommand,
         wrote' = [memory |-> wrote'.memory, field |-> wrote'.field],
         wrote'.memory \in [Pools -> [Bytes -> 0 .. NumNodes]]
  PROVE  /\ MemType(mem, NumNodes) /\ Sliced(mem, p, x[1], x[2], F, mem') /\ MemOK'
         /\ Struct' /\ NumNodes' = NumNodes /\ Base' = Base /\ NumNodes \in Nat /\ Cur' = Cur
         /\ stack # <<>> /\ graph' = graph
<1>1. Struct' /\ NumNodes' = NumNodes /\ Base' = Base /\ NumNodes \in Nat
  BY StructInCommand, Numbers
<1>2. stack' = stack /\ graph' = graph /\ stack # <<>> /\ stage' # "begun"
  BY DEF InCommand
<1>3. Cur' = Cur
  BY <1>2 DEF Cur, Ctx
<1>4. MemType(mem, NumNodes)
  BY DEF MemInv, MemOK
<1>5. Sliced(mem, p, x[1], x[2], F, mem') /\ MemType(mem', NumNodes)
  <2>1. Updater(PendingModes, F)
    BY Updaters
  <2>2. x[1] \in Nat /\ x[2] \in Nat /\ x[1] <= x[2]
    BY SpanIs
  <2>3. PICK s \in Nat, e \in Nat : s = x[1] /\ e = x[2] /\ s <= e
    BY <2>2
  <2>4. Sliced(mem, p, s, e, F, OnSlice(mem, p, s, e, F)) /\ MemType(OnSlice(mem, p, s, e, F), NumNodes)
    BY <1>1, <1>4, <2>1, <2>3, OnSliceIs
  <2>5. QED
    BY <2>3, <2>4
<1>6. MemOK'
  <2>1. stage' \in {"begun", "body"} => stage \in {"begun", "body"}
    BY DEF InCommand, Struct, StageOK
  <2>2. mem'.fenced = mem.fenced
    BY <1>5 DEF Sliced
  <2>3. stage' \in {"begun", "body"} => ~mem'.fenced
    BY <2>1, <2>2 DEF MemInv, MemOK
  <2>4. QED
    BY <1>1, <1>2, <1>5, <2>3 DEF MemOK
<1>7. QED
  BY <1>1, <1>2, <1>3, <1>4, <1>5, <1>6

\* The invariant of memory, when memory is read.
LEMMA ReadSliceMem ==
  ASSUME Struct, MemInv, NEW p \in Pools, NEW x \in Spans, OnReadSlice(p, x)
  PROVE  MemInv'
<1>1. InCommand
  BY ReadSliceIn
<1>2. mem' = OnSlice(mem, p, x[1], x[2], AddRead) /\ wrote' = wrote
  BY DEF OnReadSlice
<1>3. /\ wrote' = [memory |-> wrote'.memory, field |-> wrote'.field]
      /\ wrote'.memory \in [Pools -> [Bytes -> 0 .. NumNodes]]
  BY <1>2 DEF MemInv, MemOK
<1>4. /\ MemType(mem, NumNodes) /\ Sliced(mem, p, x[1], x[2], AddRead, mem') /\ MemOK'
      /\ Struct' /\ NumNodes' = NumNodes /\ Base' = Base /\ NumNodes \in Nat /\ Cur' = Cur
      /\ stack # <<>> /\ graph' = graph
  <2>1. AddRead \in {AddRead, AddWrite}
    OBVIOUS
  <2>2. QED
    BY <1>1, <1>2, <1>3, <2>1, SliceMem
<1>5. ASSUME NEW q \in Pools, NEW b \in Bytes
      PROVE  LET m == wrote.memory[q][b] IN ListAt(mem', m, Cur, graph.nodes[m].kind = "obs", q, b)
  <2>1. PICK m, o : m = wrote.memory[q][b] /\ o = (graph.nodes[m].kind = "obs")
    OBVIOUS
  <2>2. ListAt(mem, m, Cur, o, q, b)
    BY <2>1 DEF MemInv, MemLists, ListsHold
  <2>3. PICK A, B : A = ValuesAt(mem.pending[q], b) /\ B = ValuesAt(mem'.pending[q], b)
    OBVIOUS
  <2>4. /\ ValuesAt(mem'.writes[q], b) = ValuesAt(mem.writes[q], b) /\ A \in PendingModes \cup {{}}
        /\ B = A \/ B = AddRead[A]
    <3>1. SlicedAt(mem, mem', p, x, AddRead, q, b)
      BY <1>4, SliceAt
    <3>2. QED
      BY <2>3, <3>1 DEF SlicedAt
  <2>5. "W" \in B <=> "W" \in A
    BY <2>4, ModesAfter
  <2>6. ListAt(mem', m, Cur, o, q, b)
    BY <2>2, <2>3, <2>4, <2>5 DEF ListAt
  <2>7. QED
    BY <2>1, <2>6
<1>6. MemLists'
  BY <1>2, <1>4, <1>5 DEF MemLists, ListsHold
<1>7. ASSUME NEW n, NEW m, MemDep(mem, Cur, n, m) PROVE MemDep(mem', Cur, n, m)
  <2>1. AddRead \in {AddRead, AddWrite}
    OBVIOUS
  <2>2. QED
    BY <1>4, <1>7, <2>1, SliceDeps
<1>8. ASSUME NEW y \in need', y \notin need
      PROVE  y[2] = Cur /\ y[3] \in 1 .. NumNodes /\ MemDep(mem', Cur, y[2], y[3])
  <2>1. PICK from : /\ from = {wrote.memory[p][b] : b \in Covered(x)} \ {0}
                    /\ need' = need \cup Needs("memory", IF p = 0 THEN {n \in from : IsObs(n)} ELSE from)
    BY DEF OnReadSlice
  <2>2. PICK m \in from \ {0, Ctx.node} : y = <<"memory", Ctx.node, m>> /\ (p = 0 => IsObs(m))
    BY <1>8, <2>1 DEF Needs
  <2>3. Cur = Ctx.node /\ y[2] = Cur /\ y[3] = m
    BY <1>4, <2>2, CurIs
  <2>4. PICK b \in Covered(x) : m = wrote.memory[p][b]
    BY <2>1
  <2>5. b \in Bytes
    BY DEF Covered
  <2>6. m \in 1 .. NumNodes
    <3>1. m \in 0 .. NumNodes /\ m # 0
      BY <1>2, <1>3, <2>1, <2>4, <2>5
    <3>2. QED
      BY <1>4, <3>1
  <2>7. ListAt(mem, m, Cur, graph.nodes[m].kind = "obs", p, b)
    BY <2>4, <2>5 DEF MemInv, MemLists, ListsHold
  <2>8. "W" \notin ValuesAt(mem.pending[p], b)
    BY <2>2, <2>3, <2>7 DEF ListAt
  <2>9. ValuesAt(mem.writes[p], b) = {m}
    BY <2>2, <2>6, <2>7, <2>8 DEF ListAt, IsObs
  <2>10. PICK A, B : A = ValuesAt(mem.pending[p], b) /\ B = ValuesAt(mem'.pending[p], b)
    OBVIOUS
  <2>11. /\ ValuesAt(mem'.writes[p], b) = ValuesAt(mem.writes[p], b) /\ A \in PendingModes \cup {{}}
         /\ B = AddRead[A]
    <3>1. SlicedAt(mem, mem', p, x, AddRead, p, b)
      BY <1>4, <2>5, SliceAt
    <3>2. QED
      BY <2>4, <2>10, <3>1 DEF SlicedAt
  <2>12. "R" \in B
    BY <2>8, <2>10, <2>11, ModesAfter
  <2>13. MemComing(mem', Cur, Cur, m)
    BY <2>5, <2>9, <2>10, <2>11, <2>12 DEF MemComing
  <2>14. QED
    BY <2>3, <2>6, <2>13 DEF MemDep
<1>9. MemNeeds'
  <2>1. ASSUME NEW y \in need', y[1] = "memory"
        PROVE  /\ y[2] \in 1 .. NumNodes /\ y[3] \in 1 .. NumNodes
               /\ IF y[2] <= Base THEN y[3] \in graph.deps[y[2]] ELSE MemDep(mem', Cur, y[2], y[3])
    <3>1. PICK n, m : n = y[2] /\ m = y[3]
      OBVIOUS
    <3>2. CASE y \in need
      <4>1. /\ n \in 1 .. NumNodes /\ m \in 1 .. NumNodes
            /\ IF n <= Base THEN m \in graph.deps[n] ELSE MemDep(mem, Cur, n, m)
        BY <2>1, <3>1, <3>2 DEF MemInv, MemNeeds
      <4>2. QED
        BY <1>7, <3>1, <4>1
    <3>3. CASE y \notin need
      <4>1. n = Cur /\ m \in 1 .. NumNodes /\ MemDep(mem', Cur, n, m)
        BY <1>8, <3>1, <3>3
      <4>2. Cur \in 1 .. NumNodes /\ ~(Cur <= Base)
        <5>1. Cur \in 1 .. NumNodes /\ Cur \in Base + 1 .. NumNodes /\ Base \in Nat
          BY <1>4, CurIs, Numbers
        <5>2. QED
          BY <5>1
      <4>3. QED
        BY <3>1, <4>1, <4>2
    <3>4. QED
      BY <3>2, <3>3
  <2>2. QED
    BY <1>4, <2>1 DEF MemNeeds
<1>10. QED
  BY <1>4, <1>6, <1>9 DEF MemInv

\* The same, when it is written.
LEMMA WriteSliceMem ==
  ASSUME Struct, MemInv, NEW p \in Pools, NEW x \in Spans, OnWriteSlice(p, x)
  PROVE  MemInv'
<1>1. InCommand
  BY WriteSliceIn
<1>2. mem' = OnSlice(mem, p, x[1], x[2], AddWrite) /\ need' = need
  BY DEF OnWriteSlice
<1>3. PICK wm : wm = wrote.memory
  OBVIOUS
<1>4. wrote = [memory |-> wm, field |-> wrote.field] /\ wm \in [Pools -> [Bytes -> 0 .. NumNodes]]
  BY <1>3 DEF MemInv, MemOK
<1>5. Cur = Ctx.node /\ Cur \in 0 .. NumNodes /\ ~IsObs(Cur) /\ NumNodes \in Nat
  <2>1. stack # <<>>
    BY <1>1 DEF InCommand
  <2>2. Cur = Ctx.node /\ Cur \in 1 .. NumNodes /\ NumNodes \in Nat /\ ~IsObs(Ctx.node)
    BY <2>1, CurIs, CtxIs, Numbers
  <2>3. QED
    BY <2>2
<1>6. PICK row \in [Bytes -> 0 .. NumNodes] : row = [b \in Bytes |-> IF b \in Covered(x) THEN Cur ELSE wm[p][b]]
  <2>1. \A b \in Bytes : (IF b \in Covered(x) THEN Cur ELSE wm[p][b]) \in 0 .. NumNodes
    BY <1>4, <1>5
  <2>2. [b \in Bytes |-> IF b \in Covered(x) THEN Cur ELSE wm[p][b]] \in [Bytes -> 0 .. NumNodes]
    BY <2>1
  <2>3. QED
    BY <2>2
<1>7. PICK vm \in [Pools -> [Bytes -> 0 .. NumNodes]] : vm = [wm EXCEPT ![p] = row]
  <2>1. [wm EXCEPT ![p] = row] \in [Pools -> [Bytes -> 0 .. NumNodes]]
    BY <1>4
  <2>2. QED
    BY <2>1
<1>8. wrote' = [memory |-> vm, field |-> wrote.field]
  <2>1. wrote' = [wrote EXCEPT !.memory[p] = row]
    BY <1>3, <1>5, <1>6 DEF OnWriteSlice
  <2>2. PICK a, f : a = wrote /\ f = wrote.field
    OBVIOUS
  <2>3. a = [memory |-> wm, field |-> f]
    BY <1>4, <2>2, Zenon
  <2>4. [a EXCEPT !.memory[p] = row] = [memory |-> [wm EXCEPT ![p] = row], field |-> f]
    BY <2>3, WroteIs
  <2>5. QED
    BY <1>7, <2>1, <2>2, <2>4, Zenon
<1>9. /\ wrote' = [memory |-> wrote'.memory, field |-> wrote'.field] /\ wrote'.memory = vm
      /\ wrote'.memory \in [Pools -> [Bytes -> 0 .. NumNodes]]
  BY <1>8
<1>10. /\ MemType(mem, NumNodes) /\ Sliced(mem, p, x[1], x[2], AddWrite, mem') /\ MemOK'
       /\ Struct' /\ NumNodes' = NumNodes /\ Base' = Base /\ NumNodes \in Nat /\ Cur' = Cur
       /\ stack # <<>> /\ graph' = graph
  <2>1. AddWrite \in {AddRead, AddWrite}
    OBVIOUS
  <2>2. QED
    BY <1>1, <1>2, <1>9, <2>1, SliceMem
<1>11. ASSUME NEW q \in Pools, NEW b \in Bytes
       PROVE  ListAt(mem', vm[q][b], Cur, graph.nodes[vm[q][b]].kind = "obs", q, b)
  <2>1. PICK m, o : m = vm[q][b] /\ o = (graph.nodes[m].kind = "obs")
    OBVIOUS
  <2>2. PICK A, B : A = ValuesAt(mem.pending[q], b) /\ B = ValuesAt(mem'.pending[q], b)
    OBVIOUS
  <2>3. /\ ValuesAt(mem'.writes[q], b) = ValuesAt(mem.writes[q], b) /\ A \in PendingModes \cup {{}}
        /\ q # p \/ b \notin Covered(x) => B = A
        /\ q = p /\ b \in Covered(x) => B = AddWrite[A]
    <3>1. SlicedAt(mem, mem', p, x, AddWrite, q, b)
      BY <1>10, SliceAt
    <3>2. QED
      BY <2>2, <3>1 DEF SlicedAt
  <2>4. CASE q = p /\ b \in Covered(x)
    <3>1. m = Cur
      BY <1>4, <1>6, <1>7, <2>1, <2>4
    <3>2. "W" \in B
      BY <2>3, <2>4, ModesAfter
    <3>3. ~o
      BY <1>5, <2>1, <3>1 DEF IsObs
    <3>4. ListAt(mem', m, Cur, o, q, b)
      BY <2>2, <3>1, <3>2, <3>3 DEF ListAt
    <3>5. QED
      BY <2>1, <3>4
  <2>5. CASE q # p \/ b \notin Covered(x)
    <3>1. m = wm[q][b]
      BY <1>4, <1>6, <1>7, <2>1, <2>5
    <3>2. ListAt(mem, m, Cur, o, q, b)
      BY <1>3, <2>1, <3>1 DEF MemInv, MemLists, ListsHold
    <3>3. ListAt(mem', m, Cur, o, q, b)
      BY <2>2, <2>3, <2>5, <3>2 DEF ListAt
    <3>4. QED
      BY <2>1, <3>3
  <2>6. QED
    BY <2>4, <2>5
<1>12. MemLists'
  BY <1>9, <1>10, <1>11 DEF MemLists, ListsHold
<1>13. MemNeeds'
  <2>1. ASSUME NEW n, NEW m, MemDep(mem, Cur, n, m) PROVE MemDep(mem', Cur', n, m)
    <3>1. AddWrite \in {AddRead, AddWrite}
      OBVIOUS
    <3>2. QED
      BY <1>10, <2>1, <3>1, SliceDeps
  <2>2. MemNeeds
    BY DEF MemInv
  <2>3. QED
    BY <1>2, <1>10, <2>1, <2>2, NeedsStep
<1>14. QED
  BY <1>10, <1>12, <1>13 DEF MemInv

\* A flush for the current node.
LEMMA FlushStep ==
  ASSUME Struct, MemInv, stack # <<>>, NEW v, v = FlushMem(mem, Ctx.node)
  PROVE  /\ MemFlushed(mem, Cur, v) /\ MemType(v, NumNodes) /\ v.fenced = mem.fenced /\ Quiet(v)
         /\ \A d : ListsHold(v, wrote.memory, d, graph.nodes)
<1>1. Cur = Ctx.node /\ Cur \in 1 .. NumNodes /\ Cur # 0 /\ NumNodes \in Nat
  BY CurIs, Numbers
<1>2. MemType(mem, NumNodes) /\ ListsHold(mem, wrote.memory, Cur, graph.nodes)
  BY DEF MemInv, MemOK, MemLists
<1>3. MemFlushed(mem, Cur, v) /\ MemType(v, NumNodes) /\ v.fenced = mem.fenced
  BY <1>1, <1>2, FlushMemIs
<1>4. Quiet(v) /\ \A d : ListsHold(v, wrote.memory, d, graph.nodes)
  BY <1>1, <1>2, <1>3, ListsFlushed
<1>5. QED
  BY <1>3, <1>4

\* The invariant of memory, when a command begins.
LEMMA BeginMem ==
  ASSUME Struct, MemInv, OnBeginCmd
  PROVE  MemInv'
<1>1. Struct' /\ Grown(1, "cmd", 0, {}) /\ stack = <<>> /\ pendingNodes = <<>> /\ Base = NumNodes
  BY BeginCmdStruct
<1>2. /\ NumNodes' = NumNodes + 1 /\ Base' = Base
      /\ \A n \in 1 .. NumNodes : graph'.nodes[n] = graph.nodes[n] /\ graph'.deps[n] = graph.deps[n]
  BY <1>1, GrownIs
<1>3. NumNodes \in Nat /\ NumNodes' \in Nat /\ NumNodes <= NumNodes'
  BY <1>2, Numbers
<1>4. mem = [pending |-> mem.pending, writes |-> mem.writes, fenced |-> mem.fenced, acc |-> mem.acc]
  BY DEF MemInv, MemOK, MemType
<1>5. /\ mem'.pending = mem.pending /\ mem'.writes = mem.writes /\ mem'.acc = mem.acc /\ ~mem'.fenced
      /\ mem' = [pending |-> mem'.pending, writes |-> mem'.writes, fenced |-> mem'.fenced, acc |-> mem'.acc]
  <2>1. mem' = [mem EXCEPT !.fenced = FALSE]
    BY DEF OnBeginCmd
  <2>2. mem' = [pending |-> mem.pending, writes |-> mem.writes, fenced |-> FALSE, acc |-> mem.acc]
    BY <1>4, <2>1
  <2>3. QED
    BY <2>2
<1>6. SameLists(mem, mem') /\ NoPending /\ Quiet(mem)
  <2>1. NoPending
    BY <1>1 DEF MemInv, MemOK
  <2>2. QED
    BY <1>5, <2>1, SameIs, QuietIs DEF NoPending
<1>7. MemType(mem', NumNodes')
  <2>1. MemType(mem, NumNodes')
    BY <1>3, MemGrow DEF MemInv, MemOK
  <2>2. QED
    BY <1>5, <2>1 DEF MemType
<1>8. wrote' = wrote /\ need' = need /\ stage' = "begun"
  BY DEF OnBeginCmd, ghosts
<1>9. wrote.memory \in [Pools -> [Bytes -> 0 .. NumNodes]] /\ wrote = [memory |-> wrote.memory, field |-> wrote.field]
  BY DEF MemInv, MemOK
<1>10. MemOK'
  <2>1. wrote.memory \in [Pools -> [Bytes -> 0 .. NumNodes']]
    BY <1>2, <1>3, <1>9, RowGrows
  <2>2. mem'.pending = [p \in Pools |-> <<>>]
    BY <1>5, <1>6 DEF NoPending
  <2>3. QED
    BY <1>5, <1>7, <1>8, <1>9, <2>1, <2>2 DEF MemOK, NoPending
<1>11. MemLists'
  <2>1. ListsHold(mem, wrote.memory, Cur, graph.nodes)
    BY DEF MemInv, MemLists
  <2>2. ListsHold(mem', wrote.memory, Cur', graph'.nodes)
    BY <1>2, <1>3, <1>6, <1>9, <2>1, ListsKept
  <2>3. QED
    BY <1>8, <2>2 DEF MemLists
<1>12. MemNeeds'
  <2>1. ASSUME NEW n, NEW m, MemDep(mem, Cur, n, m) PROVE MemDep(mem', Cur', n, m)
    BY <1>5, <1>6, <2>1, DepsKept
  <2>2. MemNeeds
    BY DEF MemInv
  <2>3. QED
    BY <1>2, <1>3, <1>8, <2>1, <2>2, NeedsStep
<1>13. QED
  BY <1>10, <1>11, <1>12 DEF MemInv

\* A flush within a command.
LEMMA FlushMemInv ==
  ASSUME Struct, MemInv, Struct', stack # <<>>, stack' # <<>>, mem' = FlushMem(mem, Ctx.node), wrote' = wrote,
         NEW k \in Nat, NumNodes' = NumNodes + k, Base' = Base,
         \A n \in 1 .. NumNodes : graph'.nodes[n] = graph.nodes[n] /\ graph'.deps[n] = graph.deps[n],
         \A x \in need' : x[1] = "memory" => x \in need,
         stage' \in {"body", "fenced"}, stage' = "fenced" <=> stage = "fenced"
  PROVE  MemInv'
<1>1. /\ MemFlushed(mem, Cur, mem') /\ MemType(mem', NumNodes) /\ mem'.fenced = mem.fenced /\ Quiet(mem')
      /\ \A d : ListsHold(mem', wrote.memory, d, graph.nodes)
  BY FlushStep
<1>2. NumNodes \in Nat /\ NumNodes' \in Nat /\ NumNodes <= NumNodes'
  BY Numbers
<1>3. wrote.memory \in [Pools -> [Bytes -> 0 .. NumNodes]] /\ wrote = [memory |-> wrote.memory, field |-> wrote.field]
  BY DEF MemInv, MemOK
<1>4. MemOK'
  <2>1. MemType(mem', NumNodes')
    BY <1>1, <1>2, MemGrow
  <2>2. wrote'.memory \in [Pools -> [Bytes -> 0 .. NumNodes']]
    BY <1>2, <1>3, RowGrows
  <2>3. stage' \in {"begun", "body"} => stage \in {"begun", "body"}
    BY DEF Struct, StageOK
  <2>4. stage' \in {"begun", "body"} => ~mem'.fenced
    BY <1>1, <2>3 DEF MemInv, MemOK
  <2>5. QED
    BY <1>3, <2>1, <2>2, <2>4 DEF MemOK
<1>5. MemLists'
  <2>1. ListsHold(mem', wrote.memory, Cur', graph.nodes)
    BY <1>1
  <2>2. ListsHold(mem', wrote.memory, Cur', graph'.nodes)
    BY <1>2, <1>3, <2>1, ListsMore
  <2>3. QED
    BY <2>2 DEF MemLists
<1>6. MemNeeds'
  <2>1. ASSUME NEW n, NEW m, MemDep(mem, Cur, n, m) PROVE MemDep(mem', Cur', n, m)
    BY <1>1, <2>1, DepsFlushed DEF MemDep
  <2>2. MemNeeds
    BY DEF MemInv
  <2>3. QED
    BY <1>2, <2>1, <2>2, NeedsStep
<1>7. QED
  BY <1>4, <1>5, <1>6 DEF MemInv

\* The same, when a subcommand begins.
LEMMA BeginSubMem ==
  ASSUME Struct, MemInv, NEW r \in Records, OnBeginSubCmd(r)
  PROVE  MemInv'
<1>1. Struct' /\ Grown(1, "sub", Ctx.node, RecordNode(r)) /\ stack # <<>> /\ Len(stack') = Len(stack) + 1
  BY BeginSubStruct
<1>2. /\ NumNodes' = NumNodes + 1 /\ Base' = Base
      /\ \A n \in 1 .. NumNodes : graph'.nodes[n] = graph.nodes[n] /\ graph'.deps[n] = graph.deps[n]
  BY <1>1, GrownIs
<1>3. stage' \in {"body", "fenced"} /\ (stage' = "fenced" <=> stage = "fenced")
  BY EventIs DEF OnBeginSubCmd
<1>4. stack' # <<>>
  BY <1>1, <1>3 DEF Struct, StageOK
<1>5. mem' = FlushMem(mem, Ctx.node) /\ wrote' = wrote
  BY DEF OnBeginSubCmd, FlushAll
<1>6. ASSUME NEW x \in need', x[1] = "memory" PROVE x \in need
  BY <1>6 DEF OnBeginSubCmd, RecordNeeds
<1>7. QED
  BY <1>1, <1>2, <1>3, <1>4, <1>5, <1>6, FlushMemInv

\* The same, when a subcommand ends.
LEMMA EndSubMem ==
  ASSUME Struct, MemInv, OnEndSubCmd
  PROVE  MemInv'
<1>1. Struct' /\ NumNodes' = NumNodes /\ Base' = Base /\ stack # <<>> /\ stack' # <<>>
  BY EndSubStruct
<1>2. /\ NumNodes' = NumNodes + 0
      /\ \A n \in 1 .. NumNodes : graph'.nodes[n] = graph.nodes[n] /\ graph'.deps[n] = graph.deps[n]
  BY <1>1, Numbers DEF OnEndSubCmd
<1>3. stage' \in {"body", "fenced"} /\ (stage' = "fenced" <=> stage = "fenced")
  BY DEF OnEndSubCmd
<1>4. mem' = FlushMem(mem, Ctx.node) /\ wrote' = wrote /\ need' = need
  BY DEF OnEndSubCmd, FlushAll, ghosts
<1>5. QED
  BY <1>1, <1>2, <1>3, <1>4, FlushMemInv

\* The end of a command, given what it makes of the graph.
LEMMA EndCmdMem ==
  ASSUME Struct, MemInv, Struct', stack # <<>>, stack' = <<>>, stage' = "idle",
         NEW v, v = FlushMem(mem, Ctx.node), mem' = [v EXCEPT !.acc = NoAccesses], wrote' = wrote, need' = need,
         NumNodes' = NumNodes, Base' = NumNodes, graph'.nodes = graph.nodes,
         \A n \in 1 .. Base : graph.deps[n] \subseteq graph'.deps[n],
         \A n \in Base + 1 .. NumNodes : DepsOf(v.acc, n) \subseteq graph'.deps[n]
  PROVE  MemInv'
<1>1. /\ MemFlushed(mem, Cur, v) /\ MemType(v, NumNodes) /\ v.fenced = mem.fenced /\ Quiet(v)
      /\ \A d : ListsHold(v, wrote.memory, d, graph.nodes)
  BY FlushStep
<1>2. NumNodes \in Nat /\ Base \in Nat
  BY Numbers
<1>3. v = [pending |-> v.pending, writes |-> v.writes, fenced |-> v.fenced, acc |-> v.acc]
  BY <1>1 DEF MemType
<1>4. mem' = [pending |-> v.pending, writes |-> v.writes, fenced |-> v.fenced, acc |-> NoAccesses]
  BY <1>3
<1>5. /\ mem' = [pending |-> mem'.pending, writes |-> mem'.writes, fenced |-> mem'.fenced, acc |-> mem'.acc]
      /\ mem'.pending = v.pending /\ mem'.writes = v.writes /\ mem'.acc = NoAccesses
  BY <1>4
<1>6. MemType(mem', NumNodes)
  <2>1. AccType(mem'.acc, NumNodes)
    BY <1>5 DEF AccType, NoAccesses
  <2>2. QED
    BY <1>1, <1>5, <2>1 DEF MemType
<1>7. MemOK'
  <2>1. v.pending = [p \in Pools |-> <<>>]
    BY <1>1 DEF MemFlushed
  <2>2. QED
    BY <1>5, <1>6, <2>1 DEF MemOK, MemInv, NoPending
<1>8. MemLists'
  <2>1. SameLists(v, mem') /\ ListsHold(v, wrote.memory, Cur, graph.nodes)
    BY <1>1, <1>5, SameIs
  <2>2. wrote.memory \in [Pools -> [Bytes -> 0 .. NumNodes]]
    BY DEF MemInv, MemOK
  <2>3. ListsHold(mem', wrote.memory, Cur', graph.nodes)
    BY <1>1, <1>2, <2>1, <2>2, ListsKept
  <2>4. QED
    BY <2>3 DEF MemLists
<1>9. ASSUME NEW x \in need, x[1] = "memory"
      PROVE  x[2] \in 1 .. NumNodes /\ x[3] \in 1 .. NumNodes /\ x[2] <= NumNodes /\ x[3] \in graph'.deps[x[2]]
  <2>1. PICK n, m : n = x[2] /\ m = x[3]
    OBVIOUS
  <2>2. /\ n \in 1 .. NumNodes /\ m \in 1 .. NumNodes
        /\ IF n <= Base THEN m \in graph.deps[n] ELSE MemDep(mem, Cur, n, m)
    BY <1>9, <2>1 DEF MemInv, MemNeeds
  <2>3. CASE n <= Base
    <3>1. n \in 1 .. Base
      BY <1>2, <2>2, <2>3
    <3>2. QED
      BY <2>1, <2>2, <2>3, <3>1
  <2>4. CASE ~(n <= Base)
    <3>1. n \in Base + 1 .. NumNodes
      BY <1>2, <2>2, <2>4
    <3>2. m \in DepsOf(v.acc, n)
      BY <1>1, <2>2, <2>4, DepsFlushed
    <3>3. QED
      BY <2>1, <2>2, <3>1, <3>2
  <2>5. QED
    BY <2>3, <2>4
<1>10. MemNeeds'
  BY <1>9 DEF MemNeeds
<1>11. QED
  BY <1>7, <1>8, <1>10 DEF MemInv

\* The same, when dead code is eliminated.
LEMMA DCEMem ==
  ASSUME Struct, MemInv, NEW s, DCECapture(s)
  PROVE  MemInv'
<1>1. /\ stage = "idle" /\ stage' = "built" /\ stack' = stack /\ mem' = mem /\ graph' = graph
      /\ pendingNodes' = pendingNodes /\ wrote' = wrote /\ need' = need
  BY DEF DCECapture, ghosts
<1>2. NumNodes' = NumNodes /\ Base' = Base /\ Cur' = Cur
  BY <1>1 DEF NumNodes, Base, Cur, Ctx
<1>3. stack = <<>>
  BY <1>1 DEF Struct, StageOK
<1>4. MemOK'
  BY <1>1, <1>2, <1>3 DEF MemInv, MemOK, NoPending
<1>5. MemLists'
  BY <1>1, <1>2 DEF MemInv, MemLists
<1>6. MemNeeds'
  BY <1>1, <1>2 DEF MemInv, MemNeeds
<1>7. QED
  BY <1>4, <1>5, <1>6 DEF MemInv

\* The watcher before the observations are applied, the fence being done.
LEMMA ObsStarts ==
  ASSUME Struct, MemInv, stack # <<>>, NEW u, NEW v, NEW obs, NEW isWrite \in BOOLEAN, NEW k \in Nat,
         ObservedAll(mem, u, v, Cur, obs, isWrite, NumNodes, k), ~isWrite => stage = "begun"
  PROVE  /\ ListsHold(u, wrote.memory, Cur, graph.nodes)
         /\ \A n, m : MemDep(mem, Cur, n, m) => MemDep(u, Cur, n, m)
         /\ Quiet(u) \/ k = 0
<1>1. Cur # 0 /\ ListsHold(mem, wrote.memory, Cur, graph.nodes)
  BY CurIs DEF MemInv, MemLists
<1>2. CASE MemFlushed(mem, Cur, u)
  <2>1. ListsHold(u, wrote.memory, Cur, graph.nodes) /\ Quiet(u)
    BY <1>1, <1>2, ListsFlushed
  <2>2. \A n, m : MemDep(mem, Cur, n, m) => MemDep(u, Cur, n, m)
    BY <1>2, DepsFlushed DEF MemDep
  <2>3. QED
    BY <2>1, <2>2
<1>3. CASE ~MemFlushed(mem, Cur, u)
  <2>1. u = mem /\ (isWrite => ~(k > 0))
    BY <1>3 DEF ObservedAll
  <2>2. Quiet(u) \/ k = 0
    <3>1. CASE isWrite
      BY <2>1, <3>1
    <3>2. CASE ~isWrite
      <4>1. NoPending
        BY <3>2 DEF MemInv, MemOK
      <4>2. QED
        BY <2>1, <4>1, QuietIs DEF NoPending
    <3>3. QED
      BY <3>1, <3>2
  <2>3. QED
    BY <1>1, <2>1, <2>2
<1>4. QED
  BY <1>2, <1>3

\* The invariant of memory, with observations.
LEMMA ObsMem ==
  ASSUME Struct, MemInv, NEW obs \in ObsLists, OnReadObs(obs) \/ OnWriteObs(obs)
  PROVE  MemInv'
<1>1. /\ Struct' /\ Grown(Len(obs), "obs", 0, {}) /\ Len(obs) \in Nat /\ stack # <<>>
      /\ stage \in {"begun", "body"} /\ stage' \in {"body", "fenced"}
  BY ObsStruct
<1>2. PICK isWrite \in BOOLEAN : /\ Observe(obs, isWrite) /\ (~isWrite => stage = "begun")
                                 /\ isWrite => stage' = "fenced"
  BY DEF OnReadObs, OnWriteObs
<1>3. stack' = stack /\ need' = need
  BY DEF OnReadObs, OnWriteObs
<1>4. PICK k \in Nat, n \in Nat : k = Len(obs) /\ n = NumNodes
  BY <1>1, Numbers
<1>5. /\ NumNodes' = n + k /\ Base' = Base
      /\ \A i \in 1 .. n : graph'.nodes[i] = graph.nodes[i] /\ graph'.deps[i] = graph.deps[i]
  BY <1>1, <1>4, GrownIs
<1>6. Cur' = Cur /\ Cur = Ctx.node /\ Cur \in 1 .. n
  BY <1>1, <1>3, <1>4, CurIs DEF Cur, Ctx
<1>7. obs \in Seq(Spans)
  BY GraphAssumption
<1>8. MemType(mem, n) /\ ~mem.fenced
  BY <1>1, <1>4 DEF MemInv, MemOK
<1>9. PICK u : ObservedAll(mem, u, mem', Cur, obs, isWrite, n, k)
  <2>1. mem' = FoldLeft(LAMBDA w, i : AddObs(w, Ctx.node, obs[i][1], obs[i][2], isWrite, NumNodes + i),
                        mem, [i \in 1 .. k |-> i])
    BY <1>2, <1>4 DEF Observe
  <2>2. mem' = ObsFold!Fold(<<Ctx.node, obs, isWrite, NumNodes>>, mem, [i \in 1 .. k |-> i])
    BY <2>1 DEF FoldLeft, MapThenFoldSet, Max, ObsFold!Fold, ObsFold!MapThenFoldSet, ObsFold!Greatest, ObsTurn
  <2>3. mem' = ObsFold!Fold(<<Cur, obs, isWrite, n>>, mem, [i \in 1 .. k |-> i])
    BY <1>4, <1>6, <2>2
  <2>4. QED
    BY <1>4, <1>6, <1>7, <1>8, <2>3, ObserveIs
<1>10. /\ ListsHold(u, wrote.memory, Cur, graph.nodes)
       /\ \A i, m : MemDep(mem, Cur, i, m) => MemDep(u, Cur, i, m)
       /\ Quiet(u) \/ k = 0
  BY <1>1, <1>2, <1>4, <1>9, ObsStarts
<1>11. Observed(u, mem', obs, n, k) /\ MemType(mem', n + k) /\ (~isWrite => u = mem)
  BY <1>9 DEF ObservedAll
<1>12. PICK wm \in [Pools -> [Bytes -> 0 .. n]] : wm = wrote.memory
  BY <1>4 DEF MemInv, MemOK
<1>13. PICK vm : vm = [wm EXCEPT ![0] = RowAfter(wm[0], obs, n, k)]
  OBVIOUS
<1>14. wrote' = [memory |-> vm, field |-> wrote.field]
  <2>1. PICK a, f : a = wrote /\ f = wrote.field
    OBVIOUS
  <2>2. a = [memory |-> wm, field |-> f]
    BY <1>12, <2>1 DEF MemInv, MemOK
  <2>3. wrote' = [a EXCEPT !.memory[0] = RowAfter(wm[0], obs, n, k)]
    BY <1>2, <1>4, <1>12, <2>1 DEF Observe, RowAfter, Hits
  <2>4. [a EXCEPT !.memory[0] = RowAfter(wm[0], obs, n, k)] =
          [memory |-> [wm EXCEPT ![0] = RowAfter(wm[0], obs, n, k)], field |-> f]
    BY <2>2, WroteIs
  <2>5. QED
    BY <1>13, <2>1, <2>3, <2>4, Zenon
<1>15. wrote'.memory = vm /\ wrote' = [memory |-> wrote'.memory, field |-> wrote'.field]
  BY <1>14
<1>16. vm \in [Pools -> [Bytes -> 0 .. n + k]]
  <2>1. 0 \in Pools
    BY GraphAssumption
  <2>2. wm[0] \in [Bytes -> 0 .. n] /\ wm \in [Pools -> [Bytes -> 0 .. n + k]]
    BY <2>1, RowGrows
  <2>3. RowAfter(wm[0], obs, n, k) \in [Bytes -> 0 .. n + k]
    BY <2>2, RowAfterIs
  <2>4. QED
    BY <1>13, <2>2, <2>3
<1>17. MemOK'
  <2>1. stage' \in {"begun", "body"} => ~mem'.fenced
    <3>1. ~isWrite => mem'.fenced = mem.fenced
      BY <1>11 DEF Observed
    <3>2. QED
      BY <1>1, <1>2, <1>8, <3>1
  <2>2. stage' # "begun" /\ stack' # <<>>
    BY <1>1, <1>3
  <2>3. QED
    BY <1>5, <1>11, <1>15, <1>16, <2>1, <2>2 DEF MemOK
<1>18. MemLists'
  <2>1. ListsHold(mem', vm, Cur, graph'.nodes)
    BY <1>5, <1>10, <1>11, <1>12, <1>13, ListsObserved
  <2>2. QED
    BY <1>6, <1>15, <2>1 DEF MemLists
<1>19. MemNeeds'
  <2>1. ASSUME NEW i, NEW m, MemDep(mem, Cur, i, m) PROVE MemDep(mem', Cur', i, m)
    <3>1. MemDep(u, Cur, i, m)
      BY <1>10, <2>1
    <3>2. QED
      BY <1>6, <1>10, <1>11, <3>1, DepsObserved
  <2>2. MemNeeds /\ NumNodes' \in Nat /\ NumNodes <= NumNodes'
    BY <1>4, <1>5 DEF MemInv
  <2>3. QED
    BY <1>3, <1>4, <1>5, <2>1, <2>2, NeedsStep
<1>20. QED
  BY <1>17, <1>18, <1>19 DEF MemInv

-----------------------------------------------------------------------------
(***************************************************************************)
(* Forward dependencies through the steps.                                 *)
(***************************************************************************)
\* The invariant of forward dependencies.
FwdInv == ForwardOK /\ AccessesOK /\ EndedOK /\ RoomOK /\ DepsOK

\* The watchers of memory and fields are typed.
Typed == MemType(mem, NumNodes) /\ FragType(frag, NumNodes)

\* The nodes of the stack.
LEMMA StackIs ==
  ASSUME Struct
  PROVE  /\ StackNodes \subseteq Base + 1 .. NumNodes /\ StackNodes \subseteq 1 .. NumNodes
         /\ stack # <<>> => Cur \in StackNodes /\ \A s \in StackNodes \ {Cur} : s < Cur
         /\ stack = <<>> => StackNodes = {}
<1>1. /\ Len(stack) \in Nat /\ Base \in Nat /\ NumNodes \in Nat
  BY Numbers
<1>2. \A i \in 1 .. Len(stack) : stack[i].node \in Base + 1 .. NumNodes
  BY DEF Struct, StackOK
<1>3. StackNodes \subseteq Base + 1 .. NumNodes
  BY <1>2 DEF StackNodes
<1>4. StackNodes \subseteq 1 .. NumNodes
  BY <1>1, <1>3
<1>5. ASSUME stack # <<>> PROVE Cur \in StackNodes /\ \A s \in StackNodes \ {Cur} : s < Cur
  <2>1. /\ Len(stack) \in Nat \ {0} /\ Ctx = stack[Len(stack)]
        /\ \A i \in 1 .. Len(stack) - 1 : stack[i].node < Ctx.node
    BY <1>5, CtxIs
  <2>2. Cur = Ctx.node
    BY <1>5 DEF Cur
  <2>3. Len(stack) \in 1 .. Len(stack)
    BY <2>1
  <2>4. Cur = stack[Len(stack)].node
    BY <2>1, <2>2
  <2>5. Cur \in StackNodes
    BY <2>3, <2>4 DEF StackNodes
  <2>6. ASSUME NEW s \in StackNodes \ {Cur} PROVE s < Cur
    <3>1. PICK i \in 1 .. Len(stack) : s = stack[i].node
      BY DEF StackNodes
    <3>2. i # Len(stack)
      BY <2>4, <3>1
    <3>3. i \in 1 .. Len(stack) - 1
      BY <1>1, <3>2
    <3>4. QED
      BY <2>1, <2>2, <3>1, <3>3
  <2>7. QED
    BY <2>5, <2>6
<1>6. stack = <<>> => StackNodes = {}
  BY DEF StackNodes
<1>7. QED
  BY <1>3, <1>4, <1>5, <1>6

\* What a pending node depends on by itself.
LEMMA PendingAt ==
  ASSUME Struct, NEW n \in Base + 1 .. NumNodes
  PROVE  /\ n - Base \in 1 .. Len(pendingNodes) /\ pendingNodes[n - Base].node = n
         /\ pendingNodes[n - Base].parent \in 0 .. NumNodes /\ pendingNodes[n - Base].inits \subseteq 1 .. NumNodes
<1>1. Base \in Nat /\ NumNodes \in Nat /\ Len(pendingNodes) \in Nat /\ NumNodes = Base + Len(pendingNodes)
  BY Numbers
<1>2. n - Base \in 1 .. Len(pendingNodes) /\ Base + (n - Base) = n
  BY <1>1
<1>3. QED
  BY <1>2 DEF Struct, PendingOK

\* The dependencies of a pending node are nodes.
LEMMA OwnIn ==
  ASSUME Struct, Typed, NEW n \in Base + 1 .. NumNodes
  PROVE  OwnOf(n) \subseteq 1 .. NumNodes
<1>1. PICK p : p = pendingNodes[n - Base]
  OBVIOUS
<1>2. p.node = n /\ p.parent \in 0 .. NumNodes /\ p.inits \subseteq 1 .. NumNodes
  BY <1>1, PendingAt
<1>3. AccType(mem.acc, NumNodes) /\ AccType(frag.acc, NumNodes)
  BY DEF Typed, MemType, FragType
<1>4. DepsOf(mem.acc, p.node) \subseteq 1 .. NumNodes /\ DepsOf(frag.acc, p.node) \subseteq 1 .. NumNodes
  BY <1>3, AccDeps
<1>5. NumNodes \in Nat
  BY Numbers
<1>6. (IF p.parent = 0 THEN {} ELSE {p.parent}) \subseteq 1 .. NumNodes
  BY <1>2, <1>5
<1>7. OwnDeps(p, frag, mem) \subseteq 1 .. NumNodes
  BY <1>2, <1>4, <1>6, Zenon DEF OwnDeps
<1>8. QED
  BY <1>1, <1>7, Zenon DEF OwnOf

\* Those of one node.
LEMMA OwnAt ==
  ASSUME NEW n \in Base + 1 .. NumNodes
  PROVE  Own[n] = OwnOf(n)
  BY DEF Own

\* The nodes out of the stack keep theirs.
OwnStays ==
  /\ \A i \in 1 .. Len(pendingNodes) : pendingNodes[i].node \notin StackNodes => pendingNodes'[i] = pendingNodes[i]
  /\ \A n : n \notin StackNodes => DepsOf(mem'.acc, n) = DepsOf(mem.acc, n) /\ DepsOf(frag'.acc, n) = DepsOf(frag.acc, n)

\* A step that changes no dependencies of ended nodes.
LEMMA OwnKeptIs ==
  ASSUME Struct, OwnStays, Base' = Base, NEW k \in Nat, NumNodes' = NumNodes + k
  PROVE  OwnKept(Own, Own', StackNodes, Base, NumNodes)
<1>1. SUFFICES ASSUME NEW n \in (Base + 1 .. NumNodes) \ StackNodes PROVE Own'[n] = Own[n]
  BY DEF OwnKept
<1>2. Base \in Nat /\ NumNodes \in Nat
  BY Numbers
<1>3. Own[n] = OwnOf(n)
  BY OwnAt
<1>4. n \in Base' + 1 .. NumNodes'
  BY <1>2
<1>5. Own'[n] = OwnOf(n)'
  BY <1>4 DEF Own
<1>6. n - Base \in 1 .. Len(pendingNodes) /\ pendingNodes[n - Base].node = n
  BY PendingAt
<1>7. pendingNodes'[n - Base] = pendingNodes[n - Base]
  BY <1>6 DEF OwnStays
<1>8. DepsOf(mem'.acc, n) = DepsOf(mem.acc, n) /\ DepsOf(frag'.acc, n) = DepsOf(frag.acc, n)
  BY DEF OwnStays
<1>9. PICK p : p = pendingNodes[n - Base]
  OBVIOUS
<1>10. OwnOf(n) = OwnDeps(p, frag, mem) /\ OwnOf(n)' = OwnDeps(p, frag', mem')
  BY <1>7, <1>9 DEF OwnOf
<1>11. p.node = n
  BY <1>6, <1>9
<1>12. OwnDeps(p, frag', mem') = OwnDeps(p, frag, mem)
  BY <1>8, <1>11, Zenon DEF OwnDeps
<1>13. QED
  BY <1>3, <1>5, <1>10, <1>12, Zenon

\* What the actions that do not change forward keep.
LEMMA CommandKeeps ==
  ASSUME Struct, InCommand
  PROVE  /\ Struct' /\ NumNodes' = NumNodes /\ Base' = Base /\ NumNodes \in Nat /\ Base \in Nat
         /\ stack' = stack /\ graph' = graph /\ dce' = dce /\ StackNodes' = StackNodes /\ Cur' = Cur
         /\ Cur \in StackNodes /\ Cur = Ctx.node /\ Cur \in Base + 1 .. NumNodes /\ Cur \in 1 .. NumNodes
         /\ stack # <<>>
<1>1. Struct' /\ NumNodes' = NumNodes /\ Base' = Base
  BY StructInCommand
<1>2. stack' = stack /\ graph' = graph /\ dce' = dce /\ stack # <<>>
  BY DEF InCommand
<1>3. StackNodes' = StackNodes
  BY <1>2 DEF StackNodes
<1>4. Cur' = Cur
  BY <1>2 DEF Cur, Ctx
<1>5. Cur \in StackNodes
  BY <1>2, StackIs
<1>6. Cur = Ctx.node /\ Cur \in Base + 1 .. NumNodes /\ Cur \in 1 .. NumNodes
  BY <1>2, CurIs
<1>7. QED
  BY <1>1, <1>2, <1>3, <1>4, <1>5, <1>6, Numbers

\* A step in a command changes no settled dependencies.
LEMMA DepsInCommand ==
  ASSUME Struct, InCommand, DepsOK
  PROVE  DepsOK'
<1>1. NumNodes' = NumNodes /\ Base' = Base /\ graph' = graph /\ dce' = dce
  BY CommandKeeps
<1>2. QED
  BY <1>1 DEF DepsOK

\* The step adds no forward need.
ForwardNeeds == \A x \in need' : x[1] = "forward" => x \in need

\* A step in a command without a forward access keeps the invariant of
\* forward dependencies.
LEMMA FwdFrame ==
  ASSUME Struct, FwdInv, InCommand, OwnStays, ForwardNeeds, ForwardType(forward', NumNodes),
         forward'.pairs = forward.pairs, forward'.acc = forward.acc, forward'.node = forward.node
  PROVE  FwdInv'
<1>1. /\ NumNodes' = NumNodes /\ Base' = Base /\ NumNodes \in Nat /\ Base \in Nat /\ stack' = stack /\ graph' = graph
      /\ StackNodes' = StackNodes /\ Cur' = Cur /\ stack # <<>>
  BY CommandKeeps
<1>2. ForwardOK'
  BY <1>1 DEF FwdInv, ForwardOK
<1>3. AccessesOK'
  <2>1. PICK w, v : w = forward /\ v = forward'
    OBVIOUS
  <2>2. AccessesHold(w, Cur, Base, NumNodes) /\ ForwardType(w, NumNodes)
    BY <2>1 DEF FwdInv, AccessesOK, ForwardOK
  <2>3. \A n : AccOf(v, Cur, n) = AccOf(w, Cur, n)
    BY <2>1 DEF AccOf, Kept
  <2>4. \A n \in NumNodes + 1 .. NumNodes + 0 : AccOf(v, Cur, n) = <<>>
    BY <1>1
  <2>5. AccessesHold(v, Cur, Base, NumNodes + 0)
    BY <1>1, <2>1, <2>2, <2>3, <2>4, AccessesSame
  <2>6. NumNodes + 0 = NumNodes
    BY <1>1
  <2>7. QED
    BY <1>1, <2>1, <2>5, <2>6 DEF AccessesOK
<1>4. EndedOK'
  <2>1. OwnKept(Own, Own', StackNodes, Base, NumNodes)
    BY <1>1, OwnKeptIs
  <2>2. PICK own, new, pairs : own = Own /\ new = Own' /\ pairs = forward.pairs
    OBVIOUS
  <2>3. EndedHold(own, StackNodes, Cur, pairs, Base, NumNodes)
    BY <2>2 DEF FwdInv, EndedOK
  <2>4. OpensIn(pairs, NumNodes)
    BY <1>1, <2>2, OpensAre DEF FwdInv, ForwardOK
  <2>5. StackNodes \subseteq 1 .. NumNodes
    BY StackIs
  <2>6. EndedHold(new, StackNodes, Cur, pairs, Base, NumNodes + 0)
    BY <1>1, <2>1, <2>2, <2>3, <2>4, <2>5, EndedSame
  <2>7. NumNodes + 0 = NumNodes
    BY <1>1
  <2>8. QED
    BY <1>1, <2>2, <2>6, <2>7 DEF EndedOK
<1>5. RoomOK'
  BY <1>1 DEF FwdInv, RoomOK, ForwardNeeds
<1>6. DepsOK'
  BY DepsInCommand DEF FwdInv
<1>7. QED
  BY <1>2, <1>3, <1>4, <1>5, <1>6 DEF FwdInv

\* The forward watcher stays as it was.
LEMMA FwdKeepsType ==
  ASSUME FwdInv, forward' = forward
  PROVE  /\ ForwardType(forward', NumNodes) /\ forward'.pairs = forward.pairs /\ forward'.acc = forward.acc
         /\ forward'.node = forward.node
  BY DEF FwdInv, ForwardOK

\* A step that leaves the dependencies known leaves those of every pending
\* node.
LEMMA StaysIf ==
  ASSUME pendingNodes' = pendingNodes, mem'.acc = mem.acc, frag'.acc = frag.acc
  PROVE  OwnStays
  BY DEF OwnStays

\* Needs of another kind.
LEMMA NeedsOther ==
  ASSUME NEW kind, kind # "forward", NEW from, need' = need \cup Needs(kind, from)
  PROVE  ForwardNeeds
  BY DEF ForwardNeeds, Needs

\* The invariant of forward dependencies, when memory is read.
LEMMA ReadSliceFwd ==
  ASSUME Struct, Typed, FwdInv, NEW p \in Pools, NEW x \in Spans, OnReadSlice(p, x)
  PROVE  FwdInv'
<1>1. InCommand
  BY ReadSliceIn
<1>2. mem' = OnSlice(mem, p, x[1], x[2], AddRead) /\ UNCHANGED <<frag, forward, pendingNodes>>
  BY DEF OnReadSlice
<1>3. mem'.acc = mem.acc
  <2>1. MemType(mem, NumNodes)
    BY DEF Typed
  <2>2. mem = [pending |-> mem.pending, writes |-> mem.writes, fenced |-> mem.fenced, acc |-> mem.acc]
    BY <2>1 DEF MemType
  <2>3. QED
    BY <1>2, <2>2 DEF OnSlice
<1>4. ForwardNeeds
  <2>1. PICK from : need' = need \cup Needs("memory", from)
    BY DEF OnReadSlice
  <2>2. QED
    BY <2>1, NeedsOther
<1>5. OwnStays
  BY <1>2, <1>3, StaysIf
<1>6. QED
  BY <1>1, <1>2, <1>4, <1>5, FwdKeepsType, FwdFrame

\* The same, when memory is written.
LEMMA WriteSliceFwd ==
  ASSUME Struct, Typed, FwdInv, NEW p \in Pools, NEW x \in Spans, OnWriteSlice(p, x)
  PROVE  FwdInv'
<1>1. InCommand
  BY WriteSliceIn
<1>2. mem' = OnSlice(mem, p, x[1], x[2], AddWrite) /\ UNCHANGED <<frag, forward, pendingNodes, need>>
  BY DEF OnWriteSlice
<1>3. mem'.acc = mem.acc
  <2>1. MemType(mem, NumNodes)
    BY DEF Typed
  <2>2. mem = [pending |-> mem.pending, writes |-> mem.writes, fenced |-> mem.fenced, acc |-> mem.acc]
    BY <2>1 DEF MemType
  <2>3. QED
    BY <1>2, <2>2 DEF OnSlice
<1>4. ForwardNeeds
  BY <1>2 DEF ForwardNeeds
<1>5. OwnStays
  BY <1>2, <1>3, StaysIf
<1>6. QED
  BY <1>1, <1>2, <1>4, <1>5, FwdKeepsType, FwdFrame

\* What the accesses of fragments do to the watcher.
LEMMA ReadFragStep ==
  ASSUME Struct, FragType(frag, NumNodes), NEW f \in FragSet, ReadFrag(f)
  PROVE  /\ FragType(frag', NumNodes) /\ frag'.acc = frag.acc /\ frag'.writes = frag.writes
         /\ \/ frag' = frag /\ GetMode(frag.access, f, Ctx.depth, Ctx.node) \cup GetMode(frag.access, Complete, Ctx.depth, Ctx.node) # {}
            \/ /\ GetMode(frag.access, f, Ctx.depth, Ctx.node) \cup GetMode(frag.access, Complete, Ctx.depth, Ctx.node) = {}
               /\ FragAdded(frag, frag', frag.access, Ctx.depth, Ctx.node, f, "R")
<1>1. frag' = OnReadFrag(frag, Ctx.depth, Ctx.node, f)
  BY DEF ReadFrag
<1>2. stack # <<>>
  BY ReadFragIn DEF InCommand
<1>3. Ctx.depth \in 0 .. MaxDepth
  BY <1>2, CtxIs
<1>4. PICK d \in 0 .. MaxDepth, n \in {Ctx.node}, v \in {frag'} : d = Ctx.depth
  BY <1>3
<1>5. v = OnReadFrag(frag, d, n, f)
  BY <1>1, <1>4
<1>6. /\ FragType(v, NumNodes)
      /\ \/ v = frag /\ GetMode(frag.access, f, d, n) \cup GetMode(frag.access, Complete, d, n) # {}
         \/ /\ GetMode(frag.access, f, d, n) \cup GetMode(frag.access, Complete, d, n) = {}
            /\ FragAdded(frag, v, frag.access, d, n, f, "R")
  BY <1>5, ReadFragIs
<1>7. v.acc = frag.acc /\ v.writes = frag.writes
  BY <1>6 DEF FragAdded
<1>8. QED
  BY <1>4, <1>6, <1>7, Zenon

\* What a write of a field does to the watcher.
LEMMA WriteFragStep ==
  ASSUME Struct, FragType(frag, NumNodes), NEW f \in FragSet, WriteFrag(f)
  PROVE  /\ FragType(frag', NumNodes) /\ frag'.acc = frag.acc /\ frag'.writes = frag.writes
         /\ \/ frag' = frag /\ "W" \in GetMode(frag.access, f, Ctx.depth, Ctx.node) \cup GetMode(frag.access, Complete, Ctx.depth, Ctx.node)
            \/ FragAdded(frag, frag', Cleared(frag.access, f), Ctx.depth, Ctx.node, f, "W")
<1>1. frag' = OnWriteFrag(frag, Ctx.depth, Ctx.node, f)
  BY DEF WriteFrag
<1>2. stack # <<>>
  BY WriteFragIn DEF InCommand
<1>3. Ctx.depth \in 0 .. MaxDepth
  BY <1>2, CtxIs
<1>4. PICK d \in 0 .. MaxDepth, n \in {Ctx.node}, v \in {frag'} : d = Ctx.depth
  BY <1>3
<1>5. v = OnWriteFrag(frag, d, n, f)
  BY <1>1, <1>4
<1>6. /\ FragType(v, NumNodes)
      /\ \/ v = frag /\ "W" \in GetMode(frag.access, f, d, n) \cup GetMode(frag.access, Complete, d, n)
         \/ FragAdded(frag, v, Cleared(frag.access, f), d, n, f, "W")
  BY <1>5, WriteFragIs
<1>7. v.acc = frag.acc /\ v.writes = frag.writes
  BY <1>6 DEF FragAdded
<1>8. QED
  BY <1>4, <1>6, <1>7, Zenon

\* The same, when a field is read.
LEMMA ReadFragFwd ==
  ASSUME Struct, Typed, FwdInv, NEW f \in FragSet, ReadFrag(f)
  PROVE  FwdInv'
<1>1. InCommand
  BY ReadFragIn
<1>2. UNCHANGED <<mem, forward, pendingNodes>>
  BY DEF ReadFrag
<1>3. frag'.acc = frag.acc
  BY ReadFragStep DEF Typed
<1>4. ForwardNeeds
  <2>1. CASE f = Complete
    <3>1. need' = need \cup Needs("object", {wrote.field[g] : g \in Frags})
      BY <2>1, Zenon DEF ReadFrag
    <3>2. QED
      BY <3>1, NeedsOther
  <2>2. CASE f # Complete
    <3>1. PICK kind, from : /\ kind = FieldKind(f)
                            /\ from = {m \in {wrote.field[f]} : <<"object", Ctx.node, m>> \notin need}
      OBVIOUS
    <3>2. need' = need \cup Needs(kind, from)
      BY <2>2, <3>1, Zenon DEF ReadFrag
    <3>3. kind # "forward"
      BY <3>1 DEF FieldKind
    <3>4. QED
      BY <3>2, <3>3, NeedsOther
  <2>3. QED
    BY <2>1, <2>2
<1>5. OwnStays
  BY <1>2, <1>3, StaysIf
<1>6. QED
  BY <1>1, <1>2, <1>4, <1>5, FwdKeepsType, FwdFrame

\* The same, when a field is written.
LEMMA WriteFragFwd ==
  ASSUME Struct, Typed, FwdInv, NEW f \in FragSet, WriteFrag(f)
  PROVE  FwdInv'
<1>1. InCommand
  BY WriteFragIn
<1>2. UNCHANGED <<mem, forward, pendingNodes, need>>
  BY DEF WriteFrag
<1>3. frag'.acc = frag.acc
  BY WriteFragStep DEF Typed
<1>4. ForwardNeeds
  BY <1>2 DEF ForwardNeeds
<1>5. OwnStays
  BY <1>2, <1>3, StaysIf
<1>6. QED
  BY <1>1, <1>2, <1>4, <1>5, FwdKeepsType, FwdFrame

\* The same, when a subcommand is recorded.
LEMMA RecordFwd ==
  ASSUME Struct, FwdInv, NEW r \in Records, OnRecordSubCmd(r)
  PROVE  FwdInv'
<1>1. InCommand
  BY RecordIn
<1>2. UNCHANGED <<mem, frag, forward, pendingNodes, need>>
  BY DEF OnRecordSubCmd, ghosts
<1>4. ForwardNeeds
  BY <1>2 DEF ForwardNeeds
<1>5. OwnStays
  BY <1>2, StaysIf
<1>6. QED
  BY <1>1, <1>2, <1>4, <1>5, FwdKeepsType, FwdFrame

\* The same, when a merged subcommand begins.
LEMMA MergedFwd ==
  ASSUME Struct, FwdInv, NEW r \in Records, OnBeginMergedSubCmd(r)
  PROVE  FwdInv'
<1>1. InCommand
  BY MergedIn
<1>2. UNCHANGED <<mem, frag, forward>>
  BY DEF OnBeginMergedSubCmd
<1>3. ForwardNeeds
  BY DEF ForwardNeeds, OnBeginMergedSubCmd, RecordNeeds
<1>4. Ctx.node \in StackNodes
  BY <1>1, CommandKeeps
<1>5. \A i \in 1 .. Len(pendingNodes) : pendingNodes[i].node \notin StackNodes => pendingNodes'[i] = pendingNodes[i]
  BY <1>4, MergedIn
<1>6. OwnStays
  BY <1>2, <1>5 DEF OwnStays
<1>7. QED
  BY <1>1, <1>2, <1>3, <1>6, FwdKeepsType, FwdFrame

\* A node of the stack has nothing put away, so there is nothing to reload.
LEMMA NothingReloaded ==
  ASSUME Struct, ForwardOK, stack # <<>>
  PROVE  Reloaded(forward, Ctx.node) = forward
<1>1. Ctx.node \in StackNodes
  BY StackIs, CurIs
<1>2. Ctx.node \in DOMAIN forward.node => forward.node[Ctx.node] = <<>>
  BY <1>1 DEF ForwardOK
<1>3. forward = [open |-> forward.open, pairs |-> forward.pairs, acc |-> forward.acc, node |-> forward.node,
                 unopened |-> forward.unopened]
  BY DEF ForwardOK, ForwardType
<1>4. CASE forward.acc = <<>> /\ Ctx.node \in DOMAIN forward.node
  <2>1. Reloaded(forward, Ctx.node) = [forward EXCEPT !.acc = forward.node[Ctx.node]]
    BY <1>4 DEF Reloaded
  <2>2. forward.node[Ctx.node] = forward.acc
    BY <1>2, <1>4
  <2>3. [forward EXCEPT !.acc = forward.acc] = forward
    BY <1>3
  <2>4. QED
    BY <2>1, <2>2, <2>3, Zenon
<1>5. CASE ~(forward.acc = <<>> /\ Ctx.node \in DOMAIN forward.node)
  BY <1>5 DEF Reloaded
<1>6. QED
  BY <1>4, <1>5

\* What is left to show for a step that changes forward.
LEMMA FwdMoves ==
  ASSUME Struct, FwdInv, InCommand, UNCHANGED <<mem, frag, pendingNodes>>, ForwardType(forward', NumNodes),
         forward'.node = forward.node, AccessesHold(forward', Cur, Base, NumNodes),
         EndedHold(Own, StackNodes, Cur, forward'.pairs, Base, NumNodes), RoomHold(graph, forward'.pairs, Base),
         \A x \in need' : x[1] = "forward" => Paired(forward'.pairs, x[2], x[3])
  PROVE  FwdInv'
<1>1. /\ NumNodes' = NumNodes /\ Base' = Base /\ NumNodes \in Nat /\ Base \in Nat /\ stack' = stack /\ graph' = graph
      /\ StackNodes' = StackNodes /\ Cur' = Cur /\ stack # <<>>
  BY CommandKeeps
<1>2. ForwardOK'
  BY <1>1 DEF FwdInv, ForwardOK
<1>3. AccessesOK'
  BY <1>1 DEF AccessesOK
<1>4. Own' = Own
  BY <1>1 DEF Own, OwnOf
<1>5. EndedOK'
  BY <1>1, <1>4 DEF EndedOK
<1>6. RoomOK'
  BY <1>1 DEF RoomOK
<1>7. DepsOK'
  BY DepsInCommand DEF FwdInv
<1>8. QED
  BY <1>2, <1>3, <1>5, <1>6, <1>7 DEF FwdInv

\* The invariant of forward dependencies, when one is opened.
LEMMA OpenFwd ==
  ASSUME Struct, FwdInv, NEW d, OpenForwardDependency(d)
  PROVE  FwdInv'
<1>1. InCommand
  BY OpenIn
<1>2. /\ NumNodes \in Nat /\ Base \in Nat /\ Cur = Ctx.node /\ Cur \in Base + 1 .. NumNodes /\ Cur \in 1 .. NumNodes
      /\ stack # <<>>
  BY <1>1, CommandKeeps
<1>3. PICK w : w = forward
  OBVIOUS
<1>4. ForwardType(w, NumNodes) /\ Reloaded(forward, Ctx.node) = w
  BY <1>2, <1>3, NothingReloaded DEF FwdInv, ForwardOK
<1>5. /\ UNCHANGED <<mem, frag, pendingNodes, need>>
      /\ forward' = Access([w EXCEPT !.pairs = Append(@, [open |-> Ctx.node, close |-> 0]),
                                     !.open = IF d \in DOMAIN @ THEN @ ELSE Set(@, d, Len(w.pairs) + 1)],
                           Len(w.pairs) + 1, "open")
  BY <1>4, Zenon DEF OpenForwardDependency, ghosts
<1>6. Opened(w, forward', Ctx.node) /\ ForwardType(forward', NumNodes)
  BY <1>2, <1>4, <1>5, OpenIs
<1>7. AccessesHold(forward', Cur, Base, NumNodes)
  <2>1. AccessesHold(w, Cur, Base, NumNodes)
    BY <1>3 DEF FwdInv, AccessesOK
  <2>2. QED
    BY <1>2, <1>4, <1>6, <2>1, AccessesOpened
<1>8. Wider(forward'.pairs, w.pairs, Cur) /\ forward'.node = w.node
  BY <1>2, <1>4, <1>6, OpenedPairs
<1>9. OpensIn(w.pairs, NumNodes)
  BY <1>2, <1>4, OpensAre
<1>10. EndedHold(Own, StackNodes, Cur, forward'.pairs, Base, NumNodes)
  <2>1. PICK own, pairs, t : own = Own /\ pairs = w.pairs /\ t = forward'.pairs
    OBVIOUS
  <2>2. EndedHold(own, StackNodes, Cur, pairs, Base, NumNodes)
    BY <1>3, <2>1 DEF FwdInv, EndedOK
  <2>3. EndedHold(own, StackNodes, Cur, t, Base, NumNodes)
    BY <1>2, <1>8, <1>9, <2>1, <2>2, EndedOpened
  <2>4. QED
    BY <2>1, <2>3, Zenon
<1>11. RoomHold(graph, forward'.pairs, Base)
  <2>1. PICK g, pairs, t : g = graph /\ pairs = w.pairs /\ t = forward'.pairs
    OBVIOUS
  <2>2. RoomHold(g, pairs, Base)
    BY <1>3, <2>1 DEF FwdInv, RoomOK
  <2>3. RoomHold(g, t, Base)
    BY <1>2, <1>8, <1>9, <2>1, <2>2, RoomOpened
  <2>4. QED
    BY <2>1, <2>3, Zenon
<1>12. PairsKept(w.pairs, forward'.pairs)
  <2>1. PICK k \in Nat : k = Len(w.pairs)
    BY <1>9 DEF OpensIn
  <2>2. Len(forward'.pairs) = k + 1 /\ \A i \in 1 .. k : forward'.pairs[i] = w.pairs[i]
    BY <1>8, <2>1 DEF Wider
  <2>3. QED
    BY <2>1, <2>2 DEF PairsKept
<1>13. ASSUME NEW x \in need', x[1] = "forward" PROVE Paired(forward'.pairs, x[2], x[3])
  <2>1. Paired(w.pairs, x[2], x[3])
    BY <1>3, <1>5, <1>13 DEF FwdInv, RoomOK
  <2>2. QED
    BY <1>12, <2>1, PairedLater
<1>14. QED
  BY <1>1, <1>3, <1>5, <1>6, <1>7, <1>8, <1>10, <1>11, <1>13, FwdMoves

\* The same, when one is closed.
LEMMA CloseFwd ==
  ASSUME Struct, FwdInv, NEW d, CloseForwardDependency(d)
  PROVE  FwdInv'
<1>1. InCommand
  BY CloseIn
<1>2. /\ NumNodes \in Nat /\ Base \in Nat /\ Cur = Ctx.node /\ Cur \in Base + 1 .. NumNodes /\ Cur \in 1 .. NumNodes
      /\ stack # <<>> /\ Cur \in StackNodes
  BY <1>1, CommandKeeps
<1>3. PICK w : w = forward
  OBVIOUS
<1>4. ForwardType(w, NumNodes) /\ Reloaded(forward, Ctx.node) = w
  BY <1>2, <1>3, NothingReloaded DEF FwdInv, ForwardOK
<1>5. UNCHANGED <<mem, frag, pendingNodes>>
  BY DEF CloseForwardDependency
<1>6. CASE d \notin DOMAIN w.open
  <2>1. forward' = [w EXCEPT !.unopened = TRUE] /\ need' = need
    BY <1>4, <1>6, Zenon DEF CloseForwardDependency
  <2>2. /\ w = [open |-> w.open, pairs |-> w.pairs, acc |-> w.acc, node |-> w.node, unopened |-> w.unopened]
        /\ PairsType(w.pairs, NumNodes) /\ w.acc \in Seq(ForwardAccesses) /\ NodeAccType(w.node, NumNodes)
        /\ OpenType(w.open, w.pairs)
    BY <1>4, ForwardParts
  <2>3. forward' = [open |-> w.open, pairs |-> w.pairs, acc |-> w.acc, node |-> w.node, unopened |-> TRUE]
    BY <2>1, <2>2
  <2>4. FwdRec(forward', w.open, w.pairs, w.acc, w.node, TRUE)
    BY <2>3, FwdFields
  <2>5. /\ forward'.open = w.open /\ forward'.pairs = w.pairs /\ forward'.acc = w.acc /\ forward'.node = w.node
        /\ forward' = [open |-> forward'.open, pairs |-> forward'.pairs, acc |-> forward'.acc,
                       node |-> forward'.node, unopened |-> forward'.unopened]
    BY <2>4 DEF FwdRec
  <2>6. ForwardType(forward', NumNodes)
    <3>1. /\ PairsType(forward'.pairs, NumNodes) /\ forward'.acc \in Seq(ForwardAccesses)
          /\ NodeAccType(forward'.node, NumNodes) /\ OpenType(forward'.open, forward'.pairs)
      BY <2>2, <2>5, Zenon
    <3>2. QED
      BY <2>5, <3>1, ForwardParts
  <2>7. ForwardNeeds
    BY <2>1 DEF ForwardNeeds
  <2>8. OwnStays
    BY <1>5, StaysIf
  <2>9. QED
    BY <1>1, <1>3, <2>5, <2>6, <2>7, <2>8, FwdFrame
<1>7. CASE d \in DOMAIN w.open
  <2>1. PICK i : i = w.open[d]
    OBVIOUS
  <2>2. /\ forward' = Access([Without(w, d) EXCEPT !.pairs[i] = [open |-> w.pairs[i].open, close |-> Ctx.node]], i, "close")
        /\ need' = need \cup {<<"forward", w.pairs[i].open, Ctx.node>>}
    BY <1>4, <1>7, <2>1, Zenon DEF CloseForwardDependency
  <2>3. Closed(w, forward', i, Ctx.node) /\ ForwardType(forward', NumNodes)
    BY <1>2, <1>4, <1>7, <2>1, <2>2, CloseIs
  <2>4. AccessesHold(forward', Cur, Base, NumNodes)
    <3>1. AccessesHold(w, Cur, Base, NumNodes)
      BY <1>3 DEF FwdInv, AccessesOK
    <3>2. QED
      BY <1>2, <1>4, <2>3, <3>1, AccessesClosed
  <2>5. ShutBy(forward'.pairs, w.pairs, i, Cur) /\ forward'.node = w.node
    BY <1>2, <2>3, ClosedShut DEF Closed
  <2>6. OpensIn(w.pairs, NumNodes)
    BY <1>2, <1>4, OpensAre
  <2>7. EndedHold(Own, StackNodes, Cur, forward'.pairs, Base, NumNodes)
    <3>1. PICK own, pairs, t : own = Own /\ pairs = w.pairs /\ t = forward'.pairs
      OBVIOUS
    <3>2. EndedHold(own, StackNodes, Cur, pairs, Base, NumNodes)
      BY <1>3, <3>1 DEF FwdInv, EndedOK
    <3>3. StackNodes \subseteq 1 .. NumNodes
      BY StackIs
    <3>4. EndedHold(own, StackNodes, Cur, t, Base, NumNodes)
      BY <1>2, <2>5, <2>6, <3>1, <3>2, <3>3, EndedClosed
    <3>5. QED
      BY <3>1, <3>4, Zenon
  <2>8. RoomHold(graph, forward'.pairs, Base)
    <3>1. PICK g, pairs, t : g = graph /\ pairs = w.pairs /\ t = forward'.pairs
      OBVIOUS
    <3>2. RoomHold(g, pairs, Base)
      BY <1>3, <3>1 DEF FwdInv, RoomOK
    <3>3. \A n \in 1 .. Base : g.deps[n] \subseteq 1 .. Base
      BY <3>1 DEF FwdInv, DepsOK
    <3>4. RoomHold(g, t, Base)
      BY <1>2, <2>5, <2>6, <3>1, <3>2, <3>3, RoomClosed
    <3>5. QED
      BY <3>1, <3>4, Zenon
  <2>9. /\ i \in 1 .. Len(w.pairs) /\ w.pairs[i].close = 0 /\ Len(forward'.pairs) = Len(w.pairs)
        /\ forward'.pairs[i].open = w.pairs[i].open /\ forward'.pairs[i].close = Cur
        /\ \A j \in 1 .. Len(w.pairs) : j # i => forward'.pairs[j] = w.pairs[j]
    BY <2>5 DEF ShutBy
  <2>10. PairsKept(w.pairs, forward'.pairs)
    BY <2>6, <2>9 DEF PairsKept, OpensIn
  <2>11. ASSUME NEW x \in need', x[1] = "forward" PROVE Paired(forward'.pairs, x[2], x[3])
    <3>1. CASE x \in need
      <4>1. Paired(w.pairs, x[2], x[3])
        BY <1>3, <2>11, <3>1 DEF FwdInv, RoomOK
      <4>2. QED
        BY <2>10, <4>1, PairedLater
    <3>2. CASE x = <<"forward", w.pairs[i].open, Ctx.node>>
      <4>1. x[2] = w.pairs[i].open /\ x[3] = Cur /\ Cur # 0
        BY <1>2, <3>2
      <4>2. IsPair(forward'.pairs, i, x[2], x[3])
        BY <2>9, <4>1 DEF IsPair
      <4>3. QED
        BY <4>2 DEF Paired
    <3>3. QED
      BY <2>2, <3>1, <3>2
  <2>12. QED
    BY <1>1, <1>3, <1>5, <2>3, <2>4, <2>5, <2>7, <2>8, <2>11, FwdMoves
<1>8. QED
  BY <1>6, <1>7

\* The same, when one is dropped.
LEMMA DropFwd ==
  ASSUME Struct, FwdInv, NEW d, DropForwardDependency(d)
  PROVE  FwdInv'
<1>1. InCommand
  BY DropIn
<1>2. /\ NumNodes \in Nat /\ Base \in Nat /\ Cur = Ctx.node /\ Cur \in Base + 1 .. NumNodes /\ Cur \in 1 .. NumNodes
      /\ stack # <<>> /\ Cur \in StackNodes
  BY <1>1, CommandKeeps
<1>3. PICK w : w = forward
  OBVIOUS
<1>4. ForwardType(w, NumNodes)
  BY <1>3 DEF FwdInv, ForwardOK
<1>5. UNCHANGED <<mem, frag, pendingNodes, need>> /\ d \in DOMAIN w.open
  BY <1>3 DEF DropForwardDependency, ghosts
<1>6. PICK i : i = w.open[d]
  OBVIOUS
<1>7. forward' = Access(Without(w, d), i, "drop")
  BY <1>3, <1>6 DEF DropForwardDependency
<1>8. Dropped(w, forward', i) /\ ForwardType(forward', NumNodes)
  BY <1>2, <1>4, <1>5, <1>6, <1>7, DropIs
<1>9. AccessesHold(forward', Cur, Base, NumNodes)
  <2>1. AccessesHold(w, Cur, Base, NumNodes)
    BY <1>3 DEF FwdInv, AccessesOK
  <2>2. QED
    BY <1>2, <1>4, <1>8, <2>1, AccessesDropped
<1>10. forward'.pairs = forward.pairs /\ forward'.node = forward.node
  BY <1>3, <1>8 DEF Dropped
<1>11. EndedHold(Own, StackNodes, Cur, forward'.pairs, Base, NumNodes)
  BY <1>10, Zenon DEF FwdInv, EndedOK
<1>12. RoomHold(graph, forward'.pairs, Base)
  BY <1>10, Zenon DEF FwdInv, RoomOK
<1>13. \A x \in need' : x[1] = "forward" => Paired(forward'.pairs, x[2], x[3])
  BY <1>5, <1>10, Zenon DEF FwdInv, RoomOK
<1>14. QED
  BY <1>1, <1>5, <1>8, <1>9, <1>10, <1>11, <1>12, <1>13, FwdMoves

\* The graph with new nodes.
LEMMA FwdGrows ==
  ASSUME Struct, FwdInv, NEW k \in Nat, NEW kind, NEW parent, NEW inits, Grown(k, kind, parent, inits), dce' = dce,
         ForwardType(forward', NumNodes), forward'.pairs = forward.pairs, ForwardNeeds
  PROVE  RoomOK' /\ DepsOK' /\ ForwardType(forward', NumNodes')
<1>1. /\ NumNodes' = NumNodes + k /\ Base' = Base
      /\ \A n \in 1 .. NumNodes : graph'.deps[n] = graph.deps[n] /\ graph'.room[n] = graph.room[n]
      /\ \A n \in NumNodes + 1 .. NumNodes' : graph'.deps[n] = {} /\ graph'.room[n] = 0
      /\ graph'.panicked = graph.panicked
  BY GrownIs
<1>2. NumNodes \in Nat /\ Base \in Nat /\ Base <= NumNodes
  BY Numbers
<1>3. ForwardType(forward', NumNodes')
  BY <1>1, <1>2, ForwardGrow
<1>4. RoomHold(graph', forward'.pairs, Base)
  <2>1. PICK g, h, pairs : g = graph /\ h = graph' /\ pairs = forward.pairs
    OBVIOUS
  <2>2. RoomHold(g, pairs, Base)
    BY <2>1 DEF FwdInv, RoomOK
  <2>3. \A n \in 1 .. Base : h.deps[n] = g.deps[n] /\ h.room[n] = g.room[n]
    BY <1>1, <1>2, <2>1
  <2>4. \A i \in 1 .. Len(pairs) : pairs[i].open \in Nat \ {0}
    BY <1>2, <2>1 DEF FwdInv, ForwardOK, ForwardType
  <2>5. RoomHold(h, pairs, Base)
    BY <1>2, <2>2, <2>3, <2>4, RoomSame
  <2>6. QED
    BY <2>1, <2>5, Zenon
<1>5. RoomOK'
  BY <1>1, <1>4 DEF RoomOK, FwdInv, ForwardNeeds
<1>6. \A n \in 1 .. Base : graph'.deps[n] \subseteq 1 .. Base
  BY <1>1, <1>2 DEF FwdInv, DepsOK
<1>7. ASSUME NEW n \in Base + 1 .. NumNodes' PROVE graph'.deps[n] = {} /\ graph'.room[n] = 0
  <2>1. CASE n <= NumNodes
    <3>1. n \in 1 .. NumNodes /\ n \in Base + 1 .. NumNodes
      BY <1>1, <1>2, <2>1
    <3>2. QED
      BY <1>1, <3>1 DEF FwdInv, DepsOK
  <2>2. CASE n > NumNodes
    <3>1. n \in NumNodes + 1 .. NumNodes'
      BY <1>1, <1>2, <2>2
    <3>2. QED
      BY <1>1, <3>1
  <2>3. QED
    BY <1>1, <1>2, <2>1, <2>2
<1>8. dce'.live \subseteq 1 .. NumNodes'
  BY <1>1, <1>2 DEF FwdInv, DepsOK
<1>9. graph'.panicked = FALSE
  BY <1>1 DEF FwdInv, DepsOK
<1>10. DepsOK'
  BY <1>1, <1>6, <1>7, <1>8, <1>9 DEF DepsOK
<1>11. QED
  BY <1>3, <1>5, <1>10

\* The invariant of forward dependencies, when a command begins.
LEMMA BeginFwd ==
  ASSUME Struct, FwdInv, OnBeginCmd
  PROVE  FwdInv'
<1>1. /\ Struct' /\ Grown(1, "cmd", 0, {}) /\ stack = <<>> /\ pendingNodes = <<>> /\ Base = NumNodes
  BY BeginCmdStruct
<1>2. NumNodes' = NumNodes + 1 /\ Base' = Base
  BY <1>1, GrownIs
<1>3. NumNodes \in Nat
  BY Numbers
<1>4. forward' = forward /\ need' = need /\ dce' = dce /\ stack' = <<[node |-> NumNodes + 1, depth |-> 0]>>
  BY DEF OnBeginCmd, ghosts
<1>5. ForwardType(forward', NumNodes) /\ forward'.pairs = forward.pairs
  BY <1>4 DEF FwdInv, ForwardOK
<1>6. ForwardNeeds
  BY <1>4 DEF ForwardNeeds
<1>7. RoomOK' /\ DepsOK' /\ ForwardType(forward', NumNodes')
  BY <1>1, <1>4, <1>5, <1>6, FwdGrows
<1>8. StackNodes' = {NumNodes + 1} /\ stack' # <<>> /\ Cur' = NumNodes + 1
  <2>1. Len(stack') = 1 /\ stack'[1] = [node |-> NumNodes + 1, depth |-> 0] /\ stack' # <<>>
    BY <1>4
  <2>2. stack'[1].node = NumNodes + 1
    BY <2>1
  <2>3. StackNodes' = {NumNodes + 1}
    BY <2>1, <2>2 DEF StackNodes
  <2>4. Cur' = stack'[Len(stack')].node
    BY <2>1, Zenon DEF Cur, Ctx, Last
  <2>5. QED
    BY <2>1, <2>2, <2>3, <2>4
<1>9. forward.acc = <<>> /\ forward.node = <<>>
  BY <1>1 DEF FwdInv, ForwardOK
<1>10. ForwardOK'
  BY <1>4, <1>7, <1>8, <1>9 DEF ForwardOK
<1>11. AccessesOK'
  <2>1. PICK w : w = forward
    OBVIOUS
  <2>2. w.acc = <<>> /\ w.node = <<>> /\ ForwardType(w, NumNodes) /\ AccessesHold(w, Cur, Base, NumNodes)
    BY <1>9, <2>1 DEF FwdInv, ForwardOK, AccessesOK
  <2>3. DOMAIN <<>> = {}
    OBVIOUS
  <2>4. \A c, n : AccOf(w, c, n) = <<>>
    BY <2>2, <2>3 DEF AccOf, Kept
  <2>5. AccessesHold(w, NumNodes + 1, Base, NumNodes + 1)
    <3>1. \A n : AccOf(w, NumNodes + 1, n) = AccOf(w, Cur, n)
      BY <2>4
    <3>2. \A n \in NumNodes + 1 .. NumNodes + 1 : AccOf(w, NumNodes + 1, n) = <<>>
      BY <2>4
    <3>3. Base \in Nat /\ 1 \in Nat
      BY <1>1, <1>3
    <3>4. QED
      BY <1>3, <2>2, <3>1, <3>2, <3>3, AccessesSame
  <2>6. QED
    BY <1>2, <1>4, <1>8, <2>1, <2>5 DEF AccessesOK
<1>12. EndedOK'
  <2>1. PICK own, pairs : own = Own' /\ pairs = forward.pairs
    OBVIOUS
  <2>2. OpensIn(pairs, NumNodes)
    BY <1>3, <2>1, OpensAre DEF FwdInv, ForwardOK
  <2>3. EndedHold(own, {NumNodes + 1}, NumNodes + 1, pairs, NumNodes, NumNodes + 1)
    BY <1>3, <2>2, EndedBegins
  <2>4. QED
    BY <1>1, <1>2, <1>4, <1>8, <2>1, <2>3 DEF EndedOK
<1>13. QED
  BY <1>7, <1>10, <1>11, <1>12 DEF FwdInv

\* The memory watcher through the observations.
LEMMA ObsAcc ==
  ASSUME Struct, MemOK, NEW obs \in ObsLists, OnReadObs(obs) \/ OnWriteObs(obs)
  PROVE  /\ \A n : n # Ctx.node => DepsOf(mem'.acc, n) = DepsOf(mem.acc, n)
         /\ MemType(mem', NumNodes + Len(obs))
<1>1. Len(obs) \in Nat /\ stack # <<>>
  BY ObsStruct
<1>2. PICK k \in Nat, n \in Nat : k = Len(obs) /\ n = NumNodes
  BY <1>1, Numbers
<1>3. PICK isWrite \in BOOLEAN : Observe(obs, isWrite)
  BY DEF OnReadObs, OnWriteObs
<1>4. mem' = FoldLeft(LAMBDA w, i : AddObs(w, Ctx.node, obs[i][1], obs[i][2], isWrite, NumNodes + i),
                      mem, [i \in 1 .. k |-> i])
  BY <1>2, <1>3 DEF Observe
<1>5. Ctx.node \in 1 .. n
  BY <1>1, <1>2, CtxIs
<1>6. PICK u : ObservedAll(mem, u, mem', Ctx.node, obs, isWrite, n, k)
  <2>1. obs \in Seq(Spans)
    BY GraphAssumption
  <2>2. MemType(mem, n) /\ ~mem.fenced
    BY <1>2, ObsStruct DEF MemOK
  <2>3. mem' = ObsFold!Fold(<<Ctx.node, obs, isWrite, NumNodes>>, mem, [i \in 1 .. k |-> i])
    BY <1>4 DEF FoldLeft, MapThenFoldSet, Max, ObsFold!Fold, ObsFold!MapThenFoldSet, ObsFold!Greatest, ObsTurn
  <2>4. mem' = ObsFold!Fold(<<Ctx.node, obs, isWrite, n>>, mem, [i \in 1 .. k |-> i])
    BY <1>2, <2>3
  <2>5. QED
    BY <1>2, <1>5, <2>1, <2>2, <2>4, ObserveIs
<1>7. /\ Observed(u, mem', obs, n, k) /\ MemType(mem', n + k)
      /\ u = mem \/ MemFlushed(mem, Ctx.node, u)
  BY <1>6 DEF ObservedAll
<1>8. mem'.acc = u.acc
  BY <1>7 DEF Observed
<1>9. \A m : m # Ctx.node => DepsOf(u.acc, m) = DepsOf(mem.acc, m)
  BY <1>7 DEF MemFlushed
<1>10. QED
  BY <1>2, <1>7, <1>8, <1>9

\* The same, with observations.
LEMMA ObsFwd ==
  ASSUME Struct, MemOK, FwdInv, NEW obs \in ObsLists, OnReadObs(obs) \/ OnWriteObs(obs)
  PROVE  FwdInv'
<1>1. /\ Struct' /\ Grown(Len(obs), "obs", 0, {}) /\ Len(obs) \in Nat /\ stack # <<>>
  BY ObsStruct
<1>2. PICK k \in Nat : k = Len(obs)
  BY <1>1
<1>3. NumNodes' = NumNodes + k /\ Base' = Base /\ NumNodes \in Nat /\ Base \in Nat
  BY <1>1, <1>2, GrownIs, Numbers
<1>4. UNCHANGED <<stack, frag, forward, dce, need>>
  BY DEF OnReadObs, OnWriteObs
<1>5. ForwardType(forward', NumNodes) /\ forward'.pairs = forward.pairs
  BY <1>4 DEF FwdInv, ForwardOK
<1>6. ForwardNeeds
  BY <1>4 DEF ForwardNeeds
<1>7. RoomOK' /\ DepsOK' /\ ForwardType(forward', NumNodes')
  BY <1>1, <1>4, <1>5, <1>6, FwdGrows
<1>8. StackNodes' = StackNodes /\ Cur' = Cur
  BY <1>4 DEF StackNodes, Cur, Ctx
<1>9. Cur \in StackNodes /\ Cur = Ctx.node /\ Cur \in 1 .. NumNodes /\ StackNodes \subseteq 1 .. NumNodes
  BY <1>1, StackIs, CurIs
<1>10. ForwardOK'
  BY <1>4, <1>7, <1>8 DEF ForwardOK, FwdInv
<1>11. AccessesOK'
  <2>1. PICK w : w = forward
    OBVIOUS
  <2>2. ForwardType(w, NumNodes) /\ AccessesHold(w, Cur, Base, NumNodes)
    BY <2>1 DEF FwdInv, ForwardOK, AccessesOK
  <2>3. ASSUME NEW n \in NumNodes + 1 .. NumNodes + k PROVE AccOf(w, Cur, n) = <<>>
    <3>1. n \notin 1 .. NumNodes /\ n # Cur
      BY <1>3, <1>9
    <3>2. QED
      BY <1>3, <2>2, <3>1, NoAccOf
  <2>4. AccessesHold(w, Cur, Base, NumNodes + k)
    BY <1>3, <2>2, <2>3, AccessesSame
  <2>5. QED
    BY <1>3, <1>4, <1>8, <2>1, <2>4 DEF AccessesOK
<1>12. OwnStays
  <2>1. \A i \in 1 .. Len(pendingNodes) : pendingNodes'[i] = pendingNodes[i]
    BY <1>1 DEF Grown
  <2>2. \A n : n # Ctx.node => DepsOf(mem'.acc, n) = DepsOf(mem.acc, n)
    BY ObsAcc
  <2>3. QED
    BY <1>4, <1>9, <2>1, <2>2 DEF OwnStays
<1>13. EndedOK'
  <2>1. OwnKept(Own, Own', StackNodes, Base, NumNodes)
    BY <1>3, <1>12, OwnKeptIs
  <2>2. PICK own, new, pairs : own = Own /\ new = Own' /\ pairs = forward.pairs
    OBVIOUS
  <2>3. EndedHold(own, StackNodes, Cur, pairs, Base, NumNodes)
    BY <2>2 DEF FwdInv, EndedOK
  <2>4. OpensIn(pairs, NumNodes)
    BY <1>3, <2>2, OpensAre DEF FwdInv, ForwardOK
  <2>5. EndedHold(new, StackNodes, Cur, pairs, Base, NumNodes + k)
    BY <1>3, <1>9, <2>1, <2>2, <2>3, <2>4, EndedSame
  <2>6. QED
    BY <1>3, <1>4, <1>8, <2>2, <2>5 DEF EndedOK
<1>14. QED
  BY <1>7, <1>10, <1>11, <1>13 DEF FwdInv

\* The flush of all watchers.
LEMMA FlushAllIs ==
  ASSUME Struct, Typed, ForwardOK, stack # <<>>, FlushAll(Ctx.node)
  PROVE  /\ FragType(frag', NumNodes) /\ FragFlushed(frag, frag', Ctx.node)
         /\ MemType(mem', NumNodes) /\ MemFlushed(mem, Ctx.node, mem')
         /\ ForwardType(forward', NumNodes) /\ PutAway(forward, forward', Ctx.node)
         /\ \A n : n # Ctx.node => /\ DepsOf(mem'.acc, n) = DepsOf(mem.acc, n)
                                   /\ DepsOf(frag'.acc, n) = DepsOf(frag.acc, n)
<1>1. Ctx.node \in 1 .. NumNodes /\ NumNodes \in Nat
  BY CtxIs, Numbers
<1>2. PICK c \in 1 .. NumNodes : c = Ctx.node
  BY <1>1
<1>3. frag' = FlushFrags(frag, c) /\ mem' = FlushMem(mem, c) /\ forward' = FlushForward(forward, c)
  BY <1>2 DEF FlushAll
<1>4. FragType(frag', NumNodes) /\ FragFlushed(frag, frag', c)
  BY <1>1, <1>3, FlushFragsIs DEF Typed
<1>5. MemType(mem', NumNodes) /\ MemFlushed(mem, c, mem')
  BY <1>1, <1>3, FlushMemIs DEF Typed
<1>6. ForwardType(forward', NumNodes) /\ PutAway(forward, forward', c)
  BY <1>1, <1>3, FlushForwardIs DEF ForwardOK
<1>7. \A n : n # c => DepsOf(mem'.acc, n) = DepsOf(mem.acc, n)
  BY <1>5 DEF MemFlushed
<1>8. \A n : n # c => DepsOf(frag'.acc, n) = DepsOf(frag.acc, n)
  BY <1>4 DEF FragFlushed, AccGrown
<1>9. QED
  BY <1>2, <1>4, <1>5, <1>6, <1>7, <1>8

\* The same, when a subcommand ends.
LEMMA EndSubFwd ==
  ASSUME Struct, Typed, FwdInv, OnEndSubCmd
  PROVE  FwdInv'
<1>1. /\ Struct' /\ NumNodes' = NumNodes /\ Base' = Base /\ stack # <<>> /\ stack' # <<>>
      /\ Len(stack') = Len(stack) - 1 /\ Len(stack) \in Nat /\ Len(stack) > 1
      /\ \A i \in 1 .. Len(stack) - 1 : stack'[i] = stack[i]
  BY EndSubStruct
<1>2. NumNodes \in Nat /\ Base \in Nat
  BY Numbers
<1>3. FlushAll(Ctx.node) /\ UNCHANGED <<graph, pendingNodes, dce, need>>
  BY DEF OnEndSubCmd, ghosts
<1>4. /\ ForwardType(forward', NumNodes) /\ PutAway(forward, forward', Ctx.node)
      /\ \A n : n # Ctx.node => /\ DepsOf(mem'.acc, n) = DepsOf(mem.acc, n)
                                /\ DepsOf(frag'.acc, n) = DepsOf(frag.acc, n)
  BY <1>1, <1>3, FlushAllIs DEF FwdInv
<1>5. /\ Cur \in StackNodes /\ Cur = Ctx.node /\ Cur \in 1 .. NumNodes /\ StackNodes \subseteq 1 .. NumNodes
      /\ \A s \in StackNodes \ {Cur} : s < Cur
  BY <1>1, StackIs, CurIs
<1>6. StackNodes' = StackNodes \ {Cur}
  <2>1. Cur = stack[Len(stack)].node /\ \A i \in 1 .. Len(stack) - 1 : stack[i].node < Cur
    BY <1>1, <1>5, CtxIs
  <2>2. StackNodes' = {stack[i].node : i \in 1 .. Len(stack) - 1}
    <3>1. StackNodes' = {stack'[i].node : i \in 1 .. Len(stack) - 1}
      BY <1>1 DEF StackNodes
    <3>2. QED
      BY <1>1, <3>1
  <2>3. \A i \in 1 .. Len(stack) - 1 : i \in 1 .. Len(stack) /\ stack[i].node \in Nat
    <3>1. \A i \in 1 .. Len(stack) - 1 : i \in 1 .. Len(stack)
      BY <1>1
    <3>2. \A i \in 1 .. Len(stack) : stack[i].node \in StackNodes
      BY DEF StackNodes
    <3>3. StackNodes \subseteq Nat
      BY <1>2, <1>5
    <3>4. QED
      BY <3>1, <3>2, <3>3
  <2>4. \A i \in 1 .. Len(stack) : i \in 1 .. Len(stack) - 1 \/ i = Len(stack)
    BY <1>1
  <2>5. ASSUME NEW i \in 1 .. Len(stack) - 1 PROVE stack[i].node \in StackNodes \ {Cur}
    BY <1>5, <2>1, <2>3 DEF StackNodes
  <2>6. ASSUME NEW s \in StackNodes, s # Cur PROVE s \in {stack[i].node : i \in 1 .. Len(stack) - 1}
    BY <2>1, <2>4, <2>6 DEF StackNodes
  <2>7. QED
    BY <2>2, <2>5, <2>6
<1>7. Cur' \in StackNodes'
  <2>1. Cur' = stack'[Len(stack')].node
    BY <1>1, Zenon DEF Cur, Ctx, Last
  <2>2. Len(stack') \in 1 .. Len(stack')
    BY <1>1
  <2>3. QED
    BY <2>1, <2>2 DEF StackNodes
<1>8. ForwardOK'
  <2>1. ASSUME NEW n \in StackNodes', n \in DOMAIN forward'.node PROVE forward'.node[n] = <<>>
    <3>1. n # Ctx.node /\ n \in StackNodes
      BY <1>5, <1>6
    <3>2. forward'.node = Set(forward.node, Ctx.node, forward.acc)
      BY <1>4 DEF PutAway
    <3>3. n \in DOMAIN forward.node /\ forward'.node[n] = forward.node[n]
      BY <2>1, <3>1, <3>2 DEF Set
    <3>4. QED
      BY <3>1, <3>3 DEF FwdInv, ForwardOK
  <2>2. QED
    BY <1>1, <1>4, <2>1 DEF ForwardOK
<1>9. AccessesOK'
  <2>1. PICK w, v, c, d : w = forward /\ v = forward' /\ c = Cur /\ d = Cur'
    OBVIOUS
  <2>2. ForwardType(w, NumNodes) /\ AccessesHold(w, c, Base, NumNodes) /\ PutAway(w, v, c) /\ c \in 1 .. NumNodes
    BY <1>4, <1>5, <2>1 DEF FwdInv, ForwardOK, AccessesOK
  <2>3. d # c /\ Kept(w, d) = <<>>
    <3>1. d \in StackNodes /\ d # c
      BY <1>6, <1>7, <2>1
    <3>2. d \in DOMAIN w.node => w.node[d] = <<>>
      BY <2>1, <3>1 DEF FwdInv, ForwardOK
    <3>3. QED
      BY <3>1, <3>2 DEF Kept
  <2>4. AccessesHold(v, d, Base, NumNodes + 0)
    BY <1>2, <2>2, <2>3, AccessesFlushed
  <2>5. NumNodes + 0 = NumNodes
    BY <1>2
  <2>6. QED
    BY <1>1, <2>1, <2>4, <2>5 DEF AccessesOK
<1>10. forward'.pairs = forward.pairs
  BY <1>4 DEF PutAway
<1>11. EndedOK'
  <2>1. OwnStays
    BY <1>3, <1>4, <1>5 DEF OwnStays
  <2>2. NumNodes' = NumNodes + 0
    BY <1>1, <1>2
  <2>3. OwnKept(Own, Own', StackNodes, Base, NumNodes)
    BY <1>1, <2>1, <2>2, OwnKeptIs
  <2>4. PICK own, new, pairs, S, c : own = Own /\ new = Own' /\ pairs = forward.pairs /\ S = StackNodes /\ c = Cur
    OBVIOUS
  <2>5. EndedHold(own, S, c, pairs, Base, NumNodes) /\ OwnKept(own, new, S, Base, NumNodes)
    BY <2>3, <2>4 DEF FwdInv, EndedOK
  <2>6. OpensIn(pairs, NumNodes)
    BY <1>2, <2>4, OpensAre DEF FwdInv, ForwardOK
  <2>7. S \subseteq 1 .. NumNodes /\ c \in S /\ \A s \in S \ {c} : s < c
    BY <1>5, <2>4
  <2>8. EndedHold(new, S \ {c}, Cur', pairs, Base, NumNodes)
    BY <1>2, <2>5, <2>6, <2>7, EndedShallower
  <2>9. QED
    BY <1>1, <1>6, <1>10, <2>4, <2>8 DEF EndedOK
<1>12. RoomOK'
  BY <1>1, <1>3, <1>10 DEF RoomOK, FwdInv
<1>13. DepsOK'
  BY <1>1, <1>3 DEF DepsOK, FwdInv
<1>14. QED
  BY <1>8, <1>9, <1>11, <1>12, <1>13 DEF FwdInv

\* The same, when a subcommand begins.
LEMMA BeginSubFwd ==
  ASSUME Struct, Typed, FwdInv, NEW r \in Records, OnBeginSubCmd(r)
  PROVE  FwdInv'
<1>1. /\ Struct' /\ Grown(1, "sub", Ctx.node, RecordNode(r)) /\ stack # <<>>
      /\ Len(stack') = Len(stack) + 1 /\ stack'[Len(stack) + 1].node = NumNodes + 1
      /\ \A i \in 1 .. Len(stack) : stack'[i] = stack[i]
  BY BeginSubStruct
<1>2. NumNodes \in Nat /\ Base \in Nat /\ Len(stack) \in Nat
  BY Numbers
<1>3. NumNodes' = NumNodes + 1 /\ Base' = Base
  BY <1>1, GrownIs
<1>4. /\ FlushAll(Ctx.node) /\ dce' = dce /\ NoForwardYet
      /\ need' = need \cup RecordNeeds(NumNodes + 1, r) \cup {<<"record", NumNodes + 1, Ctx.node>>}
  BY DEF OnBeginSubCmd
<1>5. /\ ForwardType(forward', NumNodes) /\ PutAway(forward, forward', Ctx.node)
      /\ \A n : n # Ctx.node => /\ DepsOf(mem'.acc, n) = DepsOf(mem.acc, n)
                                /\ DepsOf(frag'.acc, n) = DepsOf(frag.acc, n)
  BY <1>1, <1>4, FlushAllIs DEF FwdInv
<1>6. /\ Cur \in StackNodes /\ Cur = Ctx.node /\ Cur \in 1 .. NumNodes /\ StackNodes \subseteq 1 .. NumNodes
      /\ Cur \in Base + 1 .. NumNodes
  BY <1>1, StackIs, CurIs
<1>7. StackNodes' = StackNodes \cup {NumNodes + 1}
  <2>1. \A i \in 1 .. Len(stack) : i \in 1 .. Len(stack) + 1
    BY <1>2
  <2>2. \A i \in 1 .. Len(stack) + 1 : i \in 1 .. Len(stack) \/ i = Len(stack) + 1
    BY <1>2
  <2>3. Len(stack) + 1 \in 1 .. Len(stack) + 1
    BY <1>2
  <2>4. StackNodes' = {stack'[i].node : i \in 1 .. Len(stack) + 1}
    BY <1>1 DEF StackNodes
  <2>5. QED
    BY <1>1, <2>1, <2>2, <2>3, <2>4 DEF StackNodes
<1>8. Cur' = NumNodes + 1 /\ stack' # <<>>
  <2>1. stack' # <<>>
    BY <1>1, <1>2
  <2>2. Cur' = stack'[Len(stack')].node
    BY <2>1, Zenon DEF Cur, Ctx, Last
  <2>3. QED
    BY <1>1, <2>1, <2>2
<1>9. forward'.pairs = forward.pairs /\ forward'.node = Set(forward.node, Ctx.node, forward.acc)
  BY <1>5 DEF PutAway
<1>10. ForwardNeeds
  BY <1>4 DEF ForwardNeeds, RecordNeeds
<1>11. RoomOK' /\ DepsOK' /\ ForwardType(forward', NumNodes')
  BY <1>1, <1>4, <1>5, <1>9, <1>10, FwdGrows
<1>12. forward.acc = <<>> /\ (Ctx.node \in DOMAIN forward.node => forward.node[Ctx.node] = <<>>)
  BY <1>4 DEF NoForwardYet
<1>13. NumNodes + 1 \notin 1 .. NumNodes
  BY <1>2
<1>14. ForwardOK'
  <2>1. ASSUME NEW n \in StackNodes', n \in DOMAIN forward'.node PROVE forward'.node[n] = <<>>
    <3>1. CASE n = Ctx.node
      BY <1>9, <1>12, <3>1 DEF Set
    <3>2. CASE n # Ctx.node
      <4>1. n \in DOMAIN forward.node /\ forward'.node[n] = forward.node[n]
        BY <1>9, <2>1, <3>2 DEF Set
      <4>2. n \in 1 .. NumNodes
        BY <4>1 DEF FwdInv, ForwardOK, ForwardType
      <4>3. n \in StackNodes
        BY <1>7, <1>13, <4>2
      <4>4. QED
        BY <4>1, <4>3 DEF FwdInv, ForwardOK
    <3>3. QED
      BY <3>1, <3>2
  <2>2. QED
    BY <1>8, <1>11, <2>1 DEF ForwardOK
<1>15. AccessesOK'
  <2>1. PICK w, v, c : w = forward /\ v = forward' /\ c = Cur
    OBVIOUS
  <2>2. ForwardType(w, NumNodes) /\ AccessesHold(w, c, Base, NumNodes) /\ PutAway(w, v, c) /\ c \in 1 .. NumNodes
    BY <1>5, <1>6, <2>1 DEF FwdInv, ForwardOK, AccessesOK
  <2>3. NumNodes + 1 # c
    BY <1>2, <2>2
  <2>4. Kept(w, NumNodes + 1) = <<>>
    BY <1>2, <1>13, <2>2, <2>3, NoAccOf
  <2>5. AccessesHold(v, NumNodes + 1, Base, NumNodes + 1)
    BY <1>2, <2>2, <2>3, <2>4, AccessesFlushed
  <2>6. QED
    BY <1>3, <1>8, <2>1, <2>5 DEF AccessesOK
<1>16. \A k \in 1 .. Len(forward.pairs) : forward.pairs[k].open # Cur
  <2>1. SUFFICES ASSUME NEW k \in 1 .. Len(forward.pairs), forward.pairs[k].open = Cur PROVE FALSE
    OBVIOUS
  <2>2. Cur > Base
    BY <1>2, <1>6
  <2>3. Holds(AccOf(forward, Cur, forward.pairs[k].open), k, "open")
    BY <2>1, <2>2 DEF FwdInv, AccessesOK, AccessesHold
  <2>4. AccOf(forward, Cur, forward.pairs[k].open) = <<>>
    BY <1>12, <2>1 DEF AccOf
  <2>5. Holds(<<>>, k, "open")
    BY <2>3, <2>4, Zenon
  <2>6. QED
    BY <2>5 DEF Holds
<1>17. EndedOK'
  <2>1. OwnStays
    <3>1. \A i \in 1 .. Len(pendingNodes) : pendingNodes'[i] = pendingNodes[i]
      BY <1>1 DEF Grown
    <3>2. QED
      BY <1>5, <1>6, <3>1 DEF OwnStays
  <2>2. OwnKept(Own, Own', StackNodes, Base, NumNodes)
    BY <1>3, <2>1, OwnKeptIs
  <2>3. \A n \in Base + 1 .. NumNodes : Own[n] \subseteq 1 .. NumNodes
    BY OwnIn, OwnAt
  <2>4. PICK own, new, pairs, S, c : own = Own /\ new = Own' /\ pairs = forward.pairs /\ S = StackNodes /\ c = Cur
    OBVIOUS
  <2>5. EndedHold(own, S, c, pairs, Base, NumNodes) /\ OwnKept(own, new, S, Base, NumNodes)
    BY <2>2, <2>4 DEF FwdInv, EndedOK
  <2>6. OpensIn(pairs, NumNodes)
    BY <1>2, <2>4, OpensAre DEF FwdInv, ForwardOK
  <2>7. S \subseteq 1 .. NumNodes /\ \A n \in Base + 1 .. NumNodes : own[n] \subseteq 1 .. NumNodes
    BY <1>6, <2>3, <2>4
  <2>8. \A k \in 1 .. Len(pairs) : pairs[k].open # c
    BY <1>16, <2>4
  <2>9. EndedHold(new, S \cup {NumNodes + 1}, NumNodes + 1, pairs, Base, NumNodes + 1)
    BY <1>2, <2>5, <2>6, <2>7, <2>8, EndedDeeper
  <2>10. QED
    BY <1>3, <1>7, <1>8, <1>9, <2>4, <2>9 DEF EndedOK
<1>18. QED
  BY <1>11, <1>14, <1>15, <1>17 DEF FwdInv

-----------------------------------------------------------------------------
(***************************************************************************)
(* The end of a command.                                                   *)
(***************************************************************************)
\* The dependencies that the nodes have by themselves when the command ends.
EndOwn(f, m) ==
  [n \in 1 .. NumNodes |-> IF n <= Base THEN graph.deps[n] ELSE OwnDeps(pendingNodes[n - Base], f, m)]

\* The forward accesses of all nodes.
EndAcc(w) == [n \in 1 .. NumNodes |-> Kept(w, n)]

\* The watchers as the flush leaves them.
FlushedAll(f, m, w) ==
  /\ FragType(f, NumNodes) /\ FragFlushed(frag, f, Ctx.node)
  /\ MemType(m, NumNodes) /\ MemFlushed(mem, Ctx.node, m)
  /\ ForwardType(w, NumNodes) /\ PutAway(forward, w, Ctx.node)

\* The three flushes at the end of a command.
LEMMA EndFlushed ==
  ASSUME Struct, Typed, ForwardOK, stack # <<>>
  PROVE  FlushedAll(FlushFrags(frag, Ctx.node), FlushMem(mem, Ctx.node), FlushForward(forward, Ctx.node))
<1>1. Ctx.node \in 1 .. NumNodes /\ NumNodes \in Nat
  BY CtxIs, Numbers
<1>2. PICK c \in 1 .. NumNodes : c = Ctx.node
  BY <1>1
<1>3. PICK f, m, w : f = FlushFrags(frag, c) /\ m = FlushMem(mem, c) /\ w = FlushForward(forward, c)
  OBVIOUS
<1>4. FragType(f, NumNodes) /\ FragFlushed(frag, f, c)
  BY <1>1, <1>3, FlushFragsIs DEF Typed
<1>5. MemType(m, NumNodes) /\ MemFlushed(mem, c, m)
  BY <1>1, <1>3, FlushMemIs DEF Typed
<1>6. ForwardType(w, NumNodes) /\ PutAway(forward, w, c)
  BY <1>1, <1>3, FlushForwardIs DEF ForwardOK
<1>7. QED
  BY <1>2, <1>3, <1>4, <1>5, <1>6, Zenon DEF FlushedAll

\* The dependencies to be added are nodes.
LEMMA EndOwnIn ==
  ASSUME Struct, FwdInv, stack # <<>>, NEW f, NEW m, NEW w, FlushedAll(f, m, w), NEW n \in 1 .. NumNodes
  PROVE  EndOwn(f, m)[n] \subseteq 1 .. NumNodes
<1>0. NumNodes \in Nat /\ Base \in Nat /\ Base <= NumNodes
  BY Numbers
<1>1. CASE n <= Base
  <2>1. EndOwn(f, m)[n] = graph.deps[n]
    BY <1>1 DEF EndOwn
  <2>2. graph.deps[n] \subseteq 1 .. Base
    BY <1>0, <1>1 DEF FwdInv, DepsOK
  <2>3. 1 .. Base \subseteq 1 .. NumNodes
    BY <1>0
  <2>4. QED
    BY <2>1, <2>2, <2>3
<1>2. CASE n > Base
  <2>1. PICK p : p = pendingNodes[n - Base]
    OBVIOUS
  <2>2. n \in Base + 1 .. NumNodes /\ ~(n <= Base)
    BY <1>0, <1>2
  <2>3. EndOwn(f, m)[n] = OwnDeps(p, f, m)
    BY <2>1, <2>2 DEF EndOwn
  <2>4. p.node = n /\ p.parent \in 0 .. NumNodes /\ p.inits \subseteq 1 .. NumNodes
    BY <2>1, <2>2, PendingAt
  <2>5. AccType(m.acc, NumNodes) /\ AccType(f.acc, NumNodes)
    BY DEF FlushedAll, MemType, FragType
  <2>6. DepsOf(m.acc, p.node) \subseteq 1 .. NumNodes /\ DepsOf(f.acc, p.node) \subseteq 1 .. NumNodes
    BY <2>5, AccDeps
  <2>7. (IF p.parent = 0 THEN {} ELSE {p.parent}) \subseteq 1 .. NumNodes
    BY <1>0, <2>4
  <2>8. OwnDeps(p, f, m) \subseteq 1 .. NumNodes
    BY <2>4, <2>6, <2>7, Zenon DEF OwnDeps
  <2>9. QED
    BY <2>3, <2>8, Zenon
<1>3. QED
  BY <1>0, <1>1, <1>2

\* Only the current node gets new ones with the flush.
LEMMA EndOwnSame ==
  ASSUME Struct, stack # <<>>, NEW f, NEW m, NEW w, FlushedAll(f, m, w), NEW n \in Base + 1 .. NumNodes, n # Ctx.node
  PROVE  EndOwn(f, m)[n] = Own[n]
<1>0. NumNodes \in Nat /\ Base \in Nat /\ Base <= NumNodes
  BY Numbers
<1>1. Own[n] = OwnOf(n)
  BY OwnAt
<1>2. PICK p : p = pendingNodes[n - Base]
  OBVIOUS
<1>3. n \in 1 .. NumNodes /\ ~(n <= Base)
  BY <1>0
<1>4. EndOwn(f, m)[n] = OwnDeps(p, f, m)
  BY <1>2, <1>3 DEF EndOwn
<1>5. p.node = n
  BY <1>2, PendingAt
<1>6. DepsOf(m.acc, n) = DepsOf(mem.acc, n) /\ DepsOf(f.acc, n) = DepsOf(frag.acc, n)
  BY DEF FlushedAll, MemFlushed, FragFlushed, AccGrown
<1>7. OwnDeps(p, f, m) = OwnDeps(p, frag, mem)
  BY <1>5, <1>6, Zenon DEF OwnDeps
<1>8. QED
  BY <1>1, <1>2, <1>4, <1>7, Zenon DEF OwnOf

\* A pair that a settled or ended node opened: all that the node depends on
\* comes before the closing node.
LEMMA EndOrder ==
  ASSUME Struct, FwdInv, stack # <<>>, NEW f, NEW m, NEW w, FlushedAll(f, m, w), NEW i \in 1 .. Len(forward.pairs),
         forward.pairs[i].open < forward.pairs[i].close, forward.pairs[i].close > Base
  PROVE  EndOwn(f, m)[forward.pairs[i].open] \subseteq 1 .. forward.pairs[i].close
<1>0. NumNodes \in Nat /\ Base \in Nat /\ Base <= NumNodes
  BY Numbers
<1>1. PICK o, e : o = forward.pairs[i].open /\ e = forward.pairs[i].close
  OBVIOUS
<1>2. o \in 1 .. NumNodes /\ e \in 0 .. NumNodes /\ o < e /\ e > Base
  BY <1>1 DEF FwdInv, ForwardOK, ForwardType
<1>3. CASE o <= Base
  <2>1. EndOwn(f, m)[o] = graph.deps[o]
    BY <1>2, <1>3 DEF EndOwn
  <2>2. o \in 1 .. Base
    BY <1>0, <1>2, <1>3
  <2>3. graph.deps[o] \subseteq 1 .. Base
    BY <2>2 DEF FwdInv, DepsOK
  <2>4. 1 .. Base \subseteq 1 .. e
    BY <1>0, <1>2
  <2>5. EndOwn(f, m)[o] \subseteq 1 .. e
    BY <2>1, <2>3, <2>4
  <2>6. QED
    BY <1>1, <2>5, Zenon
<1>4. CASE o > Base
  <2>1. EndedHold(Own, StackNodes, Cur, forward.pairs, Base, NumNodes)
    BY DEF FwdInv, EndedOK
  <2>2. o \notin StackNodes /\ Own[o] \subseteq 1 .. e
    BY <1>1, <1>2, <1>4, <2>1 DEF EndedHold
  <2>3. o # Ctx.node
    BY <2>2, StackIs, CurIs
  <2>4. o \in Base + 1 .. NumNodes
    BY <1>0, <1>2, <1>4
  <2>5. EndOwn(f, m)[o] = Own[o]
    BY <2>3, <2>4, EndOwnSame
  <2>6. QED
    BY <1>1, <2>2, <2>5, Zenon
<1>5. QED
  BY <1>0, <1>2, <1>3, <1>4

\* The watchers are ready for the end of a command: the bounds of EndedHold
\* are those that AddDependency asks for.
LEMMA EndReady ==
  ASSUME Struct, FwdInv, stack # <<>>, NEW f, NEW m, NEW w, FlushedAll(f, m, w)
  PROVE  Ready(EndOwn(f, m), w.pairs, EndAcc(w), Base, NumNodes)
<1>0. NumNodes \in Nat /\ Base \in Nat /\ Base <= NumNodes
  BY Numbers
<1>1. PICK own, acc, pairs : own = EndOwn(f, m) /\ acc = EndAcc(w) /\ pairs = forward.pairs
  OBVIOUS
<1>2. w.pairs = pairs
  BY <1>1 DEF FlushedAll, PutAway
<1>3. PairsType(pairs, NumNodes)
  BY <1>1, ForwardParts DEF FwdInv, ForwardOK
<1>4. /\ pairs \in Seq([open : Nat, close : Nat])
      /\ \A i \in 1 .. Len(pairs) : pairs[i].open \in 1 .. NumNodes /\ pairs[i].close \in 0 .. NumNodes
  BY <1>3 DEF PairsType, PairType
<1>5. \A n \in 1 .. NumNodes : own[n] \subseteq 1 .. NumNodes
  BY <1>1, EndOwnIn
<1>6. \A i \in 1 .. Len(pairs) :
       pairs[i].open < pairs[i].close /\ pairs[i].close > Base => own[pairs[i].open] \subseteq 1 .. pairs[i].close
  BY <1>1, EndOrder
<1>7. Cur = Ctx.node
  BY CurIs
<1>8. ASSUME NEW n \in 1 .. NumNodes PROVE acc[n] = AccOf(forward, Cur, n)
  <2>1. acc[n] = Kept(w, n)
    BY <1>1 DEF EndAcc
  <2>2. Kept(w, n) = AccOf(forward, Ctx.node, n)
    BY KeptAfter DEF FlushedAll
  <2>3. QED
    BY <1>7, <2>1, <2>2, Zenon
<1>9. ForwardType(forward, NumNodes) /\ AccessesHold(forward, Cur, Base, NumNodes)
  BY DEF FwdInv, ForwardOK, AccessesOK
<1>10. ASSUME NEW n \in Base + 1 .. NumNodes
       PROVE  /\ acc[n] \in Seq(ForwardAccesses)
              /\ \A k \in 1 .. Len(acc[n]) :
                   /\ acc[n][k].pair \in 1 .. Len(pairs)
                   /\ acc[n][k].mode = "open" => pairs[acc[n][k].pair].open = n
                   /\ acc[n][k].mode = "close" => pairs[acc[n][k].pair].close = n
  <2>1. n \in 1 .. NumNodes
    BY <1>0
  <2>2. acc[n] = AccOf(forward, Cur, n)
    BY <1>8, <2>1
  <2>3. AccOf(forward, Cur, n) \in Seq(ForwardAccesses)
    BY <1>9, AccSeq
  <2>4. AccessList(AccOf(forward, Cur, n), forward.pairs, n)
    BY <1>9 DEF AccessesHold
  <2>5. PICK s : s = acc[n]
    OBVIOUS
  <2>6. s \in Seq(ForwardAccesses) /\ AccessList(s, pairs, n)
    BY <1>1, <2>2, <2>3, <2>4, <2>5, Zenon
  <2>7. \A k \in 1 .. Len(s) :
                   /\ s[k].pair \in 1 .. Len(pairs)
                   /\ s[k].mode = "open" => pairs[s[k].pair].open = n
                   /\ s[k].mode = "close" => pairs[s[k].pair].close = n
    BY <2>6 DEF AccessList
  <2>8. QED
    BY <2>5, <2>6, <2>7, Zenon
<1>11. ASSUME NEW i \in 1 .. Len(pairs)
       PROVE  /\ pairs[i].open > Base => Holds(acc[pairs[i].open], i, "open")
              /\ pairs[i].close > Base => Holds(acc[pairs[i].close], i, "close")
  <2>1. PICK o, e : o = pairs[i].open /\ e = pairs[i].close
    OBVIOUS
  <2>2. o \in 1 .. NumNodes /\ e \in 0 .. NumNodes
    BY <1>4, <2>1
  <2>3. /\ o > Base => Holds(AccOf(forward, Cur, o), i, "open")
        /\ e > Base => Holds(AccOf(forward, Cur, e), i, "close")
    BY <1>1, <1>9, <2>1 DEF AccessesHold
  <2>4. o > Base => Holds(acc[o], i, "open")
    BY <1>8, <2>2, <2>3
  <2>5. ASSUME e > Base PROVE Holds(acc[e], i, "close")
    <3>1. e \in 1 .. NumNodes
      BY <1>0, <2>2, <2>5
    <3>2. QED
      BY <1>8, <2>3, <2>5, <3>1
  <2>6. QED
    BY <2>1, <2>4, <2>5, Zenon
<1>12. Ready(own, pairs, acc, Base, NumNodes)
  BY <1>4, <1>5, <1>6, <1>10, <1>11 DEF Ready
<1>13. QED
  BY <1>1, <1>2, <1>12, Zenon

\* The settled nodes are complete before the first pending one.
LEMMA EndStarts ==
  ASSUME Struct, FwdInv, NEW f, NEW m
  PROVE  Completed(graph, graph, EndOwn(f, m), forward.pairs, NumNodes, Base)
<1>0. NumNodes \in Nat /\ Base \in Nat /\ Base <= NumNodes
  BY Numbers
<1>1. GraphType(graph, NumNodes)
  BY DEF Struct, StageOK
<1>2. PICK own, pairs, g : own = EndOwn(f, m) /\ pairs = forward.pairs /\ g = graph
  OBVIOUS
<1>3. \A n \in 1 .. Base : own[n] = g.deps[n]
  BY <1>0, <1>2 DEF EndOwn
<1>4. \A n \in 1 .. Base : own[n] \subseteq g.deps[n] /\ g.deps[n] \subseteq own[n] \cup (1 .. Base)
  BY <1>3
<1>5. \A n \in 1 .. Base : Cardinality(Unclosed(g, pairs, n)) <= g.room[n]
  BY <1>2 DEF FwdInv, RoomOK, RoomHold
<1>6. \A n \in Base + 1 .. NumNodes : g.deps[n] = {} /\ g.room[n] = 0
  BY <1>2 DEF FwdInv, DepsOK
<1>7. g.panicked = FALSE
  BY <1>2 DEF FwdInv, DepsOK
<1>8. \A i \in 1 .. Len(pairs) :
       pairs[i].open \in 1 .. Base /\ pairs[i].close \in 1 .. Base => pairs[i].close \in g.deps[pairs[i].open]
  BY <1>0, <1>2 DEF FwdInv, RoomOK, RoomHold
<1>9. Completed(g, g, own, pairs, NumNodes, Base)
  BY <1>1, <1>2, <1>4, <1>5, <1>6, <1>7, <1>8 DEF Completed
<1>10. QED
  BY <1>2, <1>9, Zenon

\* A graph whose nodes are all done.
GraphDone(g, f, m) ==
  /\ GraphType(g, NumNodes) /\ g.nodes = graph.nodes /\ g.panicked = FALSE
  /\ \A n \in 1 .. NumNodes : g.deps[n] \subseteq 1 .. NumNodes
  /\ \A n \in 1 .. Base : graph.deps[n] \subseteq g.deps[n]
  /\ \A n \in Base + 1 .. NumNodes : OwnDeps(pendingNodes[n - Base], f, m) \subseteq g.deps[n]
  /\ RoomHold(g, forward.pairs, NumNodes)

\* The end of a command completes the graph.
LEMMA EndDone ==
  ASSUME Struct, FwdInv, stack # <<>>, NEW f, NEW m, NEW w, FlushedAll(f, m, w), NEW g,
         g = EndFold!Fold(<<f, m, w>>, graph, pendingNodes)
  PROVE  GraphDone(g, f, m) /\ g.unopened = graph.unopened
<1>0. NumNodes \in Nat /\ Base \in Nat /\ Base <= NumNodes /\ NumNodes = Base + Len(pendingNodes) /\ Len(pendingNodes) \in Nat
  BY Numbers
<1>1. PICK own, acc, pairs : own = EndOwn(f, m) /\ acc = EndAcc(w) /\ pairs = w.pairs
  OBVIOUS
<1>2. pairs = forward.pairs
  BY <1>1 DEF FlushedAll, PutAway
<1>3. Ready(own, w.pairs, acc, Base, NumNodes)
  BY <1>1, EndReady
<1>4. Completed(graph, graph, own, w.pairs, NumNodes, Base)
  BY <1>1, <1>2, EndStarts
<1>5. pendingNodes \in Seq(PendingType) /\ Len(pendingNodes) = NumNodes - Base
  BY <1>0 DEF Struct, PendingOK
<1>6. ASSUME NEW i \in 1 .. Len(pendingNodes)
      PROVE  /\ pendingNodes[i].node = Base + i
             /\ own[Base + i] = OwnDeps(pendingNodes[i], f, m)
             /\ acc[Base + i] = Kept(w, Base + i)
  <2>1. pendingNodes[i].node = Base + i
    BY DEF Struct, PendingOK
  <2>2. Base + i \in 1 .. NumNodes /\ ~(Base + i <= Base) /\ (Base + i) - Base = i
    BY <1>0
  <2>3. own[Base + i] = OwnDeps(pendingNodes[(Base + i) - Base], f, m)
    BY <1>1, <2>2 DEF EndOwn
  <2>4. acc[Base + i] = Kept(w, Base + i)
    BY <1>1, <2>2 DEF EndAcc
  <2>5. QED
    BY <2>1, <2>2, <2>3, <2>4
<1>8. Completed(g, graph, own, w.pairs, NumNodes, NumNodes)
  <2>1. PICK N \in Nat, low \in Nat, xs \in Seq(PendingType) :
          N = NumNodes /\ low = Base /\ xs = pendingNodes
    BY <1>0, <1>5
  <2>2. PICK g0 : g0 = graph
    OBVIOUS
  <2>3. low <= N /\ Len(xs) = N - low
    BY <1>0, <1>5, <2>1
  <2>4. \A i \in 1 .. Len(xs) : /\ xs[i].node = low + i
                                /\ own[low + i] = OwnDeps(xs[i], f, m)
                                /\ acc[low + i] = Kept(w, low + i)
    BY <1>6, <2>1, Zenon
  <2>5. Ready(own, w.pairs, acc, low, N) /\ Completed(g0, g0, own, w.pairs, N, low)
    BY <1>3, <1>4, <2>1, <2>2, Zenon
  <2>6. Completed(EndFold!Fold(<<f, m, w>>, g0, xs), g0, own, w.pairs, N, N)
    BY <2>3, <2>4, <2>5, AllDone
  <2>7. QED
    BY <2>1, <2>2, <2>6, Zenon
<1>9. /\ GraphType(g, NumNodes) /\ g.nodes = graph.nodes /\ g.unopened = graph.unopened /\ g.panicked = FALSE
      /\ \A n \in 1 .. NumNodes : own[n] \subseteq g.deps[n] /\ g.deps[n] \subseteq own[n] \cup (1 .. NumNodes)
      /\ \A n \in 1 .. NumNodes : Cardinality(Unclosed(g, pairs, n)) <= g.room[n]
      /\ \A i \in 1 .. Len(pairs) :
           pairs[i].open \in 1 .. NumNodes /\ pairs[i].close \in 1 .. NumNodes => pairs[i].close \in g.deps[pairs[i].open]
  <2>1. Completed(g, graph, own, pairs, NumNodes, NumNodes)
    BY <1>1, <1>8, Zenon
  <2>2. QED
    BY <2>1 DEF Completed
<1>10. \A n \in 1 .. NumNodes : own[n] \subseteq 1 .. NumNodes
  BY <1>3 DEF Ready
<1>11. \A n \in 1 .. NumNodes : g.deps[n] \subseteq 1 .. NumNodes
  BY <1>9, <1>10, Zenon
<1>12. ASSUME NEW n \in 1 .. Base PROVE graph.deps[n] \subseteq g.deps[n]
  <2>1. n \in 1 .. NumNodes /\ n <= Base
    BY <1>0
  <2>2. own[n] = graph.deps[n]
    BY <1>1, <2>1 DEF EndOwn
  <2>3. QED
    BY <1>9, <2>1, <2>2, Zenon
<1>13. ASSUME NEW n \in Base + 1 .. NumNodes PROVE OwnDeps(pendingNodes[n - Base], f, m) \subseteq g.deps[n]
  <2>1. n \in 1 .. NumNodes /\ ~(n <= Base)
    BY <1>0
  <2>2. own[n] = OwnDeps(pendingNodes[n - Base], f, m)
    BY <1>1, <2>1 DEF EndOwn
  <2>3. QED
    BY <1>9, <2>1, <2>2, Zenon
<1>14. OpensIn(pairs, NumNodes)
  BY <1>0, <1>2, OpensAre DEF FwdInv, ForwardOK
<1>15. RoomHold(g, pairs, NumNodes)
  <2>1. \A i \in 1 .. Len(pairs) :
           pairs[i].open <= NumNodes /\ pairs[i].close \in 1 .. NumNodes => pairs[i].close \in g.deps[pairs[i].open]
    BY <1>9, <1>14 DEF OpensIn
  <2>2. QED
    BY <1>9, <2>1 DEF RoomHold
<1>16. QED
  BY <1>2, <1>9, <1>11, <1>12, <1>13, <1>15, Zenon DEF GraphDone

\* What the end of a command does.
EndStep(f, m, w) ==
  /\ FlushedAll(f, m, w) /\ GraphDone(graph', f, m)
  /\ graph'.unopened \subseteq graph.unopened \cup {cmds}
  /\ f = FlushFrags(frag, Ctx.node) /\ m = FlushMem(mem, Ctx.node)
  /\ frag' = [f EXCEPT !.access = <<>>, !.acc = NoAccesses]
  /\ mem' = [m EXCEPT !.acc = NoAccesses]
  /\ forward' = [w EXCEPT !.node = <<>>, !.unopened = FALSE]
  /\ stack # <<>> /\ pendingNodes' = <<>> /\ stack' = <<>> /\ stage' = "idle"
  /\ UNCHANGED <<config, cmds, events, records, dce, wrote, need>>

\* The end of a command, with its flushes named.
LEMMA EndIs ==
  ASSUME Struct, Typed, FwdInv, OnEndCmd
  PROVE  \E f, m, w : EndStep(f, m, w)
<1>1. PICK c, f, m, w : /\ c = Ctx.node /\ f = FlushFrags(frag, c) /\ m = FlushMem(mem, c)
                        /\ w = FlushForward(forward, c)
  OBVIOUS
<1>2. PICK g : g = EndFold!Fold(<<f, m, w>>, graph, pendingNodes)
  OBVIOUS
<1>3. /\ stage \in {"begun", "body", "fenced"} /\ Len(stack) = 1
      /\ frag' = [f EXCEPT !.access = <<>>, !.acc = NoAccesses]
      /\ mem' = [m EXCEPT !.acc = NoAccesses]
      /\ forward' = [w EXCEPT !.node = <<>>, !.unopened = FALSE]
      /\ pendingNodes' = <<>> /\ stack' = <<>> /\ stage' = "idle"
      /\ UNCHANGED <<config, cmds, events, records, dce, wrote, need>>
  BY <1>1, Zenon DEF OnEndCmd, ghosts
<1>4. graph' = IF w.unopened THEN [g EXCEPT !.unopened = @ \cup {cmds}] ELSE g
  <2>1. graph' = IF FlushForward(forward, Ctx.node).unopened
                 THEN [EndFold!Fold(<<FlushFrags(frag, Ctx.node), FlushMem(mem, Ctx.node), FlushForward(forward, Ctx.node)>>,
                                    graph, pendingNodes) EXCEPT !.unopened = @ \cup {cmds}]
                 ELSE EndFold!Fold(<<FlushFrags(frag, Ctx.node), FlushMem(mem, Ctx.node), FlushForward(forward, Ctx.node)>>,
                                   graph, pendingNodes)
    BY DEF OnEndCmd, FoldLeft, MapThenFoldSet, Max, EndFold!Fold, EndFold!MapThenFoldSet, EndFold!Greatest, EndTurn
  <2>2. QED
    BY <1>1, <1>2, <2>1, Zenon
<1>5. stack # <<>>
  BY <1>3 DEF Struct, StageOK
<1>6. FlushedAll(f, m, w)
  <2>1. FlushedAll(FlushFrags(frag, Ctx.node), FlushMem(mem, Ctx.node), FlushForward(forward, Ctx.node))
    BY <1>5, EndFlushed DEF FwdInv
  <2>2. QED
    BY <1>1, <2>1, Zenon
<1>7. GraphDone(g, f, m) /\ g.unopened = graph.unopened
  BY <1>2, <1>5, <1>6, EndDone
<1>8. PICK h : h = graph'
  OBVIOUS
<1>9. NumNodes \in Nat /\ GraphType(g, NumNodes)
  BY <1>7, Numbers DEF GraphDone
<1>10. /\ GraphType(h, NumNodes) /\ h.nodes = g.nodes /\ h.deps = g.deps /\ h.room = g.room /\ h.panicked = g.panicked
       /\ h.unopened \subseteq g.unopened \cup {cmds}
  <2>1. h = g \/ h = [g EXCEPT !.unopened = @ \cup {cmds}]
    BY <1>4, <1>8, Zenon
  <2>2. QED
    BY <1>9, <2>1, UnopenedMore
<1>11. RoomHold(h, forward.pairs, NumNodes)
  BY <1>7, <1>10, Zenon DEF GraphDone, RoomHold, Unclosed
<1>12. GraphDone(h, f, m)
  BY <1>7, <1>10, <1>11, Zenon DEF GraphDone
<1>13. h.unopened \subseteq graph.unopened \cup {cmds}
  BY <1>7, <1>10, Zenon
<1>14. EndStep(f, m, w)
  BY <1>1, <1>3, <1>5, <1>6, <1>8, <1>12, <1>13, Zenon DEF EndStep
<1>15. QED
  BY <1>14

\* A command that runs has a number.
Counted == stack # <<>> => cmds > 0

\* The structure, when a command ends: all nodes are settled.
LEMMA EndStruct ==
  ASSUME Struct, Counted, NEW f, NEW m, NEW w, EndStep(f, m, w)
  PROVE  Struct' /\ NumNodes' = NumNodes /\ Base' = NumNodes /\ Cur' = 0 /\ StackNodes' = {}
<1>1. /\ GraphType(graph', NumNodes) /\ graph'.nodes = graph.nodes /\ graph'.unopened \subseteq graph.unopened \cup {cmds}
      /\ stack # <<>> /\ pendingNodes' = <<>> /\ stack' = <<>> /\ stage' = "idle"
      /\ UNCHANGED <<config, cmds, events, records>>
  BY DEF EndStep, GraphDone
<1>2. NumNodes \in Nat /\ cmds \in Nat /\ cmds > 0
  BY <1>1, Numbers DEF Counted
<1>3. NumNodes' = NumNodes
  BY <1>1 DEF NumNodes
<1>4. Base' = NumNodes
  BY <1>1, <1>2, <1>3 DEF Base
<1>5. StageOK'
  <2>1. graph'.unopened \subseteq 1 .. cmds'
    <3>1. cmds \in 1 .. cmds /\ cmds' = cmds
      BY <1>1, <1>2
    <3>2. graph.unopened \subseteq 1 .. cmds
      BY DEF Struct, StageOK
    <3>3. QED
      BY <1>1, <3>1, <3>2
  <2>2. QED
    BY <1>1, <1>3, <2>1 DEF Struct, StageOK
<1>6. StackOK'
  BY <1>1 DEF StackOK
<1>7. PendingOK'
  BY <1>1, <1>2, <1>3 DEF PendingOK
<1>8. Cur' = 0 /\ StackNodes' = {}
  BY <1>1 DEF Cur, StackNodes
<1>9. QED
  BY <1>3, <1>4, <1>5, <1>6, <1>7, <1>8 DEF Struct

\* The invariant of memory, when a command ends.
LEMMA EndMem ==
  ASSUME Struct, MemInv, Counted, NEW f, NEW m, NEW w, EndStep(f, m, w)
  PROVE  MemInv'
<1>1. Struct' /\ NumNodes' = NumNodes /\ Base' = NumNodes
  BY EndStruct
<1>2. /\ GraphDone(graph', f, m) /\ m = FlushMem(mem, Ctx.node) /\ mem' = [m EXCEPT !.acc = NoAccesses]
      /\ stack # <<>> /\ stack' = <<>> /\ stage' = "idle" /\ wrote' = wrote /\ need' = need
  BY DEF EndStep
<1>3. /\ graph'.nodes = graph.nodes /\ \A n \in 1 .. Base : graph.deps[n] \subseteq graph'.deps[n]
      /\ \A n \in Base + 1 .. NumNodes : OwnDeps(pendingNodes[n - Base], f, m) \subseteq graph'.deps[n]
  BY <1>2 DEF GraphDone
<1>4. ASSUME NEW n \in Base + 1 .. NumNodes PROVE DepsOf(m.acc, n) \subseteq graph'.deps[n]
  <2>1. PICK p : p = pendingNodes[n - Base]
    OBVIOUS
  <2>2. p.node = n
    BY <2>1, PendingAt
  <2>3. DepsOf(m.acc, n) \subseteq OwnDeps(p, f, m)
    BY <2>2, Zenon DEF OwnDeps
  <2>4. QED
    BY <1>3, <2>1, <2>3
<1>5. QED
  BY <1>1, <1>2, <1>3, <1>4, EndCmdMem

\* The invariant of forward dependencies, when a command ends.
LEMMA EndFwd ==
  ASSUME Struct, FwdInv, Counted, NEW f, NEW m, NEW w, EndStep(f, m, w)
  PROVE  FwdInv'
<1>1. Struct' /\ NumNodes' = NumNodes /\ Base' = NumNodes /\ Cur' = 0 /\ StackNodes' = {}
  BY EndStruct
<1>2. NumNodes \in Nat
  BY Numbers
<1>3. /\ GraphDone(graph', f, m) /\ FlushedAll(f, m, w) /\ stack' = <<>> /\ need' = need /\ dce' = dce
      /\ forward' = [w EXCEPT !.node = <<>>, !.unopened = FALSE]
  BY DEF EndStep
<1>4. ForwardType(w, NumNodes) /\ w.acc = <<>> /\ w.pairs = forward.pairs
  BY <1>3 DEF FlushedAll, PutAway
<1>5. ForwardType(forward', NumNodes) /\ forward'.pairs = forward.pairs /\ forward'.acc = <<>> /\ forward'.node = <<>>
  BY <1>2, <1>3, <1>4, FwdReset
<1>6. ForwardOK'
  BY <1>1, <1>3, <1>5 DEF ForwardOK
<1>7. OpensIn(forward'.pairs, NumNodes)
  BY <1>2, <1>5, OpensAre
<1>8. AccessesOK'
  <2>1. PICK v : v = forward'
    OBVIOUS
  <2>2. AccessesHold(v, 0, NumNodes, NumNodes)
    BY <1>2, <1>7, <2>1, AccessesNone
  <2>3. QED
    BY <1>1, <2>1, <2>2 DEF AccessesOK
<1>9. EndedOK'
  <2>1. PICK own, pairs : own = Own' /\ pairs = forward'.pairs
    OBVIOUS
  <2>2. EndedHold(own, {}, 0, pairs, NumNodes, NumNodes)
    BY <1>2, <1>7, <2>1, EndedNone
  <2>3. QED
    BY <1>1, <2>1, <2>2 DEF EndedOK
<1>10. RoomHold(graph', forward'.pairs, NumNodes)
  BY <1>3, <1>5, Zenon DEF GraphDone
<1>11. \A x \in need' : x[1] = "forward" => Paired(forward'.pairs, x[2], x[3])
  BY <1>3, <1>5, Zenon DEF FwdInv, RoomOK
<1>12. RoomOK'
  BY <1>1, <1>10, <1>11 DEF RoomOK
<1>13. DepsOK'
  BY <1>1, <1>2, <1>3 DEF GraphDone, DepsOK, FwdInv
<1>14. QED
  BY <1>6, <1>8, <1>9, <1>12, <1>13 DEF FwdInv

\* The fragment watcher, when a command ends.
LEMMA EndFrag ==
  ASSUME Struct, FragOK, Counted, NEW f, NEW m, NEW w, EndStep(f, m, w)
  PROVE  FragOK'
<1>1. NumNodes' = NumNodes /\ NumNodes \in Nat
  BY EndStruct, Numbers
<1>2. FlushedAll(f, m, w) /\ frag' = [f EXCEPT !.access = <<>>, !.acc = NoAccesses]
  BY DEF EndStep
<1>3. FragType(f, NumNodes) /\ f.pending = <<>>
  BY <1>2 DEF FlushedAll, FragFlushed
<1>4. FragType(frag', NumNodes) /\ frag'.access = <<>> /\ frag'.pending = <<>>
  BY <1>1, <1>2, <1>3, FragReset
<1>5. QED
  BY <1>1, <1>4 DEF FragOK

-----------------------------------------------------------------------------
(***************************************************************************)
(* Dead code elimination.                                                  *)
(***************************************************************************)
\* A turn of the marking of live nodes.
MarkTurn(deps, live, i) == live \cup UNION {deps[n] : n \in live}

\* The loop of the marking.
MarkFold == INSTANCE FoldLaws WITH Step <- MarkTurn

\* r has the states of that loop after each turn.
MarkRuns(q, base, xs, m, r) ==
  /\ r[0] = base /\ \A j \in 1 .. m : r[j] = MarkTurn(q, r[j - 1], xs[j])
  /\ MarkFold!Fold(q, base, xs) = r[m]

\* They exist.
LEMMA MarkSteps ==
  ASSUME NEW q, NEW base, NEW S, NEW xs \in Seq(S), NEW m \in Nat, m = Len(xs)
  PROVE  \E r : MarkRuns(q, base, xs, m, r)
  BY MarkFold!FoldSteps DEF MarkRuns

\* The marking is a fold.
LEMMA MarkIsFold ==
  ASSUME NEW nodes
  PROVE  MarkDependencies(nodes) = MarkFold!Fold(graph.deps, nodes, [i \in 1 .. NumNodes |-> i])
  BY DEF MarkDependencies, FoldLeft, MapThenFoldSet, Max, MarkFold!Fold, MarkFold!MapThenFoldSet, MarkFold!Greatest, MarkTurn

\* It marks nodes.
LEMMA Marked ==
  ASSUME NEW N \in Nat, NEW deps, \A n \in 1 .. N : deps[n] \subseteq 1 .. N, NEW nodes, nodes \subseteq 1 .. N
  PROVE  MarkFold!Fold(deps, nodes, [i \in 1 .. N |-> i]) \subseteq 1 .. N
<1>1. PICK xs : xs = [i \in 1 .. N |-> i]
  OBVIOUS
<1>2. xs \in Seq(Nat) /\ Len(xs) = N
  BY <1>1
<1>3. PICK r : MarkRuns(deps, nodes, xs, N, r)
  BY <1>2, MarkSteps
<1>4. /\ r[0] = nodes /\ \A j \in 1 .. N : r[j] = MarkTurn(deps, r[j - 1], xs[j])
      /\ MarkFold!Fold(deps, nodes, xs) = r[N]
  BY <1>3 DEF MarkRuns
<1> DEFINE Good == {j \in Nat : j <= N => r[j] \subseteq 1 .. N}
<1>5. 0 \in Good
  BY <1>4
<1>6. ASSUME NEW j \in Nat, j \in Good PROVE j + 1 \in Good
  <2>1. SUFFICES ASSUME j + 1 <= N PROVE r[j + 1] \subseteq 1 .. N
    OBVIOUS
  <2>2. r[j] \subseteq 1 .. N
    BY <1>6, <2>1
  <2>3. j + 1 \in 1 .. N /\ (j + 1) - 1 = j
    BY <2>1
  <2>4. r[j + 1] = MarkTurn(deps, r[j], xs[j + 1])
    BY <1>4, <2>3
  <2>5. MarkTurn(deps, r[j], xs[j + 1]) \subseteq 1 .. N
    BY <2>2 DEF MarkTurn
  <2>6. QED
    BY <2>4, <2>5
<1> HIDE DEF Good
<1>7. \A j \in Nat : j \in Good
  BY <1>5, <1>6, MarkFold!NatSetInduction
<1>8. r[N] \subseteq 1 .. N
  BY <1>7 DEF Good
<1>9. QED
  BY <1>1, <1>4, <1>8

\* Live are nodes.
LEMMA DCELive ==
  ASSUME Struct, FwdInv, NEW s \in Requests, DCECapture(s)
  PROVE  dce'.live \subseteq 1 .. NumNodes
<1>1. NumNodes \in Nat /\ Base \in Nat
  BY Numbers
<1>2. stage = "idle"
  BY DEF DCECapture
<1>3. Base = NumNodes
  <2>1. pendingNodes = <<>>
    BY <1>2 DEF Struct, StageOK
  <2>2. QED
    BY <1>1, <2>1 DEF Base
<1>4. PICK deps, nodes : deps = graph.deps /\ nodes = s \cup {CmdNode(c) : c \in graph.unopened}
  OBVIOUS
<1>5. \A n \in 1 .. NumNodes : deps[n] \subseteq 1 .. NumNodes
  BY <1>3, <1>4 DEF FwdInv, DepsOK
<1>6. \A c \in graph.unopened : CmdNode(c) \in 1 .. NumNodes
  BY DEF Struct, StageOK, CmdNode
<1>7. s \subseteq 1 .. NumNodes
  BY DEF Requests
<1>8. nodes \subseteq 1 .. NumNodes
  BY <1>4, <1>6, <1>7
<1>9. MarkFold!Fold(deps, nodes, [i \in 1 .. NumNodes |-> i]) \subseteq 1 .. NumNodes
  BY <1>1, <1>5, <1>8, Marked
<1>10. dce'.live = MarkDependencies(s \cup {CmdNode(c) : c \in graph.unopened})
  BY DEF DCECapture
<1>11. dce'.live = MarkFold!Fold(deps, nodes, [i \in 1 .. NumNodes |-> i])
  BY <1>4, <1>10, MarkIsFold
<1>12. QED
  BY <1>9, <1>11, Zenon

\* Dead code elimination changes the graph no more.
LEMMA DCEKeeps ==
  ASSUME Struct, NEW s, DCECapture(s)
  PROVE  /\ Struct' /\ NumNodes' = NumNodes /\ Base' = Base /\ Cur' = Cur /\ StackNodes' = StackNodes /\ stack = <<>>
         /\ UNCHANGED <<config, cmds, events, stack, mem, frag, forward, records, graph, pendingNodes, wrote, need>>
<1>1. /\ UNCHANGED <<config, cmds, events, stack, mem, frag, forward, records, graph, pendingNodes, wrote, need>>
      /\ stage = "idle" /\ stage' = "built"
  BY DEF DCECapture, ghosts
<1>2. NumNodes' = NumNodes /\ Base' = Base /\ Cur' = Cur /\ StackNodes' = StackNodes
  BY <1>1 DEF NumNodes, Base, Cur, Ctx, StackNodes
<1>3. StageOK'
  BY <1>1, <1>2 DEF Struct, StageOK
<1>4. StackOK'
  BY <1>1, <1>2 DEF Struct, StackOK, IsObs
<1>5. PendingOK'
  BY <1>1, <1>2 DEF Struct, PendingOK
<1>6. stack = <<>>
  BY <1>1 DEF Struct, StageOK
<1>7. QED
  BY <1>1, <1>2, <1>3, <1>4, <1>5, <1>6 DEF Struct

\* The invariants of forward dependencies and of fields, when dead code is
\* eliminated.
LEMMA DCEFwd ==
  ASSUME Struct, FwdInv, FragOK, NEW s \in Requests, DCECapture(s)
  PROVE  FwdInv' /\ FragOK'
<1>1. /\ NumNodes' = NumNodes /\ Base' = Base /\ Cur' = Cur /\ StackNodes' = StackNodes /\ stack = <<>>
      /\ UNCHANGED <<stack, mem, frag, forward, graph, pendingNodes, need>>
  BY DCEKeeps
<1>2. ForwardOK' /\ FragOK'
  BY <1>1 DEF FwdInv, ForwardOK, FragOK
<1>3. AccessesOK'
  BY <1>1 DEF FwdInv, AccessesOK
<1>4. Own' = Own
  BY <1>1 DEF Own, OwnOf
<1>5. EndedOK'
  BY <1>1, <1>4 DEF FwdInv, EndedOK
<1>6. RoomOK'
  BY <1>1 DEF FwdInv, RoomOK
<1>7. DepsOK'
  BY <1>1, DCELive DEF FwdInv, DepsOK
<1>8. QED
  BY <1>2, <1>3, <1>5, <1>6, <1>7 DEF FwdInv

-----------------------------------------------------------------------------
(***************************************************************************)
(* The invariant through every action.                                     *)
(***************************************************************************)
\* The inductive invariant.
Inv == Struct /\ MemInv /\ FwdInv /\ FragOK /\ Counted

\* Its parts.
LEMMA InvTyped ==
  ASSUME Inv
  PROVE  Struct /\ MemInv /\ MemOK /\ FwdInv /\ ForwardOK /\ FragOK /\ Counted /\ Typed
  BY DEF Inv, MemInv, MemOK, FwdInv, FragOK, Typed

\* A step in a command keeps the structure and the fragment watcher.
LEMMA InCommandOK ==
  ASSUME Inv, InCommand, FragType(frag', NumNodes)
  PROVE  Struct' /\ FragOK' /\ Counted'
<1>1. Struct /\ Counted
  BY DEF Inv
<1>2. Struct' /\ NumNodes' = NumNodes
  BY <1>1, StructInCommand
<1>3. stack # <<>> /\ stack' = stack /\ cmds' = cmds
  BY DEF InCommand
<1>4. FragType(frag', NumNodes')
  BY <1>2
<1>5. FragOK'
  BY <1>3, <1>4 DEF FragOK
<1>6. Counted'
  BY <1>1, <1>3 DEF Counted
<1>7. QED
  BY <1>2, <1>5, <1>6

\* The fragment watcher stays as it was.
LEMMA SameFrag ==
  ASSUME Inv, frag' = frag
  PROVE  FragType(frag', NumNodes)
<1>1. FragType(frag, NumNodes)
  BY DEF Inv, FragOK
<1>2. QED
  BY <1>1, Zenon

\* A step in a command without an access to memory keeps the invariant of
\* memory.
LEMMA MemSame ==
  ASSUME Inv, InCommand, mem' = mem, wrote' = wrote, \A x \in need' : x[1] = "memory" => x \in need
  PROVE  MemInv'
<1>1. Struct /\ MemInv
  BY DEF Inv
<1>2. wrote = [memory |-> wrote.memory, field |-> wrote.field]
  BY <1>1 DEF MemInv, MemOK
<1>3. wrote' = [memory |-> wrote'.memory, field |-> wrote'.field]
  BY <1>2
<1>4. wrote'.memory = wrote.memory
  OBVIOUS
<1>5. QED
  BY <1>1, <1>3, <1>4, MemFrame

\* A read of memory keeps the invariant.
LEMMA ReadSliceInv ==
  ASSUME Inv, NEW p \in Pools, NEW x \in Spans, OnReadSlice(p, x)
  PROVE  Inv'
<1>1. Struct /\ MemInv /\ FwdInv /\ Typed
  BY InvTyped
<1>2. InCommand /\ MemInv' /\ FwdInv'
  BY <1>1, ReadSliceIn, ReadSliceMem, ReadSliceFwd
<1>3. FragType(frag', NumNodes)
  BY SameFrag DEF OnReadSlice
<1>4. QED
  BY <1>2, <1>3, InCommandOK DEF Inv

\* A write of memory keeps it.
LEMMA WriteSliceInv ==
  ASSUME Inv, NEW p \in Pools, NEW x \in Spans, OnWriteSlice(p, x)
  PROVE  Inv'
<1>1. Struct /\ MemInv /\ FwdInv /\ Typed
  BY InvTyped
<1>2. InCommand /\ MemInv' /\ FwdInv'
  BY <1>1, WriteSliceIn, WriteSliceMem, WriteSliceFwd
<1>3. FragType(frag', NumNodes)
  BY SameFrag DEF OnWriteSlice
<1>4. QED
  BY <1>2, <1>3, InCommandOK DEF Inv

\* Needs of another kind.
LEMMA NeedsMemory ==
  ASSUME NEW kind, kind # "memory", NEW from, need' = need \cup Needs(kind, from)
  PROVE  \A x \in need' : x[1] = "memory" => x \in need
<1>1. \A x \in Needs(kind, from) : x[1] = kind
  BY DEF Needs
<1>2. QED
  BY <1>1

\* A read of a field keeps it.
LEMMA ReadFragInv ==
  ASSUME Inv, NEW f \in FragSet, ReadFrag(f)
  PROVE  Inv'
<1>1. Struct /\ FwdInv /\ Typed
  BY InvTyped
<1>2. InCommand /\ FwdInv'
  BY <1>1, ReadFragIn, ReadFragFwd
<1>3. FragType(frag', NumNodes)
  BY <1>1, ReadFragStep DEF Typed
<1>4. \A x \in need' : x[1] = "memory" => x \in need
  <2>1. CASE f = Complete
    <3>1. need' = need \cup Needs("object", {wrote.field[g] : g \in Frags})
      BY <2>1, Zenon DEF ReadFrag
    <3>2. QED
      BY <3>1, NeedsMemory
  <2>2. CASE f # Complete
    <3>1. PICK kind, from : /\ kind = FieldKind(f)
                            /\ from = {m \in {wrote.field[f]} : <<"object", Ctx.node, m>> \notin need}
      OBVIOUS
    <3>2. need' = need \cup Needs(kind, from)
      BY <2>2, <3>1, Zenon DEF ReadFrag
    <3>3. kind # "memory"
      BY <3>1 DEF FieldKind
    <3>4. QED
      BY <3>2, <3>3, NeedsMemory
  <2>3. QED
    BY <2>1, <2>2
<1>5. mem' = mem /\ wrote' = wrote
  BY DEF ReadFrag
<1>6. MemInv'
  BY <1>2, <1>4, <1>5, MemSame
<1>7. QED
  BY <1>2, <1>3, <1>6, InCommandOK DEF Inv

\* A write of a field keeps it.
LEMMA WriteFragInv ==
  ASSUME Inv, NEW f \in FragSet, WriteFrag(f)
  PROVE  Inv'
<1>1. Struct /\ FwdInv /\ Typed /\ MemInv
  BY InvTyped
<1>2. InCommand /\ FwdInv'
  BY <1>1, WriteFragIn, WriteFragFwd
<1>3. FragType(frag', NumNodes)
  BY <1>1, WriteFragStep DEF Typed
<1>4. need' = need /\ mem' = mem
  BY DEF WriteFrag
<1>5. PICK row : row = [g \in Frags |-> IF f \in {g, Complete} THEN Ctx.node ELSE wrote.field[g]]
  OBVIOUS
<1>6. wrote' = [wrote EXCEPT !.field = row]
  BY <1>5 DEF WriteFrag
<1>7. wrote = [memory |-> wrote.memory, field |-> wrote.field]
  BY <1>1 DEF MemInv, MemOK
<1>8. PICK a : a = wrote.memory
  OBVIOUS
<1>9. wrote' = [memory |-> a, field |-> row]
  BY <1>6, <1>7, <1>8
<1>10. wrote'.memory = wrote.memory /\ wrote' = [memory |-> wrote'.memory, field |-> wrote'.field]
  BY <1>8, <1>9
<1>11. \A x \in need' : x[1] = "memory" => x \in need
  BY <1>4
<1>12. MemInv'
  BY <1>1, <1>2, <1>4, <1>10, <1>11, MemFrame
<1>13. QED
  BY <1>2, <1>3, <1>12, InCommandOK DEF Inv

\* The recording of a subcommand keeps it.
LEMMA RecordInv ==
  ASSUME Inv, NEW r \in Records, OnRecordSubCmd(r)
  PROVE  Inv'
<1>1. Struct /\ FwdInv
  BY InvTyped
<1>2. InCommand /\ FwdInv'
  BY <1>1, RecordIn, RecordFwd
<1>3. frag' = frag /\ mem' = mem /\ wrote' = wrote /\ need' = need
  BY DEF OnRecordSubCmd, ghosts
<1>4. MemInv'
  BY <1>2, <1>3, MemSame
<1>5. FragType(frag', NumNodes)
  BY <1>3, SameFrag
<1>6. QED
  BY <1>2, <1>4, <1>5, InCommandOK DEF Inv

\* A merged subcommand keeps it.
LEMMA MergedInv ==
  ASSUME Inv, NEW r \in Records, OnBeginMergedSubCmd(r)
  PROVE  Inv'
<1>1. Struct /\ FwdInv
  BY InvTyped
<1>2. InCommand /\ FwdInv'
  BY <1>1, MergedIn, MergedFwd
<1>3. frag' = frag /\ mem' = mem /\ wrote' = wrote /\ need' = need \cup RecordNeeds(Ctx.node, r)
  BY DEF OnBeginMergedSubCmd
<1>4. \A x \in RecordNeeds(Ctx.node, r) : x[1] = "record"
  BY DEF RecordNeeds
<1>5. \A x \in need' : x[1] = "memory" => x \in need
  BY <1>3, <1>4
<1>6. MemInv'
  BY <1>2, <1>3, <1>5, MemSame
<1>7. FragType(frag', NumNodes)
  BY <1>3, SameFrag
<1>8. QED
  BY <1>2, <1>6, <1>7, InCommandOK DEF Inv

\* The opening of a forward dependency keeps it.
LEMMA OpenInv ==
  ASSUME Inv, NEW d, OpenForwardDependency(d)
  PROVE  Inv'
<1>1. Struct /\ FwdInv
  BY InvTyped
<1>2. InCommand /\ FwdInv'
  BY <1>1, OpenIn, OpenFwd
<1>3. frag' = frag /\ mem' = mem /\ wrote' = wrote /\ need' = need
  BY DEF OpenForwardDependency, ghosts
<1>4. MemInv'
  BY <1>2, <1>3, MemSame
<1>5. FragType(frag', NumNodes)
  BY <1>3, SameFrag
<1>6. QED
  BY <1>2, <1>4, <1>5, InCommandOK DEF Inv

\* The closing of a forward dependency keeps it.
LEMMA CloseInv ==
  ASSUME Inv, NEW d, CloseForwardDependency(d)
  PROVE  Inv'
<1>1. Struct /\ FwdInv
  BY InvTyped
<1>2. InCommand /\ FwdInv'
  BY <1>1, CloseIn, CloseFwd
<1>3. /\ frag' = frag /\ mem' = mem /\ wrote' = wrote
      /\ need' = need \/ \E y, z : need' = need \cup {<<"forward", y, z>>}
  BY DEF CloseForwardDependency
<1>4. \A x \in need' : x[1] = "memory" => x \in need
  BY <1>3
<1>5. MemInv'
  BY <1>2, <1>3, <1>4, MemSame
<1>6. FragType(frag', NumNodes)
  BY <1>3, SameFrag
<1>7. QED
  BY <1>2, <1>5, <1>6, InCommandOK DEF Inv

\* The dropping of a forward dependency keeps it.
LEMMA DropInv ==
  ASSUME Inv, NEW d, DropForwardDependency(d)
  PROVE  Inv'
<1>1. Struct /\ FwdInv
  BY InvTyped
<1>2. InCommand /\ FwdInv'
  BY <1>1, DropIn, DropFwd
<1>3. frag' = frag /\ mem' = mem /\ wrote' = wrote /\ need' = need
  BY DEF DropForwardDependency, ghosts
<1>4. MemInv'
  BY <1>2, <1>3, MemSame
<1>5. FragType(frag', NumNodes)
  BY <1>3, SameFrag
<1>6. QED
  BY <1>2, <1>4, <1>5, InCommandOK DEF Inv

\* The begin of a command keeps it.
LEMMA BeginInv ==
  ASSUME Inv, OnBeginCmd
  PROVE  Inv'
<1>1. Struct /\ MemInv /\ FwdInv /\ FragOK
  BY InvTyped
<1>2. Struct' /\ Grown(1, "cmd", 0, {}) /\ MemInv' /\ FwdInv' /\ stack = <<>>
  BY <1>1, BeginCmdStruct, BeginMem, BeginFwd
<1>3. NumNodes' = NumNodes + 1 /\ NumNodes \in Nat
  BY <1>1, <1>2, GrownIs, Numbers
<1>4. FragType(frag, NumNodes + 1) /\ frag' = frag /\ stack' # <<>> /\ cmds' > 0
  <2>1. FragType(frag, NumNodes)
    BY <1>1 DEF FragOK
  <2>2. FragType(frag, NumNodes + 1)
    BY <2>1, <1>3, FragGrow
  <2>3. cmds \in Nat
    BY <1>1, Numbers
  <2>4. QED
    BY <2>2, <2>3 DEF OnBeginCmd
<1>5. FragType(frag', NumNodes')
  BY <1>3, <1>4, Zenon
<1>6. FragOK' /\ Counted'
  BY <1>4, <1>5 DEF FragOK, Counted
<1>7. QED
  BY <1>2, <1>6 DEF Inv

\* Observations keep it.
LEMMA ObsInv ==
  ASSUME Inv, NEW obs \in ObsLists, OnReadObs(obs) \/ OnWriteObs(obs)
  PROVE  Inv'
<1>1. Struct /\ MemInv /\ MemOK /\ FwdInv /\ FragOK /\ Counted
  BY InvTyped
<1>2. Struct' /\ Grown(Len(obs), "obs", 0, {}) /\ Len(obs) \in Nat /\ stack # <<>>
  BY <1>1, ObsStruct
<1>3. MemInv' /\ FwdInv'
  BY <1>1, ObsMem, ObsFwd
<1>4. NumNodes' = NumNodes + Len(obs) /\ NumNodes \in Nat
  BY <1>1, <1>2, GrownIs, Numbers
<1>5. frag' = frag /\ stack' = stack /\ cmds' = cmds
  BY DEF OnReadObs, OnWriteObs
<1>6. FragType(frag, NumNodes + Len(obs))
  <2>1. FragType(frag, NumNodes)
    BY <1>1 DEF FragOK
  <2>2. NumNodes + Len(obs) \in Nat /\ NumNodes <= NumNodes + Len(obs)
    BY <1>2, <1>4
  <2>3. QED
    BY <2>1, <2>2, <1>4, FragGrow
<1>7. FragType(frag', NumNodes')
  BY <1>4, <1>5, <1>6, Zenon
<1>8. FragOK' /\ Counted'
  BY <1>1, <1>2, <1>5, <1>7 DEF FragOK, Counted
<1>9. QED
  BY <1>2, <1>3, <1>8 DEF Inv

\* The begin of a subcommand keeps it.
LEMMA BeginSubInv ==
  ASSUME Inv, NEW r \in Records, OnBeginSubCmd(r)
  PROVE  Inv'
<1>1. Struct /\ MemInv /\ FwdInv /\ ForwardOK /\ FragOK /\ Counted /\ Typed
  BY InvTyped
<1>2. /\ Struct' /\ Grown(1, "sub", Ctx.node, RecordNode(r)) /\ stack # <<>>
      /\ Len(stack') = Len(stack) + 1
  BY <1>1, BeginSubStruct
<1>3. MemInv' /\ FwdInv'
  BY <1>1, BeginSubMem, BeginSubFwd
<1>4. NumNodes' = NumNodes + 1 /\ NumNodes \in Nat
  BY <1>1, <1>2, GrownIs, Numbers
<1>5. FlushAll(Ctx.node) /\ cmds' = cmds
  BY DEF OnBeginSubCmd
<1>6. FragType(frag', NumNodes)
  BY <1>1, <1>2, <1>5, FlushAllIs
<1>7. FragType(frag', NumNodes + 1)
  <2>1. NumNodes + 1 \in Nat /\ NumNodes <= NumNodes + 1
    BY <1>4
  <2>2. PICK v : v = frag'
    OBVIOUS
  <2>3. FragType(v, NumNodes)
    BY <1>6, <2>2
  <2>4. FragType(v, NumNodes + 1)
    BY <1>4, <2>1, <2>3, FragGrow
  <2>5. QED
    BY <2>2, <2>4
<1>8. FragType(frag', NumNodes')
  BY <1>4, <1>7, Zenon
<1>9. stack' # <<>>
  <2>1. Len(stack) \in Nat
    BY <1>1, Numbers
  <2>2. Len(stack') # 0
    BY <1>2, <2>1
  <2>3. QED
    BY <2>2
<1>10. FragOK' /\ Counted'
  BY <1>1, <1>2, <1>5, <1>8, <1>9 DEF FragOK, Counted
<1>11. QED
  BY <1>2, <1>3, <1>10 DEF Inv

\* The end of a subcommand keeps it.
LEMMA EndSubInv ==
  ASSUME Inv, OnEndSubCmd
  PROVE  Inv'
<1>1. Struct /\ MemInv /\ FwdInv /\ ForwardOK /\ FragOK /\ Counted /\ Typed
  BY InvTyped
<1>2. Struct' /\ NumNodes' = NumNodes /\ stack # <<>> /\ stack' # <<>>
  BY <1>1, EndSubStruct
<1>3. MemInv' /\ FwdInv'
  BY <1>1, EndSubMem, EndSubFwd
<1>4. FlushAll(Ctx.node) /\ cmds' = cmds
  BY DEF OnEndSubCmd
<1>5. FragType(frag', NumNodes)
  BY <1>1, <1>2, <1>4, FlushAllIs
<1>6. FragType(frag', NumNodes')
  BY <1>2, <1>5, Zenon
<1>7. FragOK' /\ Counted'
  BY <1>1, <1>2, <1>4, <1>6 DEF FragOK, Counted
<1>8. QED
  BY <1>2, <1>3, <1>7 DEF Inv

\* The end of a command keeps it.
LEMMA EndInv ==
  ASSUME Inv, OnEndCmd
  PROVE  Inv'
<1>1. Struct /\ MemInv /\ FwdInv /\ FragOK /\ Counted /\ Typed
  BY InvTyped
<1>2. PICK f, m, w : EndStep(f, m, w)
  BY <1>1, EndIs
<1>3. Struct'
  BY <1>1, <1>2, EndStruct
<1>4. MemInv' /\ FwdInv' /\ FragOK'
  BY <1>1, <1>2, EndMem, EndFwd, EndFrag
<1>5. Counted'
  BY <1>2 DEF EndStep, Counted
<1>6. QED
  BY <1>3, <1>4, <1>5 DEF Inv

\* Dead code elimination keeps it.
LEMMA DCEInv ==
  ASSUME Inv, NEW s \in Requests, DCECapture(s)
  PROVE  Inv'
<1>1. Struct /\ MemInv /\ FwdInv /\ FragOK /\ Counted
  BY InvTyped
<1>2. Struct' /\ UNCHANGED <<stack, cmds>>
  BY <1>1, DCEKeeps
<1>3. MemInv' /\ FwdInv' /\ FragOK'
  BY <1>1, DCEMem, DCEFwd
<1>4. Counted'
  BY <1>1, <1>2 DEF Counted
<1>5. QED
  BY <1>2, <1>3, <1>4 DEF Inv

\* The structure of the first state.
LEMMA InitStruct ==
  ASSUME Init
  PROVE  Struct /\ NumNodes = 0 /\ Base = 0 /\ stack = <<>> /\ Cur = 0 /\ pendingNodes = <<>> /\ StackNodes = {}
<1>1. /\ config \in Configs /\ stage = "idle" /\ cmds = 0 /\ events = 0 /\ stack = <<>>
      /\ pendingNodes = <<>> /\ records = [r \in Records |-> 0]
  BY DEF Init
<1>2. graph = [nodes |-> <<>>, deps |-> <<>>, room |-> <<>>, unopened |-> {}, panicked |-> FALSE]
  BY DEF Init
<1>3. /\ graph.nodes = <<>> /\ graph.deps = <<>> /\ graph.room = <<>> /\ graph.unopened = {}
      /\ graph.panicked = FALSE
  BY <1>2
<1>4. graph = [nodes |-> graph.nodes, deps |-> graph.deps, room |-> graph.room, unopened |-> graph.unopened,
               panicked |-> graph.panicked]
  BY <1>2, <1>3
<1>5. NumNodes = 0 /\ Base = 0 /\ Cur = 0 /\ StackNodes = {}
  <2>1. NumNodes = 0
    BY <1>3 DEF NumNodes
  <2>2. Base = 0
    <3>1. Len(pendingNodes) = 0
      BY <1>1
    <3>2. QED
      BY <2>1, <3>1 DEF Base
  <2>3. QED
    BY <1>1, <2>1, <2>2 DEF Cur, StackNodes
<1>6. GraphType(graph, 0)
  <2>1. <<>> \in Seq(NodeType) /\ <<>> \in Seq(SUBSET Nat) /\ <<>> \in Seq(Nat) /\ Len(<<>>) = 0
    OBVIOUS
  <2>2. QED
    BY <2>1, <1>3, <1>4 DEF GraphType
<1>7. StageOK
  <2>1. MaxCmds \in Nat /\ MaxEvents \in Nat /\ MaxNodes \in Nat
    BY GraphAssumption
  <2>2. records \in [Records -> 0 .. 0]
    BY <1>1
  <2>3. QED
    BY <1>1, <1>3, <1>5, <1>6, <2>1, <2>2 DEF StageOK
<1>8. StackOK
  BY <1>1 DEF StackOK
<1>9. PendingOK
  BY <1>1, <1>5 DEF PendingOK
<1>10. QED
  BY <1>1, <1>5, <1>7, <1>8, <1>9 DEF Struct

\* The invariant of memory holds at first.
LEMMA InitMem ==
  ASSUME Init
  PROVE  MemInv
<1>1. NumNodes = 0 /\ stack = <<>> /\ Cur = 0
  BY InitStruct
<1>2. mem = [pending |-> [p \in Pools |-> <<>>], writes |-> [p \in Pools |-> <<>>], fenced |-> FALSE, acc |-> <<>>]
  BY DEF Init, NewMemWatcher, NoAccesses
<1>3. /\ mem.pending = [p \in Pools |-> <<>>] /\ mem.writes = [p \in Pools |-> <<>>] /\ mem.fenced = FALSE
      /\ mem.acc = <<>>
      /\ mem = [pending |-> mem.pending, writes |-> mem.writes, fenced |-> mem.fenced, acc |-> mem.acc]
  BY <1>2
<1>4. wrote = [memory |-> [p \in Pools |-> [b \in Bytes |-> 0]], field |-> [f \in Frags |-> 0]] /\ need = {}
  BY DEF Init
<1>5. /\ wrote.memory = [p \in Pools |-> [b \in Bytes |-> 0]]
      /\ wrote = [memory |-> wrote.memory, field |-> wrote.field]
  BY <1>4
<1>6. \A p \in Pools : mem.pending[p] = <<>> /\ mem.writes[p] = <<>>
  BY <1>3
<1>7. MemType(mem, 0)
  <2>1. \A T : <<>> \in Seq(T)
    OBVIOUS
  <2>2. Sorted(<<>>)
    BY DEF Sorted
  <2>3. PendingList(<<>>) /\ WriteList(<<>>, 0)
    BY <2>1, <2>2 DEF PendingList, WriteList
  <2>4. AccType(<<>>, 0)
    BY DEF AccType
  <2>5. QED
    BY <1>3, <1>6, <2>3, <2>4 DEF MemType
<1>8. MemOK
  <2>1. wrote.memory \in [Pools -> [Bytes -> 0 .. 0]]
    BY <1>5
  <2>2. QED
    BY <1>1, <1>3, <1>5, <1>7, <2>1 DEF MemOK, NoPending
<1>9. MemLists
  <2>1. SUFFICES ASSUME NEW p \in Pools, NEW b \in Bytes
                 PROVE  ListAt(mem, wrote.memory[p][b], 0, graph.nodes[wrote.memory[p][b]].kind = "obs", p, b)
    BY <1>1 DEF MemLists, ListsHold
  <2>2. wrote.memory[p][b] = 0
    BY <1>5
  <2>3. ValuesAt(<<>>, b) = {}
    BY DEF ValuesAt
  <2>4. ValuesAt(mem.pending[p], b) = {} /\ ValuesAt(mem.writes[p], b) = {}
    BY <1>6, <2>3
  <2>5. QED
    BY <2>2, <2>4 DEF ListAt
<1>10. MemNeeds
  BY <1>4 DEF MemNeeds
<1>11. QED
  BY <1>8, <1>9, <1>10 DEF MemInv

\* The invariant of forward dependencies holds at first.
LEMMA InitFwd ==
  ASSUME Init
  PROVE  FwdInv
<1>1. NumNodes = 0 /\ Base = 0 /\ stack = <<>> /\ Cur = 0 /\ StackNodes = {}
  BY InitStruct
<1>2. forward = [open |-> <<>>, pairs |-> <<>>, acc |-> <<>>, node |-> <<>>, unopened |-> FALSE]
  BY DEF Init, NewForward
<1>3. FwdRec(forward, <<>>, <<>>, <<>>, <<>>, FALSE)
  BY <1>2, FwdFields
<1>4. /\ forward.open = <<>> /\ forward.pairs = <<>> /\ forward.acc = <<>> /\ forward.node = <<>>
      /\ forward = [open |-> forward.open, pairs |-> forward.pairs, acc |-> forward.acc, node |-> forward.node,
                    unopened |-> forward.unopened]
  BY <1>3 DEF FwdRec
<1>5. DOMAIN <<>> = {} /\ Len(<<>>) = 0 /\ \A T : <<>> \in Seq(T)
  OBVIOUS
<1>6. ForwardType(forward, 0)
  BY <1>4, <1>5 DEF ForwardType
<1>7. ForwardOK
  BY <1>1, <1>4, <1>6 DEF ForwardOK
<1>8. AccessesOK
  BY <1>1, <1>4, <1>5 DEF AccessesOK, AccessesHold
<1>9. EndedOK
  BY <1>1, <1>4, <1>5 DEF EndedOK, EndedHold
<1>10. RoomOK
  BY <1>1, <1>4, <1>5 DEF RoomOK, RoomHold, Init
<1>11. DepsOK
  <2>1. graph.panicked = FALSE /\ dce.live = {}
    BY DEF Init
  <2>2. QED
    BY <1>1, <2>1 DEF DepsOK
<1>12. QED
  BY <1>7, <1>8, <1>9, <1>10, <1>11 DEF FwdInv

\* The fragment watcher is sound at first.
LEMMA InitFrag ==
  ASSUME Init
  PROVE  FragOK /\ Counted
<1>1. NumNodes = 0 /\ stack = <<>>
  BY InitStruct
<1>2. PICK ws : ws = [frags |-> <<>>, nodeSlice |-> <<>>, nodeSet |-> <<>>]
  OBVIOUS
<1>3. frag = [access |-> <<>>, pending |-> <<>>, acc |-> <<>>, writes |-> ws]
  BY <1>2 DEF Init, NewFragWatcher, NoAccesses
<1>4. FragRec(frag, <<>>, <<>>, <<>>, ws)
  BY <1>3, FragFields
<1>5. DOMAIN <<>> = {} /\ Len(<<>>) = 0 /\ \A T : <<>> \in Seq(T)
  OBVIOUS
<1>6. WritesRec(ws, <<>>, <<>>, <<>>)
  BY <1>2, WritesFields
<1>7. WritesType(ws, 0)
  <2>1. IsFiniteSet({}) /\ Cardinality({}) = 0
    BY FS_EmptySet
  <2>2. /\ ws.frags = <<>> /\ ws.nodeSlice = <<>> /\ ws.nodeSet = <<>>
        /\ ws = [frags |-> ws.frags, nodeSlice |-> ws.nodeSlice, nodeSet |-> ws.nodeSet]
    BY <1>6 DEF WritesRec
  <2>3. WritesBase(ws, 0)
    BY <1>5, <2>1, <2>2 DEF WritesBase
  <2>4. DOMAIN ws.frags = {}
    BY <1>5, <2>2
  <2>5. QED
    BY <2>3, <2>4 DEF WritesType
<1>8. AccessMap(<<>>) /\ PendingFrags(<<>>, <<>>) /\ AccType(<<>>, 0)
  BY <1>5 DEF AccessMap, PendingFrags, AccType
<1>9. FragType(frag, 0)
  BY <1>4, <1>7, <1>8, FragMade
<1>10. frag.access = <<>> /\ frag.pending = <<>>
  BY <1>4 DEF FragRec
<1>11. QED
  BY <1>1, <1>9, <1>10 DEF FragOK, Counted

\* The invariant holds at first.
LEMMA InvInit ==
  ASSUME Init
  PROVE  Inv
  BY InitStruct, InitMem, InitFwd, InitFrag DEF Inv

\* It holds when nothing happens.
LEMMA InvStutters ==
  ASSUME Inv, UNCHANGED vars
  PROVE  Inv'
<1>1. UNCHANGED <<config, stage, cmds, events, stack, mem, frag, forward, records, graph,
                  pendingNodes, dce, wrote, need>>
  BY DEF vars
<1>2. NumNodes' = NumNodes
  BY <1>1 DEF NumNodes
<1>3. Base' = Base
  BY <1>1, <1>2 DEF Base
<1>4. Struct'
  BY <1>1, <1>2, <1>3 DEF Inv, Struct, StageOK, StackOK, PendingOK, IsObs
<1>5. Cur' = Cur /\ StackNodes' = StackNodes
  BY <1>1 DEF Cur, Ctx, StackNodes
<1>6. MemInv'
  BY <1>1, <1>2, <1>3, <1>5 DEF Inv, MemInv, MemOK, MemLists, MemNeeds, NoPending
<1>7. FwdInv'
  <2>1. Own' = Own
    BY <1>1, <1>2, <1>3 DEF Own, OwnOf
  <2>2. ForwardOK' /\ AccessesOK'
    BY <1>1, <1>2, <1>3, <1>5 DEF Inv, FwdInv, ForwardOK, AccessesOK
  <2>3. EndedOK'
    BY <1>1, <1>2, <1>3, <1>5, <2>1 DEF Inv, FwdInv, EndedOK
  <2>4. RoomOK' /\ DepsOK'
    BY <1>1, <1>2, <1>3 DEF Inv, FwdInv, RoomOK, DepsOK
  <2>5. QED
    BY <2>2, <2>3, <2>4 DEF FwdInv
<1>8. FragOK' /\ Counted'
  BY <1>1, <1>2 DEF Inv, FragOK, Counted
<1>9. QED
  BY <1>4, <1>6, <1>7, <1>8 DEF Inv

\* Every step of the builder and of dead code elimination keeps the
\* invariant.
THEOREM InvStep ==
  Inv /\ [Next]_vars => Inv'
<1>1. SUFFICES ASSUME Inv, Next PROVE Inv'
  BY InvStutters
<1>2. CASE OnBeginCmd
  BY <1>1, <1>2, BeginInv
<1>3. CASE OnEndCmd
  BY <1>1, <1>3, EndInv
<1>4. CASE OnEndSubCmd
  BY <1>1, <1>4, EndSubInv
<1>5. CASE \E o \in ObsLists : OnReadObs(o) \/ OnWriteObs(o)
  BY <1>1, <1>5, ObsInv
<1>6. CASE \E p \in Pools, x \in Spans : OnReadSlice(p, x) \/ OnWriteSlice(p, x)
  BY <1>1, <1>6, ReadSliceInv, WriteSliceInv
<1>7. CASE \E f \in Frags \cup {Complete} : ReadFrag(f) \/ WriteFrag(f)
  BY <1>1, <1>7, ReadFragInv, WriteFragInv DEF FragSet
<1>8. CASE \E r \in Records : OnRecordSubCmd(r) \/ OnBeginSubCmd(r) \/ OnBeginMergedSubCmd(r)
  BY <1>1, <1>8, RecordInv, BeginSubInv, MergedInv
<1>9. CASE \E d \in DepIDs : \/ OpenForwardDependency(d) \/ CloseForwardDependency(d)
                             \/ DropForwardDependency(d)
  BY <1>1, <1>9, OpenInv, CloseInv, DropInv
<1>10. CASE \E s \in Requests : DCECapture(s)
  BY <1>1, <1>10, DCEInv
<1>11. QED
  BY <1>1, <1>2, <1>3, <1>4, <1>5, <1>6, <1>7, <1>8, <1>9, <1>10 DEF Next

\* The invariant holds in every state.
THEOREM GraphInv == Spec => []Inv
  BY InvInit, InvStep, PTL DEF Spec

\* The invariant gives the type of the graph.
LEMMA InvType ==
  ASSUME Inv
  PROVE  TypeOK
<1>1. Struct /\ FwdInv
  BY InvTyped
<1>2. /\ NumNodes \in Nat /\ Base \in Nat /\ Base <= NumNodes /\ Len(pendingNodes) \in Nat
      /\ NumNodes = Base + Len(pendingNodes)
      /\ DOMAIN stack = 1 .. Len(stack) /\ DOMAIN pendingNodes = 1 .. Len(pendingNodes)
  BY <1>1, Numbers
<1>3. /\ config \in Configs /\ stage \in {"idle", "begun", "body", "fenced", "built"}
      /\ cmds \in 0 .. MaxCmds /\ events \in 0 .. MaxEvents
      /\ (stage \in {"idle", "built"}) <=> (stack = <<>>)
      /\ NumNodes <= MaxNodes /\ GraphType(graph, NumNodes) /\ graph.unopened \subseteq 1 .. cmds
      /\ stack = <<>> => pendingNodes = <<>>
  BY <1>1, <1>2 DEF Struct, StageOK
<1>4. /\ Len(graph.deps) = NumNodes /\ Len(graph.room) = NumNodes
      /\ \A n \in 1 .. NumNodes : graph.room[n] \in Nat
  BY <1>2, <1>3, GraphParts
<1>5. \A i \in DOMAIN stack : stack[i].depth = i - 1 /\ stack[i].node \in 1 .. NumNodes
  BY <1>1, <1>2 DEF Struct, StackOK
<1>6. \A n \in 1 .. NumNodes : graph.deps[n] \subseteq 1 .. NumNodes
  <2>1. /\ \A n \in 1 .. Base : graph.deps[n] \subseteq 1 .. Base
        /\ \A n \in Base + 1 .. NumNodes : graph.deps[n] = {}
    BY <1>1 DEF FwdInv, DepsOK
  <2>2. QED
    BY <2>1, <1>2
<1>7. ~graph.panicked /\ dce.live \subseteq 1 .. NumNodes
  BY <1>1 DEF FwdInv, DepsOK
<1>8. \A i \in DOMAIN pendingNodes : graph.nodes[pendingNodes[i].node].cmd = cmds /\ stack # <<>>
  <2>1. \A i \in 1 .. Len(pendingNodes) : pendingNodes[i].node = Base + i /\ graph.nodes[Base + i].cmd = cmds
    BY <1>1 DEF Struct, PendingOK
  <2>2. DOMAIN pendingNodes # {} => stack # <<>>
    BY <1>3
  <2>3. QED
    BY <1>2, <2>1, <2>2
<1>9. QED
  BY <1>3, <1>4, <1>5, <1>6, <1>7, <1>8 DEF TypeOK

\* It gives the lists of writers.
LEMMA InvLists ==
  ASSUME Inv
  PROVE  ListsExact
<1>1. Struct /\ MemInv /\ MemOK
  BY InvTyped
<1>2. SUFFICES ASSUME NEW p \in Pools
               PROVE  /\ Sorted(mem.pending[p]) /\ Sorted(mem.writes[p])
                      /\ stage = "idle" => \A b \in Bytes :
                           (p = 0 => wrote.memory[p][b] # 0 /\ IsObs(wrote.memory[p][b]))
                             => ValuesAt(mem.writes[p], b) = {wrote.memory[p][b]} \ {0}
  BY DEF ListsExact
<1>3. Sorted(mem.pending[p]) /\ Sorted(mem.writes[p])
  BY <1>1 DEF MemOK, MemType, PendingList, WriteList
<1>4. SUFFICES ASSUME stage = "idle", NEW b \in Bytes,
                      p = 0 => wrote.memory[p][b] # 0 /\ IsObs(wrote.memory[p][b])
               PROVE  ValuesAt(mem.writes[p], b) = {wrote.memory[p][b]} \ {0}
  BY <1>3
<1>5. stack = <<>> /\ NoPending
  BY <1>1, <1>4 DEF Struct, StageOK, MemOK
<1>6. ValuesAt(mem.pending[p], b) = {}
  <2>1. mem.pending[p] = <<>>
    BY <1>5 DEF NoPending
  <2>2. ValuesAt(<<>>, b) = {}
    BY DEF ValuesAt
  <2>3. QED
    BY <2>1, <2>2
<1>7. PICK n : n = wrote.memory[p][b]
  OBVIOUS
<1>8. ListAt(mem, n, Cur, graph.nodes[n].kind = "obs", p, b)
  BY <1>1, <1>7 DEF MemInv, MemLists, ListsHold
<1>9. CASE p = 0
  BY <1>4, <1>7, <1>8, <1>9 DEF ListAt, IsObs
<1>10. CASE p # 0
  BY <1>6, <1>7, <1>8, <1>10 DEF ListAt
<1>11. QED
  BY <1>9, <1>10

\* A settled node is one of the first Base.
LEMMA SettledIs ==
  ASSUME Struct, NEW n \in 1 .. NumNodes, Settled(n)
  PROVE  n \in 1 .. Base
<1>1. /\ NumNodes \in Nat /\ Base \in Nat /\ Len(pendingNodes) \in Nat /\ NumNodes = Base + Len(pendingNodes)
      /\ DOMAIN pendingNodes = 1 .. Len(pendingNodes)
  BY Numbers
<1>2. \A i \in 1 .. Len(pendingNodes) : pendingNodes[i].node = Base + i
  BY DEF Struct, PendingOK
<1>3. \A i \in 1 .. Len(pendingNodes) : n # Base + i
  BY <1>1, <1>2 DEF Settled
<1>4. CASE n > Base
  <2>1. n - Base \in 1 .. Len(pendingNodes) /\ n = Base + (n - Base)
    BY <1>1, <1>4
  <2>2. QED
    BY <1>3, <2>1
<1>5. QED
  BY <1>1, <1>4

\* It gives the dependencies of memory.
LEMMA InvMemory ==
  ASSUME Inv
  PROVE  MemoryDepsSound
<1>1. Struct /\ MemInv
  BY InvTyped
<1>2. SUFFICES ASSUME NEW x \in need, x[1] = "memory", Settled(x[2]), Settled(x[3])
               PROVE  x[3] \in graph.deps[x[2]]
  BY DEF MemoryDepsSound, InGraph
<1>3. /\ x[2] \in 1 .. NumNodes
      /\ IF x[2] <= Base THEN x[3] \in graph.deps[x[2]] ELSE MemDep(mem, Cur, x[2], x[3])
  BY <1>1, <1>2 DEF MemInv, MemNeeds
<1>4. x[2] <= Base
  <2>1. x[2] \in 1 .. Base
    BY <1>1, <1>2, <1>3, SettledIs
  <2>2. Base \in Nat
    BY <1>1, Numbers
  <2>3. QED
    BY <2>1, <2>2
<1>5. QED
  BY <1>3, <1>4, Zenon

\* It gives the forward dependencies.
LEMMA InvForward ==
  ASSUME Inv
  PROVE  ForwardDepsSound
<1>1. Struct /\ FwdInv /\ ForwardOK
  BY InvTyped
<1>2. SUFFICES ASSUME NEW x \in need, x[1] = "forward", Settled(x[2]), Settled(x[3])
               PROVE  x[3] \in graph.deps[x[2]]
  BY DEF ForwardDepsSound, InGraph
<1>3. PICK i : IsPair(forward.pairs, i, x[2], x[3])
  BY <1>1, <1>2 DEF FwdInv, RoomOK, Paired
<1>4. /\ i \in 1 .. Len(forward.pairs) /\ forward.pairs[i].open = x[2] /\ forward.pairs[i].close = x[3] /\ x[3] # 0
  BY <1>3 DEF IsPair
<1>5. NumNodes \in Nat /\ Base \in Nat
  BY <1>1, Numbers
<1>6. forward.pairs[i].open \in 1 .. NumNodes /\ forward.pairs[i].close \in 0 .. NumNodes
  BY <1>1, <1>4 DEF ForwardOK, ForwardType
<1>7. x[2] \in 1 .. NumNodes /\ x[3] \in 1 .. NumNodes
  BY <1>4, <1>5, <1>6
<1>8. x[2] \in 1 .. Base /\ x[3] \in 1 .. Base
  BY <1>1, <1>2, <1>7, SettledIs
<1>9. forward.pairs[i].open <= Base /\ forward.pairs[i].close \in 1 .. Base
  BY <1>4, <1>5, <1>8
<1>10. forward.pairs[i].close \in graph.deps[forward.pairs[i].open]
  BY <1>1, <1>4, <1>9 DEF FwdInv, RoomOK, RoomHold
<1>11. QED
  BY <1>4, <1>10

\* The graph has its type in every state: addDependency never panics for want
\* of room or order, whatever commands, subcommands and forward dependencies
\* there are.
THEOREM TypeCorrect == Spec => []TypeOK
  BY GraphInv, InvType, PTL

\* The interval lists stay sorted and without overlap, and between commands
\* they give the last writer of every address.
THEOREM ListsStayExact == Spec => []ListsExact
  BY GraphInv, InvLists, PTL

\* A node that reads memory depends on the node that wrote it last, for every
\* order of commands, subcommands, observations and accesses.
THEOREM MemoryDependencies == Spec => []MemoryDepsSound
  BY GraphInv, InvMemory, PTL

\* A node that opened a forward dependency depends on the one that closed it.
THEOREM ForwardDependencies == Spec => []ForwardDepsSound
  BY GraphInv, InvForward, PTL
=============================================================================
