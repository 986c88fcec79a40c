--------------------------- MODULE DeadCodeProofs ---------------------------
(***************************************************************************)
(* Proofs about DependencyGraph: the dependencies of fields, and what dead *)
(* code elimination keeps.                                                 *)
(***************************************************************************)
EXTENDS DependencyGraphProofs

-----------------------------------------------------------------------------
(***************************************************************************)
(* Fields through the actions.                                             *)
(***************************************************************************)
\* A need of a field is in the graph when its node is settled; before, the
\* watcher knows it.
FieldNeeds ==
  \A x \in need : x[1] = "field" =>
    /\ x[2] \in 1 .. NumNodes /\ x[3] \in 1 .. NumNodes
    /\ IF x[2] <= Base THEN x[3] \in graph.deps[x[2]] ELSE FieldDep(frag, Cur, x[2], x[3])

\* The invariant of the fields.
FieldInv == FieldsHold(frag, Cur, wrote.field, whole, need) /\ FieldNeeds

\* A need that is new, and known to the watcher.
NewField(x) ==
  /\ x[2] \in 1 .. NumNodes /\ x[3] \in 1 .. NumNodes /\ ~(x[2] <= Base)
  /\ FieldDep(frag', Cur', x[2], x[3])

\* The invariant of fields holds after a step if the watcher holds the
\* fields, forgets no dependency, and knows the new needs.
LEMMA FieldMoves ==
  ASSUME Struct, FieldInv, FieldsHold(frag', Cur', wrote'.field, whole', need'), NumNodes' \in Nat, NumNodes <= NumNodes', Base' = Base,
         \A n \in 1 .. NumNodes : graph'.deps[n] = graph.deps[n],
         \A n, m : FieldDep(frag, Cur, n, m) /\ m # 0 => FieldDep(frag', Cur', n, m),
         \A x \in need' : x[1] = "field" => x \in need \/ NewField(x)
  PROVE  FieldInv'
<1>1. NumNodes \in Nat /\ Base \in Nat
  BY Numbers
<1>2. FieldNeeds'
  <2>1. SUFFICES ASSUME NEW x \in need', x[1] = "field"
                 PROVE  /\ x[2] \in 1 .. NumNodes' /\ x[3] \in 1 .. NumNodes'
                        /\ IF x[2] <= Base' THEN x[3] \in graph'.deps[x[2]] ELSE FieldDep(frag', Cur', x[2], x[3])
    BY Zenon DEF FieldNeeds
  <2>2. CASE x \in need
    <3>1. /\ x[2] \in 1 .. NumNodes /\ x[3] \in 1 .. NumNodes
          /\ IF x[2] <= Base THEN x[3] \in graph.deps[x[2]] ELSE FieldDep(frag, Cur, x[2], x[3])
      BY <2>1, <2>2 DEF FieldInv, FieldNeeds
    <3>2. x[2] \in 1 .. NumNodes' /\ x[3] \in 1 .. NumNodes' /\ x[3] # 0
      BY <1>1, <3>1
    <3>3. CASE x[2] <= Base
      <4>1. x[3] \in graph'.deps[x[2]]
        BY <3>1, <3>3
      <4>2. QED
        BY <3>2, <3>3, <4>1, Zenon
    <3>4. CASE ~(x[2] <= Base)
      <4>1. FieldDep(frag', Cur', x[2], x[3])
        BY <3>1, <3>2, <3>4
      <4>2. QED
        BY <3>2, <3>4, <4>1, Zenon
    <3>5. QED
      BY <3>3, <3>4
  <2>3. CASE NewField(x)
    <3>1. /\ x[2] \in 1 .. NumNodes /\ x[3] \in 1 .. NumNodes /\ ~(x[2] <= Base)
          /\ FieldDep(frag', Cur', x[2], x[3])
      BY <2>3 DEF NewField
    <3>2. x[2] \in 1 .. NumNodes' /\ x[3] \in 1 .. NumNodes'
      BY <1>1, <3>1
    <3>3. QED
      BY <3>1, <3>2, Zenon
  <2>4. QED
    BY <2>1, <2>2, <2>3
<1>3. QED
  BY <1>2, Zenon DEF FieldInv

\* Nothing of fields changes, in a command.
LEMMA FieldFrame ==
  ASSUME Inv, FieldInv, InCommand, frag' = frag, wrote'.field = wrote.field, whole' = whole, need \subseteq need',
         \A x \in need' : x[1] = "field" => x \in need
  PROVE  FieldInv'
<1>1. Struct
  BY DEF Inv
<1>2. Base' = Base /\ NumNodes' = NumNodes /\ NumNodes \in Nat
  BY <1>1, StructInCommand, Numbers
<1>3. Cur' = Cur /\ graph' = graph
  BY <1>1, CommandKeeps
<1>4. FieldsHold(frag', Cur', wrote'.field, whole', need')
  <2>1. FieldsHold(frag, Cur, wrote.field, whole, need)
    BY DEF FieldInv
  <2>2. PICK w, c, wf, H, nd, ne : w = frag /\ c = Cur /\ wf = wrote.field /\ H = whole /\ nd = need /\ ne = need'
    OBVIOUS
  <2>3. FieldsHold(w, c, wf, H, nd) /\ nd \subseteq ne
    BY <2>1, <2>2, Zenon
  <2>4. FieldsHold(w, c, wf, H, ne)
    BY <2>3, MoreNeeds
  <2>5. QED
    BY <1>3, <2>2, <2>4, Zenon
<1>5. \A n, m : FieldDep(frag, Cur, n, m) /\ m # 0 => FieldDep(frag', Cur', n, m)
  BY <1>3, Zenon
<1>6. NumNodes' \in Nat /\ NumNodes <= NumNodes' /\ \A n \in 1 .. NumNodes : graph'.deps[n] = graph.deps[n]
  BY <1>2, <1>3
<1>7. QED
  BY <1>1, <1>2, <1>4, <1>5, <1>6, FieldMoves

\* Needs of another kind.
LEMMA NeedsField ==
  ASSUME NEW kind, kind # "field", NEW from, need' = need \cup Needs(kind, from)
  PROVE  \A x \in need' : x[1] = "field" => x \in need
<1>1. \A x \in Needs(kind, from) : x[1] = kind
  BY DEF Needs
<1>2. QED
  BY <1>1

\* The invariant of fields, when memory is read.
LEMMA ReadSliceField ==
  ASSUME Inv, FieldInv, NEW p \in Pools, NEW x \in Spans, OnReadSlice(p, x)
  PROVE  FieldInv'
<1>1. InCommand
  BY InvTyped, ReadSliceIn
<1>2. frag' = frag /\ wrote' = wrote /\ whole' = whole /\ \E from : need' = need \cup Needs("memory", from)
  BY DEF OnReadSlice
<1>3. \A y \in need' : y[1] = "field" => y \in need
  BY <1>2, NeedsField
<1>4. QED
  BY <1>1, <1>2, <1>3, FieldFrame

\* The same, when memory is written.
LEMMA WriteSliceField ==
  ASSUME Inv, FieldInv, NEW p \in Pools, NEW x \in Spans, OnWriteSlice(p, x)
  PROVE  FieldInv'
<1>1. InCommand
  BY InvTyped, WriteSliceIn
<1>2. frag' = frag /\ need' = need /\ whole' = whole /\ \E row : wrote' = [wrote EXCEPT !.memory[p] = row]
  BY DEF OnWriteSlice
<1>3. wrote = [memory |-> wrote.memory, field |-> wrote.field]
  BY InvTyped DEF MemOK
<1>4. PICK row : wrote' = [wrote EXCEPT !.memory[p] = row]
  BY <1>2
<1>5. PICK a, b : a = wrote.memory /\ b = wrote.field
  OBVIOUS
<1>6. wrote' = [memory |-> [a EXCEPT ![p] = row], field |-> b]
  BY <1>3, <1>4, <1>5, WroteIs
<1>7. wrote'.field = wrote.field
  BY <1>5, <1>6
<1>8. QED
  BY <1>1, <1>2, <1>7, FieldFrame

\* The same, when a subcommand is recorded.
LEMMA RecordField ==
  ASSUME Inv, FieldInv, NEW r \in Records, OnRecordSubCmd(r)
  PROVE  FieldInv'
<1>1. InCommand
  BY InvTyped, RecordIn
<1>2. frag' = frag /\ wrote' = wrote /\ whole' = whole /\ need' = need
  BY DEF OnRecordSubCmd, ghosts
<1>3. QED
  BY <1>1, <1>2, FieldFrame

\* The same, when a merged subcommand begins.
LEMMA MergedField ==
  ASSUME Inv, FieldInv, NEW r \in Records, OnBeginMergedSubCmd(r)
  PROVE  FieldInv'
<1>1. InCommand
  BY InvTyped, MergedIn
<1>2. frag' = frag /\ wrote' = wrote /\ whole' = whole /\ need' = need \cup RecordNeeds(Ctx.node, r)
  BY DEF OnBeginMergedSubCmd
<1>3. \A x \in RecordNeeds(Ctx.node, r) : x[1] = "record"
  BY DEF RecordNeeds
<1>4. \A x \in need' : x[1] = "field" => x \in need
  BY <1>2, <1>3
<1>5. QED
  BY <1>1, <1>2, <1>4, FieldFrame

\* The same, when a forward dependency is opened.
LEMMA OpenField ==
  ASSUME Inv, FieldInv, NEW d, OpenForwardDependency(d)
  PROVE  FieldInv'
<1>1. InCommand
  BY InvTyped, OpenIn
<1>2. frag' = frag /\ wrote' = wrote /\ whole' = whole /\ need' = need
  BY DEF OpenForwardDependency, ghosts
<1>3. QED
  BY <1>1, <1>2, FieldFrame

\* The same, when one is closed.
LEMMA CloseField ==
  ASSUME Inv, FieldInv, NEW d, CloseForwardDependency(d)
  PROVE  FieldInv'
<1>1. InCommand
  BY InvTyped, CloseIn
<1>2. /\ frag' = frag /\ wrote' = wrote /\ whole' = whole
      /\ need' = need \/ \E y, z : need' = need \cup {<<"forward", y, z>>}
  BY DEF CloseForwardDependency
<1>3. \A x \in need' : x[1] = "field" => x \in need
  BY <1>2
<1>4. QED
  BY <1>1, <1>2, <1>3, FieldFrame

\* The same, when one is dropped.
LEMMA DropField ==
  ASSUME Inv, FieldInv, NEW d, DropForwardDependency(d)
  PROVE  FieldInv'
<1>1. InCommand
  BY InvTyped, DropIn
<1>2. frag' = frag /\ wrote' = wrote /\ whole' = whole /\ need' = need
  BY DEF DropForwardDependency, ghosts
<1>3. QED
  BY <1>1, <1>2, FieldFrame

\* What field f was written by last, when it is not 0.
LEMMA WriterIn ==
  ASSUME Struct, FragType(frag, NumNodes), FieldInv, stack # <<>>, NEW f \in Frags, wrote.field[f] \notin whole
  PROVE  wrote.field[f] \in 0 .. NumNodes
<1>1. WriterAt(frag, Cur, wrote.field[f], f)
  BY DEF FieldInv, FieldsHold
<1>2. Cur \in 1 .. NumNodes /\ NumNodes \in Nat
  BY CurIs, Numbers
<1>3. FragWriter(frag, f) \in 0 .. NumNodes
  <2>1. \A g \in DOMAIN frag.writes.frags : frag.writes.frags[g] \in 1 .. NumNodes
    BY DEF FragType, WritesType, WritesBase
  <2>2. QED
    BY <1>2, <2>1 DEF FragWriter
<1>4. QED
  BY <1>1, <1>2, <1>3 DEF WriterAt

\* The need of a read that the watcher knows.
LEMMA NewFieldIs ==
  ASSUME Struct, FragType(frag, NumNodes), FieldInv, stack # <<>>, NEW f \in Frags, wrote.field[f] \notin whole,
         wrote.field[f] \notin {0, Cur}, FieldDep(frag', Cur', Cur, wrote.field[f])
  PROVE  NewField(<<"field", Cur, wrote.field[f]>>)
<1>1. Cur \in Base + 1 .. NumNodes /\ Cur \in 1 .. NumNodes /\ Base \in Nat /\ NumNodes \in Nat
  BY CurIs, Numbers
<1>2. wrote.field[f] \in 0 .. NumNodes
  BY WriterIn
<1>3. PICK m, x : m = wrote.field[f] /\ x = <<"field", Cur, m>>
  OBVIOUS
<1>4. x[2] = Cur /\ x[3] = m /\ m \notin {0, Cur}
  BY <1>3
<1>5. x[2] \in 1 .. NumNodes /\ x[3] \in 1 .. NumNodes /\ ~(x[2] <= Base)
  BY <1>1, <1>2, <1>3, <1>4
<1>6. FieldDep(frag', Cur', x[2], x[3])
  BY <1>3, <1>4
<1>7. QED
  BY <1>3, <1>5, <1>6 DEF NewField

\* The invariant of fields, when a field is read: a read that is left out as
\* covered has its dependency from the access that covers it.
LEMMA ReadFragField ==
  ASSUME Inv, FieldInv, NEW f \in FragSet, ReadFrag(f)
  PROVE  FieldInv'
<1>1. InCommand /\ Struct /\ FragType(frag, NumNodes)
  BY InvTyped, ReadFragIn DEF FragOK
<1>2. wrote' = wrote /\ whole' = whole /\ need \subseteq need'
  BY DEF ReadFrag
<1>3. stack # <<>> /\ Cur' = Cur /\ Cur = Ctx.node /\ graph' = graph
  BY <1>1, CommandKeeps
<1>4. /\ Base' = Base /\ NumNodes' = NumNodes /\ NumNodes' \in Nat /\ NumNodes <= NumNodes'
      /\ \A n \in 1 .. NumNodes : graph'.deps[n] = graph.deps[n]
  BY <1>1, <1>3, StructInCommand, Numbers
<1>5. PICK d \in 0 .. MaxDepth : d = Ctx.depth
  BY <1>1, <1>3, CtxIs
<1>6. PICK c, wf, H, nd, ne : c = Cur /\ wf = wrote.field /\ H = whole /\ nd = need /\ ne = need'
  OBVIOUS
<1>7. PICK v : v = frag'
  OBVIOUS
<1>8. \/ v = frag /\ GetMode(frag.access, f, d, c) \cup GetMode(frag.access, Complete, d, c) # {}
      \/ /\ GetMode(frag.access, f, d, c) \cup GetMode(frag.access, Complete, d, c) = {}
         /\ FragAdded(frag, v, frag.access, d, c, f, "R")
  BY <1>1, <1>3, <1>5, <1>6, <1>7, ReadFragStep
<1>9. FieldsHold(frag, c, wf, H, nd) /\ nd \subseteq ne
  BY <1>2, <1>6, Zenon DEF FieldInv
<1>10. f = Complete => \A g \in Frags : wf[g] \in {0, c} \/ <<"object", c, wf[g]>> \in ne
  <2>1. SUFFICES ASSUME f = Complete, NEW g \in Frags, wf[g] \notin {0, c} PROVE <<"object", c, wf[g]>> \in ne
    BY Zenon
  <2>2. need' = need \cup Needs("object", {wrote.field[k] : k \in Frags})
    BY <2>1, Zenon DEF ReadFrag
  <2>3. wf[g] \in {wrote.field[k] : k \in Frags} \ {0, Ctx.node}
    BY <1>3, <1>6, <2>1
  <2>4. <<"object", Ctx.node, wf[g]>> \in Needs("object", {wrote.field[k] : k \in Frags})
    BY <2>3, Zenon DEF Needs
  <2>5. QED
    BY <1>3, <1>6, <2>2, <2>4
<1>11. /\ FieldsHold(v, c, wf, H, ne) /\ \A n, m : FieldDep(frag, c, n, m) => FieldDep(v, c, n, m)
       /\ f \in Frags => wf[f] \in {0, c} \/ wf[f] \in H \/ <<"object", c, wf[f]>> \in nd \/ FieldDep(v, c, c, wf[f])
  <2>1. CASE v = frag /\ GetMode(frag.access, f, d, c) \cup GetMode(frag.access, Complete, d, c) # {}
    <3>1. FieldsHold(frag, c, wf, H, ne)
      BY <1>9, MoreNeeds
    <3>2. ASSUME f \in Frags, GetMode(frag.access, f, d, c) # {}
          PROVE  wf[f] \in {0, c} \/ wf[f] \in H \/ FieldDep(v, c, c, wf[f])
      <4>1. f \in DOMAIN frag.access /\ frag.access[f].stack[d].node = c /\ frag.access[f].stack[d].mode # {}
        BY <3>2 DEF GetMode
      <4>2. EntryOK(frag, c, wf[f], H, frag.access[f].stack[d])
        BY <1>9, <3>2, <4>1 DEF FieldsHold, EntriesOK
      <4>3. QED
        BY <2>1, <4>1, <4>2 DEF EntryOK
    <3>3. ASSUME f \in Frags, GetMode(frag.access, Complete, d, c) # {}
          PROVE  wf[f] \in {0, c} \/ wf[f] \in H \/ <<"object", c, wf[f]>> \in nd
      <4>1. PICK e : e = frag.access[Complete].stack[d]
        OBVIOUS
      <4>2. Complete \in DOMAIN frag.access /\ e.node = c /\ e.mode # {}
        BY <3>3, <4>1 DEF GetMode
      <4>3. WholeOK(wf, H, nd, e)
        BY <1>9, <4>1, <4>2 DEF FieldsHold, WholesOK
      <4>4. QED
        BY <3>3, <4>2, <4>3 DEF WholeOK
    <3>4. QED
      BY <2>1, <3>1, <3>2, <3>3
  <2>2. CASE /\ GetMode(frag.access, f, d, c) \cup GetMode(frag.access, Complete, d, c) = {}
             /\ FragAdded(frag, v, frag.access, d, c, f, "R")
    <3>1. GetMode(frag.access, f, d, c) = {}
      BY <2>2
    <3>2. /\ FieldsHold(v, c, wf, H, ne) /\ \A n, m : FieldDep(frag, c, n, m) => FieldDep(v, c, n, m)
          /\ f \in Frags => wf[f] \in {0, c} \/ wf[f] \in H \/ FieldDep(v, c, c, wf[f])
      BY <1>1, <1>9, <1>10, <2>2, <3>1, ReadKeeps
    <3>3. QED
      BY <3>2
  <2>3. QED
    BY <1>8, <2>1, <2>2
<1>12. FieldsHold(frag', Cur', wrote'.field, whole', need')
  BY <1>2, <1>3, <1>6, <1>7, <1>11, Zenon
<1>13. \A n, m : FieldDep(frag, Cur, n, m) /\ m # 0 => FieldDep(frag', Cur', n, m)
  BY <1>3, <1>6, <1>7, <1>11, Zenon
<1>14. \A x \in need' : x[1] = "field" => x \in need \/ NewField(x)
  <2>1. CASE f = Complete
    <3>1. need' = need \cup Needs("object", {wrote.field[g] : g \in Frags})
      BY <2>1, Zenon DEF ReadFrag
    <3>2. QED
      BY <3>1, NeedsField
  <2>2. CASE f # Complete
    <3>1. PICK kind, from : /\ kind = FieldKind(f)
                            /\ from = {m \in {wrote.field[f]} : <<"object", Ctx.node, m>> \notin need}
      OBVIOUS
    <3>2. need' = need \cup Needs(kind, from)
      BY <2>2, <3>1, Zenon DEF ReadFrag
    <3>3. CASE kind # "field"
      BY <3>2, <3>3, NeedsField
    <3>4. CASE kind = "field"
      <4>1. f \in Frags /\ wrote.field[f] \notin whole
        BY <2>2, <3>1, <3>4 DEF FragSet, FieldKind
      <4>2. SUFFICES ASSUME NEW x \in Needs("field", from) PROVE NewField(x)
        BY <3>2, <3>4
      <4>3. x = <<"field", Cur, wrote.field[f]>> /\ wrote.field[f] \notin {0, Cur} /\ <<"object", Cur, wrote.field[f]>> \notin need
        BY <1>3, <3>1, <4>2 DEF Needs
      <4>4. FieldDep(v, c, c, wf[f])
        BY <1>6, <1>11, <4>1, <4>3
      <4>5. FieldDep(frag', Cur', Cur, wrote.field[f])
        BY <1>3, <1>6, <1>7, <4>4, Zenon
      <4>6. NewField(<<"field", Cur, wrote.field[f]>>)
        BY <1>1, <1>3, <4>1, <4>3, <4>5, NewFieldIs
      <4>7. QED
        BY <4>3, <4>6, Zenon
    <3>5. QED
      BY <3>3, <3>4
  <2>3. QED
    BY <2>1, <2>2
<1>15. QED
  BY <1>1, <1>4, <1>12, <1>13, <1>14, FieldMoves

\* The same, when a field is written.
LEMMA WriteFragField ==
  ASSUME Inv, FieldInv, NEW f \in FragSet, WriteFrag(f)
  PROVE  FieldInv'
<1>1. InCommand /\ Struct /\ FragType(frag, NumNodes)
  BY InvTyped, WriteFragIn DEF FragOK
<1>2. need' = need
  BY DEF WriteFrag
<1>3. stack # <<>> /\ Cur' = Cur /\ Cur = Ctx.node /\ graph' = graph
  BY <1>1, CommandKeeps
<1>4. /\ Base' = Base /\ NumNodes' = NumNodes /\ NumNodes' \in Nat /\ NumNodes <= NumNodes'
      /\ \A n \in 1 .. NumNodes : graph'.deps[n] = graph.deps[n]
  BY <1>1, <1>3, StructInCommand, Numbers
<1>5. PICK d \in 0 .. MaxDepth : d = Ctx.depth
  BY <1>1, <1>3, CtxIs
<1>6. PICK c, wf, H, nd : c = Cur /\ wf = wrote.field /\ H = whole /\ nd = need
  OBVIOUS
<1>7. PICK v : v = frag'
  OBVIOUS
<1>8. \/ v = frag /\ "W" \in GetMode(frag.access, f, d, c) \cup GetMode(frag.access, Complete, d, c)
      \/ FragAdded(frag, v, Cleared(frag.access, f), d, c, f, "W")
  BY <1>1, <1>3, <1>5, <1>6, <1>7, WriteFragStep
<1>9. FieldsHold(frag, c, wf, H, nd)
  BY <1>6, Zenon DEF FieldInv
<1>10. PICK row : row = [g \in Frags |-> IF f \in {g, Complete} THEN Ctx.node ELSE wrote.field[g]]
  OBVIOUS
<1>11. wrote' = [wrote EXCEPT !.field = row]
  BY <1>10 DEF WriteFrag
<1>12. wrote = [memory |-> wrote.memory, field |-> wrote.field]
  BY InvTyped DEF MemOK
<1>13. PICK a : a = wrote.memory
  OBVIOUS
<1>14. wrote' = [memory |-> a, field |-> row]
  BY <1>11, <1>12, <1>13
<1>15. wrote'.field = row
  BY <1>14
<1>16. /\ \A g \in Frags : row[g] = IF f \in {g, Complete} THEN c ELSE wf[g]
       /\ \A g \in Frags : row[g] \in {wf[g], c}
  BY <1>3, <1>6, <1>10
<1>17. PICK G : G = whole'
  OBVIOUS
<1>18. G = IF f = Complete THEN H \cup {c} ELSE H
  BY <1>3, <1>6, <1>17 DEF WriteFrag
<1>19. /\ FieldsHold(v, c, row, G, nd) /\ \A n, m : FieldDep(frag, c, n, m) => FieldDep(v, c, n, m)
  <2>1. CASE v = frag /\ "W" \in GetMode(frag.access, Complete, d, c)
    <3>1. c \in H /\ FieldsHold(frag, c, row, H, nd)
      BY <1>9, <1>16, <2>1, CoveredWrite
    <3>2. G = H
      BY <1>18, <3>1
    <3>3. QED
      BY <2>1, <3>1, <3>2
  <2>2. CASE v = frag /\ f # Complete /\ "W" \in GetMode(frag.access, f, d, c)
    <3>1. f \in Frags
      BY <2>2 DEF FragSet
    <3>2. f \in DOMAIN frag.access /\ frag.access[f].stack[d].node = c /\ "W" \in frag.access[f].stack[d].mode
      BY <2>2 DEF GetMode
    <3>3. EntryOK(frag, c, wf[f], H, frag.access[f].stack[d])
      BY <1>9, <3>1, <3>2 DEF FieldsHold, EntriesOK
    <3>4. wf[f] = c
      BY <3>2, <3>3 DEF EntryOK
    <3>5. \A g \in Frags : row[g] = wf[g]
      BY <1>16, <2>2, <3>4
    <3>6. FieldsHold(frag, c, row, H, nd)
      BY <1>9, <3>5 DEF FieldsHold, WholesOK, WholeOK
    <3>7. QED
      BY <1>18, <2>2, <3>6
  <2>3. CASE f # Complete /\ FragAdded(frag, v, Cleared(frag.access, f), d, c, f, "W")
    <3>1. f \in Frags
      BY <2>3 DEF FragSet
    <3>2. row[f] = c /\ \A g \in Frags : g # f => row[g] = wf[g]
      BY <1>16, <2>3, <3>1
    <3>3. FieldsHold(v, c, row, H, nd) /\ \A n, m : FieldDep(frag, c, n, m) => FieldDep(v, c, n, m)
      BY <1>1, <1>9, <2>3, <3>1, <3>2, WriteKeeps
    <3>4. QED
      BY <1>18, <2>3, <3>3
  <2>4. CASE f = Complete /\ FragAdded(frag, v, Cleared(frag.access, f), d, c, f, "W")
    <3>1. FragAdded(frag, v, Cleared(frag.access, Complete), d, c, Complete, "W")
      BY <2>4, Zenon
    <3>2. (\A g \in Frags : row[g] = c) /\ G = H \cup {c}
      BY <1>16, <1>18, <2>4
    <3>3. QED
      BY <1>1, <1>9, <3>1, <3>2, WholeWriteKeeps
  <2>5. QED
    BY <1>8, <2>1, <2>2, <2>3, <2>4
<1>20. FieldsHold(frag', Cur', wrote'.field, whole', need')
  BY <1>2, <1>3, <1>6, <1>7, <1>15, <1>17, <1>19, Zenon
<1>21. \A n, m : FieldDep(frag, Cur, n, m) /\ m # 0 => FieldDep(frag', Cur', n, m)
  BY <1>3, <1>6, <1>7, <1>19, Zenon
<1>22. \A x \in need' : x[1] = "field" => x \in need \/ NewField(x)
  BY <1>2
<1>23. QED
  BY <1>1, <1>4, <1>20, <1>21, <1>22, FieldMoves

\* The same, when a command begins.
LEMMA BeginField ==
  ASSUME Inv, FieldInv, OnBeginCmd
  PROVE  FieldInv'
<1>1. Struct /\ FragOK
  BY InvTyped
<1>2. Struct' /\ Grown(1, "cmd", 0, {}) /\ stack = <<>> /\ pendingNodes = <<>> /\ Base = NumNodes
  BY <1>1, BeginCmdStruct
<1>3. /\ NumNodes' = NumNodes + 1 /\ Base' = Base /\ NumNodes \in Nat
      /\ \A n \in 1 .. NumNodes : graph'.deps[n] = graph.deps[n]
  BY <1>1, <1>2, GrownIs, Numbers
<1>4. frag' = frag /\ wrote' = wrote /\ whole' = whole /\ need' = need
  BY DEF OnBeginCmd, ghosts
<1>5. frag.access = <<>> /\ \A f : FragPending(frag, f) = {}
  <2>1. frag.access = <<>> /\ DOMAIN <<>> = {}
    BY <1>1, <1>2 DEF FragOK
  <2>2. QED
    BY <2>1 DEF FragPending
<1>6. \A k : FieldsHold(frag, k, wrote.field, whole, need)
  BY <1>5, NothingHeld DEF FieldInv
<1>7. FieldsHold(frag', Cur', wrote'.field, whole', need')
  BY <1>4, <1>6, Zenon
<1>8. \A n, m : FieldDep(frag, Cur, n, m) => FieldDep(frag, Cur', n, m)
  BY <1>5 DEF FieldDep, FragComing
<1>9. \A n, m : FieldDep(frag, Cur, n, m) /\ m # 0 => FieldDep(frag', Cur', n, m)
  BY <1>4, <1>8, Zenon
<1>10. NumNodes' \in Nat /\ NumNodes <= NumNodes'
  BY <1>3
<1>11. QED
  BY <1>1, <1>3, <1>4, <1>7, <1>9, <1>10, FieldMoves

\* The same, with observations.
LEMMA ObsField ==
  ASSUME Inv, FieldInv, NEW obs \in ObsLists, OnReadObs(obs) \/ OnWriteObs(obs)
  PROVE  FieldInv'
<1>1. Struct /\ MemOK
  BY InvTyped
<1>2. Struct' /\ Grown(Len(obs), "obs", 0, {}) /\ Len(obs) \in Nat /\ stack # <<>>
  BY <1>1, ObsStruct
<1>3. /\ NumNodes' = NumNodes + Len(obs) /\ Base' = Base /\ NumNodes \in Nat
      /\ \A n \in 1 .. NumNodes : graph'.deps[n] = graph.deps[n]
  BY <1>1, <1>2, GrownIs, Numbers
<1>4. frag' = frag /\ need' = need /\ stack' = stack /\ whole' = whole
  BY DEF OnReadObs, OnWriteObs
<1>5. Cur' = Cur
  BY <1>4 DEF Cur, Ctx
<1>6. \E row : wrote' = [wrote EXCEPT !.memory[0] = row]
  <2>1. Observe(obs, FALSE) \/ Observe(obs, TRUE)
    BY DEF OnReadObs, OnWriteObs
  <2>2. QED
    BY <2>1 DEF Observe
<1>7. wrote = [memory |-> wrote.memory, field |-> wrote.field]
  BY <1>1 DEF MemOK
<1>8. PICK row : wrote' = [wrote EXCEPT !.memory[0] = row]
  BY <1>6
<1>9. PICK a, b : a = wrote.memory /\ b = wrote.field
  OBVIOUS
<1>10. wrote' = [memory |-> [a EXCEPT ![0] = row], field |-> b]
  BY <1>7, <1>8, <1>9, WroteIs
<1>11. wrote'.field = wrote.field
  BY <1>9, <1>10
<1>12. FieldsHold(frag', Cur', wrote'.field, whole', need')
  BY <1>4, <1>5, <1>11, Zenon DEF FieldInv
<1>13. \A n, m : FieldDep(frag, Cur, n, m) /\ m # 0 => FieldDep(frag', Cur', n, m)
  BY <1>4, <1>5, Zenon
<1>14. NumNodes' \in Nat /\ NumNodes <= NumNodes'
  BY <1>2, <1>3
<1>15. QED
  BY <1>1, <1>3, <1>4, <1>12, <1>13, <1>14, FieldMoves

\* A flush for the current node forgets no dependency.
LEMMA FlushField ==
  ASSUME Inv, FieldInv, stack # <<>>, FlushAll(Ctx.node), wrote' = wrote, whole' = whole, need \subseteq need'
  PROVE  /\ FieldsHold(frag', Cur', wrote'.field, whole', need')
         /\ \A n, m : FieldDep(frag, Cur, n, m) /\ m # 0 => FieldDep(frag', Cur', n, m)
<1>1. Struct /\ Typed /\ ForwardOK /\ FragType(frag, NumNodes)
  BY InvTyped DEF FragOK
<1>2. FragType(frag', NumNodes) /\ FragFlushed(frag, frag', Ctx.node) /\ Cur = Ctx.node
  BY <1>1, FlushAllIs, CurIs
<1>3. PICK v, c, N, wf, H, nd, ne : /\ v = frag' /\ c = Cur /\ N = NumNodes
                                    /\ wf = wrote.field /\ H = whole /\ nd = need /\ ne = need'
  OBVIOUS
<1>4. /\ FragType(frag, N) /\ FragType(v, N) /\ FragFlushed(frag, v, c) /\ nd \subseteq ne
      /\ FieldsHold(frag, c, wf, H, ne)
  <2>1. FragType(frag, N) /\ FragType(v, N) /\ FragFlushed(frag, v, c) /\ FieldsHold(frag, c, wf, H, nd) /\ nd \subseteq ne
    BY <1>1, <1>2, <1>3, Zenon DEF FieldInv
  <2>2. QED
    BY <2>1, MoreNeeds
<1>5. /\ \A k : FieldsHold(v, k, wf, H, ne)
      /\ \A n, m : FieldDep(frag, c, n, m) /\ m # 0 => m \in DepsOf(v.acc, n)
  BY <1>4, FlushKeeps
<1>6. \A n, m : FieldDep(frag, c, n, m) /\ m # 0 => FieldDep(v, Cur', n, m)
  BY <1>5 DEF FieldDep
<1>7. QED
  BY <1>3, <1>5, <1>6, Zenon

\* The same, when a subcommand begins.
LEMMA BeginSubField ==
  ASSUME Inv, FieldInv, NEW r \in Records, OnBeginSubCmd(r)
  PROVE  FieldInv'
<1>1. Struct
  BY InvTyped
<1>2. Struct' /\ Grown(1, "sub", Ctx.node, RecordNode(r)) /\ stack # <<>>
  BY <1>1, BeginSubStruct
<1>3. /\ NumNodes' = NumNodes + 1 /\ Base' = Base /\ NumNodes \in Nat
      /\ \A n \in 1 .. NumNodes : graph'.deps[n] = graph.deps[n]
  BY <1>1, <1>2, GrownIs, Numbers
<1>4. /\ FlushAll(Ctx.node) /\ wrote' = wrote /\ whole' = whole
      /\ need' = need \cup RecordNeeds(NumNodes + 1, r) \cup {<<"record", NumNodes + 1, Ctx.node>>}
  BY DEF OnBeginSubCmd
<1>5. /\ FieldsHold(frag', Cur', wrote'.field, whole', need')
      /\ \A n, m : FieldDep(frag, Cur, n, m) /\ m # 0 => FieldDep(frag', Cur', n, m)
  BY <1>2, <1>4, FlushField
<1>6. \A x \in RecordNeeds(NumNodes + 1, r) : x[1] = "record"
  BY DEF RecordNeeds
<1>7. \A x \in need' : x[1] = "field" => x \in need \/ NewField(x)
  BY <1>4, <1>6
<1>8. NumNodes' \in Nat /\ NumNodes <= NumNodes'
  BY <1>3
<1>9. QED
  BY <1>1, <1>3, <1>5, <1>7, <1>8, FieldMoves

\* The same, when a subcommand ends.
LEMMA EndSubField ==
  ASSUME Inv, FieldInv, OnEndSubCmd
  PROVE  FieldInv'
<1>1. Struct
  BY InvTyped
<1>2. Struct' /\ NumNodes' = NumNodes /\ Base' = Base /\ stack # <<>> /\ NumNodes \in Nat
  BY <1>1, EndSubStruct, Numbers
<1>3. FlushAll(Ctx.node) /\ wrote' = wrote /\ whole' = whole /\ need' = need /\ graph' = graph
  BY DEF OnEndSubCmd, ghosts
<1>4. /\ FieldsHold(frag', Cur', wrote'.field, whole', need')
      /\ \A n, m : FieldDep(frag, Cur, n, m) /\ m # 0 => FieldDep(frag', Cur', n, m)
  BY <1>2, <1>3, FlushField
<1>5. NumNodes' \in Nat /\ NumNodes <= NumNodes' /\ \A n \in 1 .. NumNodes : graph'.deps[n] = graph.deps[n]
  BY <1>2, <1>3
<1>6. \A x \in need' : x[1] = "field" => x \in need \/ NewField(x)
  BY <1>3
<1>7. QED
  BY <1>1, <1>2, <1>4, <1>5, <1>6, FieldMoves

\* The same, when a command ends.
LEMMA EndField ==
  ASSUME Inv, FieldInv, OnEndCmd
  PROVE  FieldInv'
<1>1. Struct /\ Typed /\ FwdInv /\ Counted /\ FragType(frag, NumNodes)
  BY InvTyped DEF FragOK
<1>2. PICK f, m, w : EndStep(f, m, w)
  BY <1>1, EndIs
<1>3. NumNodes' = NumNodes /\ Base' = NumNodes /\ NumNodes \in Nat /\ Base \in Nat
  BY <1>1, <1>2, EndStruct, Numbers
<1>4. /\ FragType(f, NumNodes) /\ FragFlushed(frag, f, Ctx.node) /\ stack # <<>>
      /\ frag' = [f EXCEPT !.access = <<>>, !.acc = NoAccesses]
      /\ wrote' = wrote /\ need' = need /\ whole' = whole /\ GraphDone(graph', f, m)
  BY <1>2 DEF EndStep, FlushedAll, OnEndCmd, ghosts
<1>5. Cur = Ctx.node
  BY <1>1, <1>4, CurIs
<1>6. PICK c, N, wf, H, nd : c = Cur /\ N = NumNodes /\ wf = wrote.field /\ H = whole /\ nd = need
  OBVIOUS
<1>7. FragType(frag, N) /\ FragType(f, N) /\ FragFlushed(frag, f, c) /\ FieldsHold(frag, c, wf, H, nd)
  BY <1>1, <1>4, <1>5, <1>6, Zenon DEF FieldInv
<1>8. /\ \A k : FieldsHold(f, k, wf, H, nd)
      /\ \A n, k : FieldDep(frag, c, n, k) /\ k # 0 => k \in DepsOf(f.acc, n)
  BY <1>7, FlushKeeps
<1>9. \A g : FragPending(f, g) = {}
  <2>1. Listed(frag)
    BY <1>7 DEF FieldsHold
  <2>2. FragPending(f, Complete) = {} /\ \A g \in Frags : FragDone(frag, f, c, g)
    BY <1>7, <2>1 DEF FragFlushed
  <2>3. \A g \in FragSet : FragPending(f, g) = {}
    BY <2>2 DEF FragDone, FragSet
  <2>4. DOMAIN f.access \subseteq FragSet
    BY <1>7 DEF FragType
  <2>5. QED
    BY <2>3, <2>4 DEF FragPending
<1>10. f.pending = <<>>
  BY <1>7 DEF FragFlushed
<1>11. PICK v : v = frag'
  OBVIOUS
<1>12. v.access = <<>> /\ v.writes = f.writes
  <2>1. v = [f EXCEPT !.access = <<>>, !.acc = NoAccesses]
    BY <1>4, <1>11
  <2>2. QED
    BY <1>3, <1>4, <1>10, <2>1, FragReset
<1>13. FieldsHold(v, Cur', wf, H, nd)
  <2>1. PICK k : k = Cur'
    OBVIOUS
  <2>2. FieldsHold(f, c, wf, H, nd)
    BY <1>8
  <2>3. FieldsHold(v, k, wf, H, nd)
    BY <1>9, <1>12, <2>2, NothingHeld
  <2>4. QED
    BY <2>1, <2>3
<1>14. FieldsHold(frag', Cur', wrote'.field, whole', need')
  BY <1>4, <1>6, <1>11, <1>13, Zenon
<1>15. FieldNeeds'
  <2>1. SUFFICES ASSUME NEW x \in need, x[1] = "field"
                 PROVE  /\ x[2] \in 1 .. NumNodes' /\ x[3] \in 1 .. NumNodes'
                        /\ IF x[2] <= Base' THEN x[3] \in graph'.deps[x[2]] ELSE FieldDep(frag', Cur', x[2], x[3])
    BY <1>4, Zenon DEF FieldNeeds
  <2>2. /\ x[2] \in 1 .. NumNodes /\ x[3] \in 1 .. NumNodes
        /\ IF x[2] <= Base THEN x[3] \in graph.deps[x[2]] ELSE FieldDep(frag, Cur, x[2], x[3])
    BY <2>1 DEF FieldInv, FieldNeeds
  <2>3. PICK n, k : n = x[2] /\ k = x[3]
    OBVIOUS
  <2>4. n \in 1 .. NumNodes /\ k \in 1 .. NumNodes /\ n <= NumNodes /\ k # 0
    BY <1>3, <2>2, <2>3
  <2>5. k \in graph'.deps[n]
    <3>1. CASE n <= Base
      <4>1. k \in graph.deps[n] /\ n \in 1 .. Base
        BY <1>3, <2>2, <2>3, <2>4, <3>1
      <4>2. QED
        BY <1>4, <4>1 DEF GraphDone
    <3>2. CASE ~(n <= Base)
      <4>1. k \in DepsOf(f.acc, n)
        BY <1>6, <1>8, <2>2, <2>3, <2>4, <3>2
      <4>2. n \in Base + 1 .. NumNodes
        BY <1>3, <2>4, <3>2
      <4>3. n - Base \in 1 .. Len(pendingNodes) /\ n = Base + (n - Base)
        BY <1>1, <4>2, Numbers
      <4>4. pendingNodes[n - Base].node = n
        BY <1>1, <4>3 DEF Struct, PendingOK
      <4>5. k \in OwnDeps(pendingNodes[n - Base], f, m)
        BY <4>1, <4>4 DEF OwnDeps
      <4>6. OwnDeps(pendingNodes[n - Base], f, m) \subseteq graph'.deps[n]
        BY <1>4, <4>2 DEF GraphDone
      <4>7. QED
        BY <4>5, <4>6
    <3>3. QED
      BY <3>1, <3>2
  <2>6. QED
    BY <1>3, <2>3, <2>4, <2>5, Zenon
<1>16. QED
  BY <1>14, <1>15, Zenon DEF FieldInv

\* The same, when dead code is eliminated.
LEMMA DCEField ==
  ASSUME Inv, FieldInv, NEW s \in Requests, DCECapture(s)
  PROVE  FieldInv'
<1>1. Struct
  BY InvTyped
<1>2. NumNodes' = NumNodes /\ Base' = Base /\ Cur' = Cur /\ UNCHANGED <<frag, graph, wrote, whole, need>> /\ NumNodes \in Nat
  <2>1. whole' = whole
    BY DEF DCECapture, ghosts
  <2>2. QED
    BY <1>1, <2>1, DCEKeeps, Numbers
<1>3. FieldsHold(frag', Cur', wrote'.field, whole', need')
  BY <1>2, Zenon DEF FieldInv
<1>4. \A n, m : FieldDep(frag, Cur, n, m) /\ m # 0 => FieldDep(frag', Cur', n, m)
  BY <1>2, Zenon
<1>5. NumNodes' \in Nat /\ NumNodes <= NumNodes' /\ \A n \in 1 .. NumNodes : graph'.deps[n] = graph.deps[n]
  BY <1>2
<1>6. QED
  BY <1>1, <1>2, <1>3, <1>4, <1>5, FieldMoves

\* The same, when nothing happens.
LEMMA FieldStutters ==
  ASSUME Inv, FieldInv, UNCHANGED vars
  PROVE  FieldInv'
<1>1. Struct
  BY InvTyped
<1>2. UNCHANGED <<stack, frag, graph, pendingNodes, wrote, whole, need>>
  BY DEF vars
<1>3. NumNodes' = NumNodes
  BY <1>2 DEF NumNodes
<1>4. Base' = Base /\ Cur' = Cur /\ NumNodes \in Nat
  BY <1>1, <1>2, <1>3, Numbers DEF Base, Cur, Ctx
<1>5. FieldsHold(frag', Cur', wrote'.field, whole', need')
  BY <1>2, <1>4, Zenon DEF FieldInv
<1>6. \A n, m : FieldDep(frag, Cur, n, m) /\ m # 0 => FieldDep(frag', Cur', n, m)
  BY <1>2, <1>4, Zenon
<1>7. NumNodes' \in Nat /\ NumNodes <= NumNodes' /\ \A n \in 1 .. NumNodes : graph'.deps[n] = graph.deps[n]
  BY <1>2, <1>3, <1>4
<1>8. QED
  BY <1>1, <1>2, <1>4, <1>5, <1>6, <1>7, FieldMoves

\* The invariant of fields holds at first.
LEMMA FieldInit ==
  ASSUME Init
  PROVE  FieldInv
<1>1. need = {} /\ wrote.field = [f \in Frags |-> 0]
  BY DEF Init
<1>2. frag = [access |-> <<>>, pending |-> <<>>, acc |-> NoAccesses,
              writes |-> [frags |-> <<>>, nodeSlice |-> <<>>, nodeSet |-> <<>>]]
  BY DEF Init, NewFragWatcher
<1>3. frag.access = <<>> /\ frag.writes.frags = <<>> /\ DOMAIN <<>> = {}
  BY <1>2
<1>4. \A f : FragPending(frag, f) = {} /\ FragWriter(frag, f) = 0
  BY <1>3 DEF FragPending, FragWriter
<1>5. Listed(frag) /\ WholeAlone(frag) /\ WholesOK(frag, wrote.field, whole, need)
  BY <1>3, <1>4 DEF Listed, WholeAlone, WrittenAt, WholesOK
<1>6. \A f \in Frags : EntriesOK(frag, Cur, wrote.field[f], whole, f)
  BY <1>3 DEF EntriesOK
<1>7. \A f \in Frags : WriterAt(frag, Cur, wrote.field[f], f)
  BY <1>1, <1>4 DEF WriterAt
<1>8. FieldNeeds
  BY <1>1 DEF FieldNeeds
<1>9. QED
  BY <1>5, <1>6, <1>7, <1>8 DEF FieldInv, FieldsHold

\* Every step keeps the invariant of fields, if whole objects are not
\* written.
THEOREM FieldStep ==
  Inv /\ FieldInv /\ [Next]_vars => FieldInv'
<1>1. SUFFICES ASSUME Inv, FieldInv, Next PROVE FieldInv'
  BY FieldStutters
<1>2. CASE OnBeginCmd
  BY <1>1, <1>2, BeginField
<1>3. CASE OnEndCmd
  BY <1>1, <1>3, EndField
<1>4. CASE OnEndSubCmd
  BY <1>1, <1>4, EndSubField
<1>5. CASE \E o \in ObsLists : OnReadObs(o) \/ OnWriteObs(o)
  BY <1>1, <1>5, ObsField
<1>6. CASE \E p \in Pools, x \in Spans : OnReadSlice(p, x) \/ OnWriteSlice(p, x)
  BY <1>1, <1>6, ReadSliceField, WriteSliceField
<1>7. CASE \E f \in Frags \cup {Complete} : ReadFrag(f) \/ WriteFrag(f)
  BY <1>1, <1>7, ReadFragField, WriteFragField DEF FragSet
<1>8. CASE \E r \in Records : OnRecordSubCmd(r) \/ OnBeginSubCmd(r) \/ OnBeginMergedSubCmd(r)
  BY <1>1, <1>8, RecordField, BeginSubField, MergedField
<1>9. CASE \E d \in DepIDs : \/ OpenForwardDependency(d) \/ CloseForwardDependency(d)
                             \/ DropForwardDependency(d)
  BY <1>1, <1>9, OpenField, CloseField, DropField
<1>10. CASE \E s \in Requests : DCECapture(s)
  BY <1>1, <1>10, DCEField
<1>11. QED
  BY <1>1, <1>2, <1>3, <1>4, <1>5, <1>6, <1>7, <1>8, <1>9, <1>10 DEF Next

\* It gives the dependencies of fields.
LEMMA InvField ==
  ASSUME Inv, FieldInv
  PROVE  FieldDepsSound
<1>1. Struct
  BY InvTyped
<1>2. SUFFICES ASSUME NEW x \in need, x[1] = "field", Settled(x[2]), Settled(x[3])
               PROVE  x[3] \in graph.deps[x[2]]
  BY DEF FieldDepsSound, InGraph
<1>3. /\ x[2] \in 1 .. NumNodes
      /\ IF x[2] <= Base THEN x[3] \in graph.deps[x[2]] ELSE FieldDep(frag, Cur, x[2], x[3])
  BY <1>2 DEF FieldInv, FieldNeeds
<1>4. x[2] <= Base
  <2>1. x[2] \in 1 .. Base
    BY <1>1, <1>2, <1>3, SettledIs
  <2>2. Base \in Nat
    BY <1>1, Numbers
  <2>3. QED
    BY <2>1, <2>2
<1>5. QED
  BY <1>3, <1>4, Zenon

\* A node that reads a field depends on the node that wrote it last, if whole
\* objects are not written: OnReadFrag and OnWriteFrag leave no dependency
\* out.
THEOREM FieldDependencies == Spec => []FieldDepsSound
<1>1. Spec => []FieldInv
  BY FieldStep, GraphInv, FieldInit, PTL DEF Spec
<1>2. QED
  BY <1>1, GraphInv, InvField, PTL

-----------------------------------------------------------------------------
(***************************************************************************)
(* The order of the nodes and the needs through the actions, what dead     *)
(* code elimination relies on.                                             *)
(***************************************************************************)
\* The first N nodes belong to commands up to C, in their order, and the node
\* of a command comes before those of its subcommands and observations.
Ordered(nodes, N, C) ==
  /\ \A n \in 1 .. N : nodes[n].cmd \in 1 .. C
  /\ \A n, m \in 1 .. N : n <= m => nodes[n].cmd <= nodes[m].cmd
  /\ \A n, m \in 1 .. N : nodes[n].kind = "cmd" /\ nodes[m].cmd = nodes[n].cmd => n <= m

\* Node m is the command or subcommand that subcommand n is in, and n depends
\* on it as soon as it has dependencies.
IsParent(nodes, m, n) == m \in 1 .. n - 1 /\ nodes[m].cmd = nodes[n].cmd /\ nodes[m].kind # "obs"

\* Where the parent of subcommand n is found.
ParentAt(n) ==
  IF n <= Base THEN \E m \in graph.deps[n] : IsParent(graph.nodes, m, n)
  ELSE IsParent(graph.nodes, pendingNodes[n - Base].parent, n)

\* Every subcommand has its parent.
Parents == \A n \in 1 .. NumNodes : graph.nodes[n].kind = "sub" => ParentAt(n)

\* Node n is a command or subcommand, and m is not an observation of a later
\* command.
NeedAt(n, m) ==
  /\ n \in 1 .. NumNodes /\ m \in 1 .. NumNodes /\ ~IsObs(n)
  /\ IsObs(m) => graph.nodes[m].cmd <= graph.nodes[n].cmd

\* Subcommand n depends on m, or will when its command ends.
Recorded(n, m) ==
  IF n <= Base THEN m \in graph.deps[n]
  ELSE m = pendingNodes[n - Base].parent \/ m \in pendingNodes[n - Base].inits

\* A need is of a known kind, between nodes, and a recorded one is noted.
NeedOK(x) ==
  /\ x[1] \in {"memory", "field", "object", "whole", "forward", "record"}
  /\ x[1] \notin {"object", "whole"} => NeedAt(x[2], x[3])
  /\ x[1] = "record" => Recorded(x[2], x[3])

\* All needs are.
NeedsOK == \A x \in need : NeedOK(x)

\* No observation opens a forward dependency.
OpenersIn(nodes, pairs) == \A i \in 1 .. Len(pairs) : nodes[pairs[i].open].kind # "obs"

\* The openers of the forward watcher's pairs.
Openers == OpenersIn(graph.nodes, forward.pairs)

\* The part of the invariant that dead code elimination relies on.
OrderInv == Ordered(graph.nodes, NumNodes, cmds) /\ Parents /\ NeedsOK /\ Openers

\* The nodes, their dependencies and what is pending of them are kept.
NodesKept ==
  /\ NumNodes' \in Nat /\ NumNodes <= NumNodes' /\ Base' = Base
  /\ \A n \in 1 .. NumNodes : graph'.nodes[n] = graph.nodes[n] /\ graph'.deps[n] = graph.deps[n]
  /\ \A i \in 1 .. Len(pendingNodes) :
       /\ pendingNodes'[i].parent = pendingNodes[i].parent
       /\ pendingNodes[i].inits \subseteq pendingNodes'[i].inits

\* A node above Base is pending.
LEMMA PendingIndex ==
  ASSUME Struct, NEW n \in 1 .. NumNodes, ~(n <= Base)
  PROVE  n - Base \in 1 .. Len(pendingNodes)
<1>1. NumNodes \in Nat /\ Base \in Nat /\ NumNodes = Base + Len(pendingNodes) /\ Len(pendingNodes) \in Nat
  BY Numbers
<1>2. PICK N \in Nat, B \in Nat, L \in Nat : N = NumNodes /\ B = Base /\ L = Len(pendingNodes)
  BY <1>1
<1>3. N = B + L /\ n \in 1 .. N /\ ~(n <= B)
  BY <1>1, <1>2, Zenon
<1>4. n - B \in 1 .. L
  BY <1>3
<1>5. QED
  BY <1>2, <1>4, Zenon

\* A step that keeps the nodes keeps a subcommand's parent.
LEMMA ParentKept ==
  ASSUME Struct, NodesKept, NEW n \in 1 .. NumNodes, ParentAt(n)
  PROVE  ParentAt(n)'
<1>1. NumNodes \in Nat /\ Base \in Nat /\ Base' = Base
  BY Numbers DEF NodesKept
<1>2. \A m : IsParent(graph.nodes, m, n) => IsParent(graph'.nodes, m, n)
  <2>1. SUFFICES ASSUME NEW m, IsParent(graph.nodes, m, n) PROVE IsParent(graph'.nodes, m, n)
    OBVIOUS
  <2>2. m \in 1 .. n - 1 /\ m \in 1 .. NumNodes
    BY <1>1, <2>1 DEF IsParent
  <2>3. graph'.nodes[m] = graph.nodes[m] /\ graph'.nodes[n] = graph.nodes[n]
    BY <2>2 DEF NodesKept
  <2>4. QED
    BY <2>1, <2>3, Zenon DEF IsParent
<1>3. CASE n <= Base
  <2>1. PICK m \in graph.deps[n] : IsParent(graph.nodes, m, n)
    BY <1>3 DEF ParentAt
  <2>2. m \in graph'.deps[n] /\ IsParent(graph'.nodes, m, n)
    BY <1>2, <2>1 DEF NodesKept
  <2>3. QED
    BY <1>1, <1>3, <2>2, Zenon DEF ParentAt
<1>4. CASE ~(n <= Base)
  <2>1. pendingNodes'[n - Base].parent = pendingNodes[n - Base].parent
    <3>1. n - Base \in 1 .. Len(pendingNodes)
      BY <1>4, PendingIndex
    <3>2. QED
      BY <3>1, Zenon DEF NodesKept
  <2>2. IsParent(graph'.nodes, pendingNodes'[n - Base].parent, n)
    <3>1. IsParent(graph.nodes, pendingNodes[n - Base].parent, n)
      BY <1>4, Zenon DEF ParentAt
    <3>2. QED
      BY <1>2, <2>1, <3>1, Zenon
  <2>3. QED
    BY <1>1, <1>4, <2>2, Zenon DEF ParentAt
<1>5. QED
  BY <1>3, <1>4

\* A step that keeps the nodes keeps what is known of a need.
LEMMA NeedKept ==
  ASSUME Struct, NodesKept, NEW x, NeedOK(x), x[2] \in 1 .. NumNodes \/ x[1] # "record"
  PROVE  NeedOK(x)'
<1>1. NumNodes \in Nat /\ Base \in Nat /\ Base' = Base
  BY Numbers DEF NodesKept
<1>2. ASSUME x[1] \notin {"object", "whole"} PROVE NeedAt(x[2], x[3])'
  <2>1. NeedAt(x[2], x[3])
    BY <1>2 DEF NeedOK
  <2>2. PICK n, m : n = x[2] /\ m = x[3]
    OBVIOUS
  <2>3. /\ n \in 1 .. NumNodes /\ m \in 1 .. NumNodes /\ ~IsObs(n)
        /\ IsObs(m) => graph.nodes[m].cmd <= graph.nodes[n].cmd
    BY <2>1, <2>2 DEF NeedAt
  <2>4. graph'.nodes[m] = graph.nodes[m] /\ graph'.nodes[n] = graph.nodes[n]
    BY <2>3 DEF NodesKept
  <2>5. n \in 1 .. NumNodes' /\ m \in 1 .. NumNodes'
    BY <1>1, <2>3 DEF NodesKept
  <2>6. QED
    BY <2>2, <2>3, <2>4, <2>5, Zenon DEF NeedAt, IsObs
<1>3. ASSUME x[1] = "record" PROVE Recorded(x[2], x[3])'
  <2>1. PICK n, m : n = x[2] /\ m = x[3]
    OBVIOUS
  <2>2. Recorded(n, m) /\ n \in 1 .. NumNodes
    BY <1>3, <2>1 DEF NeedOK
  <2>3. CASE n <= Base
    <3>1. m \in graph'.deps[n]
      BY <2>2, <2>3 DEF Recorded, NodesKept
    <3>2. QED
      BY <1>1, <2>1, <2>3, <3>1, Zenon DEF Recorded
  <2>4. CASE ~(n <= Base)
    <3>1. m = pendingNodes[n - Base].parent \/ m \in pendingNodes[n - Base].inits
      BY <2>2, <2>4 DEF Recorded
    <3>2. m = pendingNodes'[n - Base].parent \/ m \in pendingNodes'[n - Base].inits
      <4>1. n - Base \in 1 .. Len(pendingNodes)
        BY <2>2, <2>4, PendingIndex
      <4>2. QED
        BY <3>1, <4>1 DEF NodesKept
    <3>3. QED
      BY <1>1, <2>1, <2>4, <3>2, Zenon DEF Recorded
  <2>5. QED
    BY <2>3, <2>4
<1>4. QED
  BY <1>2, <1>3, Zenon DEF NeedOK

\* A step keeps OrderInv when what it adds satisfies it.
LEMMA OrderMoves ==
  ASSUME Struct, OrderInv, NodesKept, Ordered(graph'.nodes, NumNodes', cmds'), Openers',
         \A n \in NumNodes + 1 .. NumNodes' : graph'.nodes[n].kind = "sub" => ParentAt(n)',
         \A x \in need' : x \in need \/ NeedOK(x)'
  PROVE  OrderInv'
<1>1. NumNodes \in Nat /\ NumNodes' \in Nat
  BY Numbers DEF NodesKept
<1>2. Parents'
  <2>1. SUFFICES ASSUME NEW n \in 1 .. NumNodes', graph'.nodes[n].kind = "sub" PROVE ParentAt(n)'
    BY Zenon DEF Parents
  <2>2. CASE n \in 1 .. NumNodes
    <3>1. graph'.nodes[n] = graph.nodes[n]
      BY <2>2 DEF NodesKept
    <3>2. ParentAt(n)
      BY <2>1, <2>2, <3>1 DEF OrderInv, Parents
    <3>3. QED
      BY <2>2, <3>2, ParentKept
  <2>3. CASE n \notin 1 .. NumNodes
    <3>1. n \in NumNodes + 1 .. NumNodes'
      BY <1>1, <2>3
    <3>2. QED
      BY <2>1, <3>1
  <2>4. QED
    BY <2>2, <2>3
<1>3. NeedsOK'
  <2>1. SUFFICES ASSUME NEW x \in need' PROVE NeedOK(x)'
    BY Zenon DEF NeedsOK
  <2>2. CASE x \in need
    <3>1. NeedOK(x)
      BY <2>2 DEF OrderInv, NeedsOK
    <3>2. x[2] \in 1 .. NumNodes \/ x[1] # "record"
      BY <3>1 DEF NeedOK, NeedAt
    <3>3. QED
      BY <3>1, <3>2, NeedKept
  <2>3. QED
    BY <2>2
<1>4. QED
  BY <1>2, <1>3, Zenon DEF OrderInv

\* The current node belongs to the command that runs.
LEMMA CtxCmd ==
  ASSUME Struct, stack # <<>>
  PROVE  graph.nodes[Ctx.node].cmd = cmds
<1>1. Ctx.node \in 1 .. NumNodes /\ Ctx.node \in Base + 1 .. NumNodes
  BY CtxIs
<1>2. PICK N \in Nat, B \in Nat, L \in Nat : N = NumNodes /\ B = Base /\ L = Len(pendingNodes) /\ N = B + L
  BY Numbers
<1>2a. PICK c : c = Ctx.node
  OBVIOUS
<1>3. c - B \in 1 .. L /\ B + (c - B) = c
  BY <1>1, <1>2, <1>2a
<1>4. \A i \in 1 .. L : graph.nodes[B + i].cmd = cmds
  BY <1>2 DEF Struct, PendingOK
<1>5. graph.nodes[B + (c - B)].cmd = cmds
  BY <1>3, <1>4
<1>6. QED
  BY <1>2a, <1>3, <1>5

\* A step within a command.
LEMMA OrderFrame ==
  ASSUME Inv, OrderInv, InCommand, Openers', \A x \in need' : x \in need \/ NeedOK(x)',
         \A i \in 1 .. Len(pendingNodes) : /\ pendingNodes'[i].parent = pendingNodes[i].parent
                                           /\ pendingNodes[i].inits \subseteq pendingNodes'[i].inits
  PROVE  OrderInv'
<1>1. Struct
  BY InvTyped
<1>2. NumNodes' = NumNodes /\ Base' = Base /\ NumNodes \in Nat /\ graph' = graph /\ cmds' = cmds
  BY <1>1, CommandKeeps DEF InCommand
<1>3. NodesKept
  BY <1>2 DEF NodesKept
<1>4. Ordered(graph'.nodes, NumNodes', cmds')
  BY <1>2, Zenon DEF OrderInv
<1>5. \A n \in NumNodes + 1 .. NumNodes' : graph'.nodes[n].kind = "sub" => ParentAt(n)'
  BY <1>2
<1>6. QED
  BY <1>1, <1>3, <1>4, <1>5, OrderMoves

\* The same, without forward dependencies and recorded subcommands.
LEMMA OrderPlain ==
  ASSUME Inv, OrderInv, InCommand, forward' = forward, pendingNodes' = pendingNodes,
         \A x \in need' : x \in need \/ NeedOK(x)'
  PROVE  OrderInv'
<1>1. Struct
  BY InvTyped
<1>2. graph' = graph
  BY <1>1, CommandKeeps
<1>3. Openers'
  BY <1>2, Zenon DEF OrderInv, Openers
<1>4. QED
  BY <1>3, OrderFrame

\* What the current node needs of a node that is not later.
LEMMA NewNeed ==
  ASSUME Inv, OrderInv, InCommand, NEW x, x[1] \in {"memory", "field", "object", "whole"},
         x[2] = Ctx.node, x[1] \notin {"object", "whole"} => x[3] \in 1 .. NumNodes
  PROVE  NeedOK(x)'
<1>1. Struct
  BY InvTyped
<1>2. NumNodes' = NumNodes /\ NumNodes \in Nat /\ graph' = graph /\ stack # <<>>
  BY <1>1, CommandKeeps
<1>3. Ctx.node \in 1 .. NumNodes /\ ~IsObs(Ctx.node) /\ graph.nodes[Ctx.node].cmd = cmds
  BY <1>1, <1>2, CtxIs, CtxCmd
<1>4. \A n \in 1 .. NumNodes : graph.nodes[n].cmd <= cmds
  <2>1. cmds \in Nat
    BY <1>1, Numbers
  <2>2. QED
    BY <2>1 DEF OrderInv, Ordered
<1>5. ASSUME x[1] \notin {"object", "whole"} PROVE NeedAt(x[2], x[3])'
  <2>1. PICK c : c = Ctx.node
    OBVIOUS
  <2>2. /\ c \in 1 .. NumNodes' /\ x[3] \in 1 .. NumNodes' /\ graph'.nodes[c].kind # "obs"
        /\ graph'.nodes[x[3]].cmd <= graph'.nodes[c].cmd
    BY <1>2, <1>3, <1>4, <1>5, <2>1, Zenon DEF IsObs
  <2>3. QED
    BY <2>1, <2>2, Zenon DEF NeedAt, IsObs
<1>6. x[1] # "record"
  OBVIOUS
<1>7. QED
  BY <1>5, <1>6, Zenon DEF NeedOK

\* What Needs gives: needs of the current node.
LEMMA NeedsAre ==
  ASSUME NEW kind, NEW from, NEW x \in Needs(kind, from)
  PROVE  x[1] = kind /\ x[2] = Ctx.node
BY DEF Needs

\* OnReadSlice keeps OrderInv.
LEMMA ReadSliceOrder ==
  ASSUME Inv, OrderInv, Inv', NEW p \in Pools, NEW y \in Spans, OnReadSlice(p, y)
  PROVE  OrderInv'
<1>1. InCommand /\ Struct
  BY InvTyped, ReadSliceIn
<1>2. forward' = forward /\ pendingNodes' = pendingNodes /\ \E from : need' = need \cup Needs("memory", from)
  BY DEF OnReadSlice
<1>3. PICK from : need' = need \cup Needs("memory", from)
  BY <1>2
<1>4. NumNodes' = NumNodes
  BY <1>1, CommandKeeps
<1>5. ASSUME NEW x \in need', x \notin need PROVE NeedOK(x)'
  <2>1. x[1] = "memory" /\ x[2] = Ctx.node
    BY <1>3, <1>5, NeedsAre
  <2>2. x[3] \in 1 .. NumNodes
    <3>1. MemNeeds'
      BY DEF Inv, MemInv
    <3>2. x[3] \in 1 .. NumNodes'
      BY <1>5, <2>1, <3>1, Zenon DEF MemNeeds
    <3>3. QED
      BY <1>4, <3>2
  <2>3. QED
    BY <1>1, <2>1, <2>2, NewNeed
<1>6. QED
  BY <1>1, <1>2, <1>5, OrderPlain

\* OnWriteSlice keeps OrderInv.
LEMMA WriteSliceOrder ==
  ASSUME Inv, OrderInv, NEW p \in Pools, NEW y \in Spans, OnWriteSlice(p, y)
  PROVE  OrderInv'
<1>1. InCommand
  BY InvTyped, WriteSliceIn
<1>2. forward' = forward /\ pendingNodes' = pendingNodes /\ need' = need
  BY DEF OnWriteSlice
<1>3. QED
  BY <1>1, <1>2, OrderPlain

\* ReadFrag keeps OrderInv.
LEMMA ReadFragOrder ==
  ASSUME Inv, OrderInv, FieldInv', NEW f, ReadFrag(f)
  PROVE  OrderInv'
<1>1. InCommand /\ Struct
  BY InvTyped, ReadFragIn
<1>2. /\ forward' = forward /\ pendingNodes' = pendingNodes
      /\ \E kind \in {"field", "object", "whole"} : \E from : need' = need \cup Needs(kind, from)
  BY DEF ReadFrag, FieldKind
<1>3. PICK kind \in {"field", "object", "whole"} : \E from : need' = need \cup Needs(kind, from)
  BY <1>2
<1>4. PICK from : need' = need \cup Needs(kind, from)
  BY <1>3
<1>5. NumNodes' = NumNodes
  BY <1>1, CommandKeeps
<1>6. ASSUME NEW x \in need', x \notin need PROVE NeedOK(x)'
  <2>1. x[1] = kind /\ x[2] = Ctx.node
    BY <1>4, <1>6, NeedsAre
  <2>2. ASSUME x[1] \notin {"object", "whole"} PROVE x[3] \in 1 .. NumNodes
    <3>1. x[1] = "field"
      BY <2>1, <2>2
    <3>2. x[3] \in 1 .. NumNodes'
      BY <1>6, <3>1, Zenon DEF FieldInv, FieldNeeds
    <3>3. QED
      BY <1>5, <3>2
  <2>3. x[1] \in {"memory", "field", "object", "whole"}
    BY <2>1
  <2>4. QED
    BY <1>1, <2>1, <2>2, <2>3, NewNeed
<1>7. QED
  BY <1>1, <1>2, <1>6, OrderPlain

\* WriteFrag keeps OrderInv.
LEMMA WriteFragOrder ==
  ASSUME Inv, OrderInv, NEW f, WriteFrag(f)
  PROVE  OrderInv'
<1>1. InCommand
  BY InvTyped, WriteFragIn
<1>2. forward' = forward /\ pendingNodes' = pendingNodes /\ need' = need
  BY DEF WriteFrag
<1>3. QED
  BY <1>1, <1>2, OrderPlain

\* OnRecordSubCmd keeps OrderInv.
LEMMA RecordOrder ==
  ASSUME Inv, OrderInv, NEW r \in Records, OnRecordSubCmd(r)
  PROVE  OrderInv'
<1>1. InCommand
  BY InvTyped, RecordIn
<1>2. forward' = forward /\ pendingNodes' = pendingNodes /\ need' = need
  BY DEF OnRecordSubCmd, ghosts
<1>3. QED
  BY <1>1, <1>2, OrderPlain

\* OnBeginMergedSubCmd keeps OrderInv.
LEMMA MergedOrder ==
  ASSUME Inv, OrderInv, NEW r \in Records, OnBeginMergedSubCmd(r)
  PROVE  OrderInv'
<1>1. Struct
  BY InvTyped
<1>2. /\ InCommand
      /\ \A i \in 1 .. Len(pendingNodes) :
           pendingNodes'[i] = IF pendingNodes[i].node = Ctx.node
                              THEN [pendingNodes[i] EXCEPT !.inits = @ \cup RecordNode(r)]
                              ELSE pendingNodes[i]
  BY <1>1, MergedIn
<1>3. /\ NumNodes' = NumNodes /\ NumNodes \in Nat /\ Base' = Base /\ graph' = graph /\ stack # <<>>
  BY <1>1, <1>2, CommandKeeps
<1>4. forward' = forward /\ need' = need \cup RecordNeeds(Ctx.node, r)
  BY DEF OnBeginMergedSubCmd
<1>5. \A i \in 1 .. Len(pendingNodes) :
        /\ pendingNodes'[i].parent = pendingNodes[i].parent
        /\ pendingNodes[i].inits \subseteq pendingNodes'[i].inits
        /\ pendingNodes[i].node = Ctx.node => RecordNode(r) \subseteq pendingNodes'[i].inits
  <2>1. TAKE i \in 1 .. Len(pendingNodes)
  <2>2. PICK p \in PendingType : p = pendingNodes[i]
    <3>1. pendingNodes \in Seq(PendingType)
      BY <1>1 DEF Struct, PendingOK
    <3>2. QED
      BY <3>1
  <2>3. PICK b : b = [p EXCEPT !.inits = @ \cup RecordNode(r)]
    OBVIOUS
  <2>4. b.parent = p.parent /\ b.inits = p.inits \cup RecordNode(r)
    <3>1. RecordNode(r) \subseteq Nat
      BY <1>1, <1>3, RecordNodes
    <3>2. QED
      BY <2>3, <3>1 DEF PendingType
  <2>5. pendingNodes'[i] = IF p.node = Ctx.node THEN b ELSE p
    BY <1>2, <2>2, <2>3
  <2>6. QED
    BY <2>2, <2>4, <2>5
<1>6. Openers'
  BY <1>3, <1>4, Zenon DEF OrderInv, Openers
<1>7. ASSUME NEW x \in RecordNeeds(Ctx.node, r) PROVE NeedOK(x)'
  <2>1. PICK m \in RecordNode(r) : x = <<"record", Ctx.node, m>>
    BY <1>7 DEF RecordNeeds
  <2>2. m \in 1 .. NumNodes
    BY <1>1, RecordNodes
  <2>3. PICK c : c = Ctx.node
    OBVIOUS
  <2>4. x[1] = "record" /\ x[2] = c /\ x[3] = m
    BY <2>1, <2>3
  <2>5. c \in 1 .. NumNodes /\ c \in Base + 1 .. NumNodes /\ ~IsObs(c) /\ graph.nodes[c].cmd = cmds
    BY <1>1, <1>3, <2>3, CtxIs, CtxCmd
  <2>6. graph.nodes[m].cmd <= cmds
    <3>1. cmds \in Nat
      BY <1>1, Numbers
    <3>2. QED
      BY <2>2, <3>1 DEF OrderInv, Ordered
  <2>7. NeedAt(c, m)'
    <3>1. /\ c \in 1 .. NumNodes' /\ m \in 1 .. NumNodes' /\ graph'.nodes[c].kind # "obs"
          /\ graph'.nodes[m].cmd <= graph'.nodes[c].cmd
      BY <1>3, <2>2, <2>5, <2>6, Zenon DEF IsObs
    <3>2. QED
      BY <3>1, Zenon DEF NeedAt, IsObs
  <2>8. Recorded(c, m)'
    <3>1. c - Base \in 1 .. Len(pendingNodes) /\ pendingNodes[c - Base].node = c
      BY <1>1, <2>5, PendingAt
    <3>2. m \in pendingNodes'[c - Base].inits
      BY <1>5, <2>1, <2>3, <3>1
    <3>3. ~(c <= Base)
      <4>1. Base \in Nat
        BY <1>1, Numbers
      <4>2. QED
        BY <1>3, <2>5, <4>1
    <3>4. QED
      BY <1>3, <3>2, <3>3, Zenon DEF Recorded
  <2>9. QED
    BY <2>4, <2>7, <2>8, Zenon DEF NeedOK
<1>8. \A x \in need' : x \in need \/ NeedOK(x)'
  BY <1>4, <1>7
<1>9. QED
  BY <1>2, <1>5, <1>6, <1>8, OrderFrame

\* An action of the forward watcher keeps OrderInv when its pairs keep their
\* openers.
LEMMA ForwardOrder ==
  ASSUME Inv, OrderInv, InCommand, pendingNodes' = pendingNodes, OpenersIn(graph.nodes, forward'.pairs),
         \A x \in need' : x \in need \/ NeedOK(x)'
  PROVE  OrderInv'
<1>1. graph' = graph
  BY InvTyped, CommandKeeps
<1>2. Openers'
  BY <1>1, Zenon DEF Openers
<1>3. QED
  BY <1>2, OrderFrame

\* OpenForwardDependency keeps OrderInv.
LEMMA OpenOrder ==
  ASSUME Inv, OrderInv, NEW d, OpenForwardDependency(d)
  PROVE  OrderInv'
<1>1. Struct /\ FwdInv /\ InCommand
  BY InvTyped, OpenIn
<1>2. NumNodes \in Nat /\ Cur = Ctx.node /\ Cur \in 1 .. NumNodes /\ stack # <<>>
  BY <1>1, CommandKeeps
<1>3. PICK w : w = forward
  OBVIOUS
<1>4. ForwardType(w, NumNodes) /\ Reloaded(forward, Ctx.node) = w
  BY <1>1, <1>2, <1>3, NothingReloaded DEF FwdInv, ForwardOK
<1>5. /\ UNCHANGED <<pendingNodes, need>>
      /\ forward' = Access([w EXCEPT !.pairs = Append(@, [open |-> Ctx.node, close |-> 0]),
                                     !.open = IF d \in DOMAIN @ THEN @ ELSE Set(@, d, Len(w.pairs) + 1)],
                           Len(w.pairs) + 1, "open")
  BY <1>4, Zenon DEF OpenForwardDependency, ghosts
<1>6. Opened(w, forward', Ctx.node)
  BY <1>2, <1>4, <1>5, OpenIs
<1>7. Wider(forward'.pairs, w.pairs, Cur)
  BY <1>2, <1>4, <1>6, OpenedPairs
<1>8. OpenersIn(graph.nodes, forward'.pairs)
  <2>1. PICK k \in Nat : k = Len(w.pairs)
    BY <1>2, <1>4, OpensAre DEF OpensIn
  <2>2. /\ Len(forward'.pairs) = k + 1 /\ \A i \in 1 .. k : forward'.pairs[i] = w.pairs[i]
        /\ forward'.pairs[k + 1] = [open |-> Cur, close |-> 0]
    BY <1>7, <2>1 DEF Wider
  <2>3. graph.nodes[Cur].kind # "obs"
    BY <1>1, <1>2, CtxIs DEF IsObs
  <2>4. \A i \in 1 .. k : graph.nodes[w.pairs[i].open].kind # "obs"
    BY <1>3, <2>1 DEF OrderInv, Openers, OpenersIn
  <2>5. \A i \in 1 .. k + 1 : i \in 1 .. k \/ i = k + 1
    OBVIOUS
  <2>6. \A i \in 1 .. k + 1 : graph.nodes[forward'.pairs[i].open].kind # "obs"
    BY <2>2, <2>3, <2>4, <2>5
  <2>7. QED
    BY <2>2, <2>6, Zenon DEF OpenersIn
<1>9. QED
  BY <1>1, <1>5, <1>8, ForwardOrder

\* CloseForwardDependency keeps OrderInv.
LEMMA CloseOrder ==
  ASSUME Inv, OrderInv, NEW d, CloseForwardDependency(d)
  PROVE  OrderInv'
<1>1. Struct /\ FwdInv /\ InCommand
  BY InvTyped, CloseIn
<1>2. /\ NumNodes' = NumNodes /\ graph' = graph /\ NumNodes \in Nat
      /\ Cur = Ctx.node /\ Cur \in 1 .. NumNodes /\ stack # <<>>
  BY <1>1, CommandKeeps
<1>3. PICK w : w = forward
  OBVIOUS
<1>4. ForwardType(w, NumNodes) /\ Reloaded(forward, Ctx.node) = w
  BY <1>1, <1>2, <1>3, NothingReloaded DEF FwdInv, ForwardOK
<1>5. pendingNodes' = pendingNodes
  BY DEF CloseForwardDependency
<1>6. OpenersIn(graph.nodes, w.pairs)
  BY <1>3 DEF OrderInv, Openers
<1>7. CASE d \notin DOMAIN w.open
  <2>1. forward' = [w EXCEPT !.unopened = TRUE] /\ need' = need
    BY <1>4, <1>7, Zenon DEF CloseForwardDependency
  <2>2. w = [open |-> w.open, pairs |-> w.pairs, acc |-> w.acc, node |-> w.node, unopened |-> w.unopened]
    BY <1>4, ForwardParts
  <2>3. forward'.pairs = w.pairs
    BY <2>1, <2>2
  <2>4. OpenersIn(graph.nodes, forward'.pairs)
    BY <1>6, <2>3, Zenon
  <2>5. QED
    BY <1>1, <1>5, <2>1, <2>4, ForwardOrder
<1>8. CASE d \in DOMAIN w.open
  <2>1. PICK i : i = w.open[d]
    OBVIOUS
  <2>2. /\ forward' = Access([Without(w, d) EXCEPT !.pairs[i] = [open |-> w.pairs[i].open, close |-> Ctx.node]], i, "close")
        /\ need' = need \cup {<<"forward", w.pairs[i].open, Ctx.node>>}
    BY <1>4, <1>8, <2>1, Zenon DEF CloseForwardDependency
  <2>3. Closed(w, forward', i, Ctx.node)
    BY <1>2, <1>4, <1>8, <2>1, <2>2, CloseIs
  <2>4. /\ i \in 1 .. Len(w.pairs) /\ Len(forward'.pairs) = Len(w.pairs)
        /\ \A j \in 1 .. Len(w.pairs) : forward'.pairs[j].open = w.pairs[j].open
    BY <2>3 DEF Closed
  <2>5. OpenersIn(graph.nodes, forward'.pairs)
    BY <1>6, <2>4, Zenon DEF OpenersIn
  <2>6. PICK n, c : n = w.pairs[i].open /\ c = Ctx.node
    OBVIOUS
  <2>7. n \in 1 .. NumNodes /\ graph.nodes[n].kind # "obs"
    BY <1>4, <1>6, <2>4, <2>6 DEF OpenersIn, ForwardType
  <2>8. c \in 1 .. NumNodes /\ graph.nodes[c].kind # "obs"
    BY <1>1, <1>2, <2>6, CtxIs DEF IsObs
  <2>9. NeedAt(n, c)'
    <3>1. /\ n \in 1 .. NumNodes' /\ c \in 1 .. NumNodes'
          /\ graph'.nodes[n].kind # "obs" /\ graph'.nodes[c].kind # "obs"
      BY <1>2, <2>7, <2>8
    <3>2. QED
      BY <3>1, Zenon DEF NeedAt, IsObs
  <2>10. ASSUME NEW x \in need' PROVE x \in need \/ NeedOK(x)'
    <3>1. SUFFICES ASSUME x = <<"forward", n, c>> PROVE NeedOK(x)'
      BY <2>2, <2>6, <2>10
    <3>2. x[1] = "forward" /\ x[2] = n /\ x[3] = c
      BY <3>1
    <3>3. x[1] \in {"memory", "field", "object", "whole", "forward", "record"} /\ x[1] # "record"
      BY <3>2
    <3>4. QED
      BY <2>9, <3>2, <3>3, Zenon DEF NeedOK
  <2>11. QED
    BY <1>1, <1>5, <2>5, <2>10, ForwardOrder
<1>9. QED
  BY <1>7, <1>8

\* DropForwardDependency keeps OrderInv.
LEMMA DropOrder ==
  ASSUME Inv, OrderInv, NEW d, DropForwardDependency(d)
  PROVE  OrderInv'
<1>1. Struct /\ FwdInv /\ InCommand
  BY InvTyped, DropIn
<1>2. NumNodes \in Nat
  BY <1>1, Numbers
<1>3. PICK w : w = forward
  OBVIOUS
<1>4. ForwardType(w, NumNodes)
  BY <1>1, <1>3 DEF FwdInv, ForwardOK
<1>5. UNCHANGED <<pendingNodes, need>> /\ d \in DOMAIN w.open
  BY <1>3 DEF DropForwardDependency, ghosts
<1>6. PICK i : i = w.open[d]
  OBVIOUS
<1>7. forward' = Access(Without(w, d), i, "drop")
  BY <1>3, <1>6 DEF DropForwardDependency
<1>8. Dropped(w, forward', i)
  BY <1>2, <1>4, <1>5, <1>6, <1>7, DropIs
<1>9. forward'.pairs = forward.pairs
  BY <1>3, <1>8 DEF Dropped
<1>10. OpenersIn(graph.nodes, forward'.pairs)
  BY <1>9, Zenon DEF OrderInv, Openers
<1>11. QED
  BY <1>1, <1>5, <1>10, ForwardOrder

\* New nodes at the end of the list keep it in order.
LEMMA OrderedGrows ==
  ASSUME NEW nodes, NEW N \in Nat, NEW C \in Nat, Ordered(nodes, N, C), NEW t, NEW k \in Nat, NEW D \in Nat, NEW kind,
         \A n \in 1 .. N : t[n] = nodes[n], \A n \in N + 1 .. N + k : t[n].kind = kind /\ t[n].cmd = D,
         \/ D = C /\ C > 0 /\ kind # "cmd"
         \/ D = C + 1 /\ k = 1
  PROVE  Ordered(t, N + k, D)
<1>1. /\ \A n \in 1 .. N : nodes[n].cmd \in 1 .. C
      /\ \A n, m \in 1 .. N : n <= m => nodes[n].cmd <= nodes[m].cmd
      /\ \A n, m \in 1 .. N : nodes[n].kind = "cmd" /\ nodes[m].cmd = nodes[n].cmd => n <= m
  BY DEF Ordered
<1>2. \A n \in 1 .. N + k : n \in 1 .. N \/ n \in N + 1 .. N + k
  OBVIOUS
<1>3. \A n \in 1 .. N : t[n].cmd \in 1 .. C /\ t[n].cmd <= D /\ t[n].cmd \in 1 .. D
  BY <1>1
<1>4. \A n \in 1 .. N + k : t[n].cmd \in 1 .. D
  BY <1>2, <1>3
<1>5. ASSUME NEW n \in 1 .. N + k, NEW m \in 1 .. N + k, n <= m PROVE t[n].cmd <= t[m].cmd
  <2>1. CASE m \in 1 .. N
    <3>1. n \in 1 .. N
      BY <1>5, <2>1
    <3>2. QED
      BY <1>1, <1>5, <2>1, <3>1
  <2>2. CASE m \in N + 1 .. N + k
    <3>1. t[m].cmd = D
      BY <2>2
    <3>2. t[n].cmd \in 1 .. D
      BY <1>4
    <3>3. QED
      BY <3>1, <3>2
  <2>3. QED
    BY <1>2, <2>1, <2>2
<1>6. ASSUME NEW n \in 1 .. N + k, NEW m \in 1 .. N + k, t[n].kind = "cmd", t[m].cmd = t[n].cmd PROVE n <= m
  <2>1. CASE n \in 1 .. N
    <3>1. CASE m \in 1 .. N
      BY <1>1, <1>6, <2>1, <3>1
    <3>2. CASE m \in N + 1 .. N + k
      BY <2>1, <3>2
    <3>3. QED
      BY <1>2, <3>1, <3>2
  <2>2. CASE n \in N + 1 .. N + k
    <3>1. t[n].kind = kind /\ t[n].cmd = D
      BY <2>2
    <3>2. D = C + 1 /\ k = 1
      BY <1>6, <3>1
    <3>3. m \notin 1 .. N
      BY <1>3, <1>6, <3>1, <3>2
    <3>4. QED
      BY <2>2, <3>2, <3>3
  <2>3. QED
    BY <1>2, <2>1, <2>2
<1>7. QED
  BY <1>4, <1>5, <1>6 DEF Ordered

\* A step that adds nodes keeps OrderInv.
LEMMA OrderGrows ==
  ASSUME Inv, OrderInv, NEW k \in Nat, NEW kind, NEW parent, NEW inits, Grown(k, kind, parent, inits), cmds' \in Nat,
         \/ cmds' = cmds /\ stack # <<>> /\ kind # "cmd"
         \/ cmds' = cmds + 1 /\ k = 1,
         forward'.pairs = forward.pairs,
         \A n \in NumNodes + 1 .. NumNodes' : kind = "sub" => ParentAt(n)',
         \A x \in need' : x \in need \/ NeedOK(x)'
  PROVE  OrderInv'
<1>1. Struct /\ ForwardOK
  BY InvTyped
<1>2. /\ NumNodes' = NumNodes + k /\ Base' = Base /\ NumNodes \in Nat /\ cmds \in Nat
      /\ \A n \in 1 .. NumNodes : graph'.nodes[n] = graph.nodes[n] /\ graph'.deps[n] = graph.deps[n]
      /\ \A n \in NumNodes + 1 .. NumNodes' : graph'.nodes[n] = [kind |-> kind, cmd |-> cmds']
  BY <1>1, GrownIs, Numbers
<1>3. NodesKept
  <2>1. \A i \in 1 .. Len(pendingNodes) : pendingNodes'[i] = pendingNodes[i]
    BY DEF Grown
  <2>2. NumNodes' \in Nat /\ NumNodes <= NumNodes'
    BY <1>2
  <2>3. QED
    BY <1>2, <2>1, <2>2 DEF NodesKept
<1>4. \A n \in NumNodes + 1 .. NumNodes + k : graph'.nodes[n].kind = kind /\ graph'.nodes[n].cmd = cmds'
  BY <1>2
<1>5. Ordered(graph'.nodes, NumNodes', cmds')
  <2>1. PICK nodes, t : nodes = graph.nodes /\ t = graph'.nodes
    OBVIOUS
  <2>1a. PICK N \in Nat, C \in Nat, D \in Nat : N = NumNodes /\ C = cmds /\ D = cmds'
    BY <1>2
  <2>2. Ordered(nodes, N, C)
    BY <2>1, <2>1a, Zenon DEF OrderInv
  <2>3. \A n \in 1 .. N : t[n] = nodes[n]
    BY <1>2, <2>1, <2>1a
  <2>4. \A n \in N + 1 .. N + k : t[n].kind = kind /\ t[n].cmd = D
    BY <1>4, <2>1, <2>1a
  <2>5. \/ D = C /\ C > 0 /\ kind # "cmd"
        \/ D = C + 1 /\ k = 1
    <3>1. CASE cmds' = cmds /\ stack # <<>> /\ kind # "cmd"
      <4>1. graph.nodes[Ctx.node].cmd = cmds /\ Ctx.node \in 1 .. NumNodes
        BY <1>1, <3>1, CtxIs, CtxCmd
      <4>2. cmds \in 1 .. cmds
        BY <4>1 DEF OrderInv, Ordered
      <4>3. QED
        BY <1>2, <2>1, <2>1a, <3>1, <4>2
    <3>2. CASE cmds' = cmds + 1 /\ k = 1
      BY <2>1a, <3>2
    <3>3. QED
      BY <3>1, <3>2
  <2>6. Ordered(t, N + k, D)
    BY <2>2, <2>3, <2>4, <2>5, OrderedGrows
  <2>7. QED
    BY <1>2, <2>1, <2>1a, <2>6, Zenon
<1>6. Openers'
  <2>1. \A i \in 1 .. Len(forward.pairs) : forward.pairs[i].open \in 1 .. NumNodes /\ graph.nodes[forward.pairs[i].open].kind # "obs"
    BY <1>1 DEF ForwardOK, ForwardType, OrderInv, Openers, OpenersIn
  <2>2. \A i \in 1 .. Len(forward.pairs) : graph'.nodes[forward.pairs[i].open].kind # "obs"
    BY <1>2, <2>1
  <2>3. QED
    BY <2>2, Zenon DEF Openers, OpenersIn
<1>7. \A n \in NumNodes + 1 .. NumNodes' : graph'.nodes[n].kind = "sub" => ParentAt(n)'
  BY <1>2, <1>4
<1>8. QED
  BY <1>1, <1>3, <1>5, <1>6, <1>7, OrderMoves

\* OnBeginCmd keeps OrderInv.
LEMMA BeginOrder ==
  ASSUME Inv, OrderInv, OnBeginCmd
  PROVE  OrderInv'
<1>1. Struct
  BY InvTyped
<1>2. Grown(1, "cmd", 0, {})
  BY <1>1, BeginCmdStruct
<1>3. cmds' = cmds + 1 /\ cmds \in Nat /\ forward' = forward /\ need' = need
  BY <1>1, Numbers DEF OnBeginCmd, ghosts
<1>4. cmds' \in Nat
  BY <1>3
<1>5. QED
  BY <1>2, <1>3, <1>4, OrderGrows

\* OnReadObs and OnWriteObs keep OrderInv.
LEMMA ObsOrder ==
  ASSUME Inv, OrderInv, NEW obs \in ObsLists, OnReadObs(obs) \/ OnWriteObs(obs)
  PROVE  OrderInv'
<1>1. Struct
  BY InvTyped
<1>2. Grown(Len(obs), "obs", 0, {}) /\ Len(obs) \in Nat /\ stack # <<>>
  BY <1>1, ObsStruct
<1>3. cmds' = cmds /\ cmds \in Nat /\ forward' = forward /\ need' = need
  BY <1>1, Numbers DEF OnReadObs, OnWriteObs
<1>4. PICK k \in Nat : k = Len(obs)
  BY <1>2
<1>5. Grown(k, "obs", 0, {}) /\ "obs" # "cmd" /\ "obs" # "sub" /\ cmds' \in Nat
  BY <1>2, <1>3, <1>4
<1>6. QED
  BY <1>2, <1>3, <1>5, OrderGrows

\* OnBeginSubCmd keeps OrderInv.
LEMMA BeginSubOrder ==
  ASSUME Inv, OrderInv, NEW r \in Records, OnBeginSubCmd(r)
  PROVE  OrderInv'
<1>1. Struct /\ Typed /\ ForwardOK
  BY InvTyped
<1>2. Grown(1, "sub", Ctx.node, RecordNode(r)) /\ stack # <<>>
  BY <1>1, BeginSubStruct
<1>3. cmds' = cmds /\ cmds \in Nat /\ FlushAll(Ctx.node)
      /\ need' = need \cup RecordNeeds(NumNodes + 1, r) \cup {<<"record", NumNodes + 1, Ctx.node>>}
  BY <1>1, Numbers DEF OnBeginSubCmd
<1>4. forward'.pairs = forward.pairs
  BY <1>1, <1>2, <1>3, FlushAllIs DEF PutAway
<1>5. /\ NumNodes' = NumNodes + 1 /\ Base' = Base /\ NumNodes \in Nat /\ Base \in Nat
      /\ NumNodes = Base + Len(pendingNodes) /\ Len(pendingNodes) \in Nat
      /\ \A n \in 1 .. NumNodes : graph'.nodes[n] = graph.nodes[n]
      /\ \A n \in NumNodes + 1 .. NumNodes' : graph'.nodes[n] = [kind |-> "sub", cmd |-> cmds']
  BY <1>1, <1>2, GrownIs, Numbers
<1>6. PICK N, c : N = NumNodes /\ c = Ctx.node
  OBVIOUS
<1>6a. N \in Nat
  BY <1>5, <1>6
<1>7. c \in 1 .. N /\ graph'.nodes[c].kind # "obs" /\ graph'.nodes[c].cmd = cmds
  BY <1>1, <1>2, <1>5, <1>6, CtxIs, CtxCmd DEF IsObs
<1>8. graph'.nodes[N + 1].kind = "sub" /\ graph'.nodes[N + 1].cmd = cmds
  BY <1>3, <1>5, <1>6, <1>6a
<1>9. pendingNodes'[(N + 1) - Base].parent = c /\ pendingNodes'[(N + 1) - Base].inits = RecordNode(r)
  <2>1. pendingNodes'[Len(pendingNodes) + 1] = Pending(NumNodes + 1, Ctx.node, RecordNode(r))
    BY <1>2 DEF Grown
  <2>2. (N + 1) - Base = Len(pendingNodes) + 1
    BY <1>5, <1>6, <1>6a
  <2>3. QED
    BY <1>6, <2>1, <2>2 DEF Pending
<1>10. ~(N + 1 <= Base')
  BY <1>5, <1>6, <1>6a
<1>11. ParentAt(N + 1)'
  <2>1. IsParent(graph'.nodes, c, N + 1)
    BY <1>6a, <1>7, <1>8 DEF IsParent
  <2>2. QED
    BY <1>5, <1>9, <1>10, <2>1, Zenon DEF ParentAt
<1>12. ASSUME NEW m, m = c \/ m \in RecordNode(r) PROVE NeedAt(N + 1, m)' /\ Recorded(N + 1, m)'
  <2>1. m \in 1 .. N
    BY <1>1, <1>6, <1>7, <1>12, RecordNodes
  <2>2. graph'.nodes[m].cmd <= cmds
    <3>1. graph'.nodes[m] = graph.nodes[m]
      BY <1>5, <1>6, <1>6a, <2>1
    <3>2. graph.nodes[m].cmd \in 1 .. cmds
      BY <1>6, <2>1 DEF OrderInv, Ordered
    <3>3. QED
      BY <1>3, <3>1, <3>2
  <2>3. N + 1 \in 1 .. NumNodes' /\ m \in 1 .. NumNodes'
    BY <1>5, <1>6, <1>6a, <2>1
  <2>4. NeedAt(N + 1, m)'
    <3>1. graph'.nodes[N + 1].kind # "obs" /\ graph'.nodes[m].cmd <= graph'.nodes[N + 1].cmd
      BY <1>8, <2>2
    <3>2. QED
      BY <2>3, <3>1, Zenon DEF NeedAt, IsObs
  <2>5. Recorded(N + 1, m)'
    BY <1>5, <1>9, <1>10, <1>12, Zenon DEF Recorded
  <2>6. QED
    BY <2>4, <2>5
<1>13. ASSUME NEW x \in need' PROVE x \in need \/ NeedOK(x)'
  <2>1. SUFFICES ASSUME x \notin need PROVE NeedOK(x)'
    OBVIOUS
  <2>2. PICK m : x = <<"record", N + 1, m>> /\ (m = c \/ m \in RecordNode(r))
    BY <1>3, <1>6, <1>13, <2>1 DEF RecordNeeds
  <2>3. x[1] = "record" /\ x[2] = N + 1 /\ x[3] = m
    BY <2>2
  <2>4. NeedAt(N + 1, m)' /\ Recorded(N + 1, m)'
    BY <1>12, <2>2
  <2>5. QED
    BY <2>3, <2>4, Zenon DEF NeedOK
<1>14. \A n \in NumNodes + 1 .. NumNodes' : n = N + 1
  BY <1>5, <1>6, <1>6a
<1>15. \A n \in NumNodes + 1 .. NumNodes' : "sub" = "sub" => ParentAt(n)'
  BY <1>11, <1>14, Zenon
<1>16. cmds' \in Nat /\ "sub" # "cmd"
  BY <1>3
<1>17. QED
  BY <1>2, <1>3, <1>4, <1>13, <1>15, <1>16, OrderGrows

\* OnEndSubCmd keeps OrderInv.
LEMMA EndSubOrder ==
  ASSUME Inv, OrderInv, OnEndSubCmd
  PROVE  OrderInv'
<1>1. Struct /\ Typed /\ ForwardOK
  BY InvTyped
<1>2. NumNodes' = NumNodes /\ Base' = Base /\ stack # <<>> /\ NumNodes \in Nat
  BY <1>1, EndSubStruct, Numbers
<1>3. FlushAll(Ctx.node) /\ need' = need /\ graph' = graph /\ cmds' = cmds /\ pendingNodes' = pendingNodes
  BY DEF OnEndSubCmd, ghosts
<1>4. forward'.pairs = forward.pairs
  BY <1>1, <1>2, <1>3, FlushAllIs DEF PutAway
<1>5. NodesKept
  BY <1>2, <1>3 DEF NodesKept
<1>6. Openers' /\ Ordered(graph'.nodes, NumNodes', cmds')
  BY <1>2, <1>3, <1>4, Zenon DEF OrderInv, Openers
<1>7. QED
  BY <1>1, <1>2, <1>3, <1>5, <1>6, OrderMoves

\* A step that changes none of what OrderInv reads keeps it.
LEMMA SameOrder ==
  ASSUME Inv, OrderInv, UNCHANGED <<cmds, stack, forward, graph, pendingNodes, need>>, NumNodes' = NumNodes, Base' = Base
  PROVE  OrderInv'
<1>1. Struct /\ NumNodes \in Nat
  BY InvTyped, Numbers
<1>2. NodesKept
  BY <1>1 DEF NodesKept
<1>3. Openers' /\ Ordered(graph'.nodes, NumNodes', cmds')
  BY Zenon DEF OrderInv, Openers
<1>4. QED
  BY <1>1, <1>2, <1>3, OrderMoves

\* DCECapture keeps OrderInv.
LEMMA DCEOrder ==
  ASSUME Inv, OrderInv, NEW s \in Requests, DCECapture(s)
  PROVE  OrderInv'
<1>1. Struct
  BY InvTyped
<1>2. NumNodes' = NumNodes /\ Base' = Base /\ UNCHANGED <<cmds, stack, forward, graph, pendingNodes, need>>
  BY <1>1, DCEKeeps
<1>3. QED
  BY <1>2, SameOrder

\* A stuttering step keeps OrderInv.
LEMMA OrderStutters ==
  ASSUME Inv, OrderInv, UNCHANGED vars
  PROVE  OrderInv'
<1>1. UNCHANGED <<cmds, stack, forward, graph, pendingNodes, need>>
  BY DEF vars
<1>2. NumNodes' = NumNodes
  BY <1>1 DEF NumNodes
<1>3. Base' = Base
  BY <1>1, <1>2 DEF Base
<1>4. QED
  BY <1>1, <1>2, <1>3, SameOrder

\* OrderInv holds initially.
LEMMA OrderInit ==
  ASSUME Init
  PROVE  OrderInv
<1>1. NumNodes = 0
  BY InitStruct
<1>2. need = {} /\ forward.pairs = <<>> /\ Len(<<>>) = 0
  BY DEF Init, NewForward
<1>3. Ordered(graph.nodes, NumNodes, cmds) /\ Parents /\ NeedsOK /\ Openers
  BY <1>1, <1>2 DEF Ordered, Parents, NeedsOK, Openers, OpenersIn
<1>4. QED
  BY <1>3 DEF OrderInv

\* OnEndCmd keeps OrderInv: parents and recorded needs become dependencies.
LEMMA EndCmdOrder ==
  ASSUME Inv, OrderInv, OnEndCmd
  PROVE  OrderInv'
<1>1. Struct /\ Typed /\ FwdInv /\ Counted
  BY InvTyped
<1>2. PICK f, m, w : EndStep(f, m, w)
  BY <1>1, EndIs
<1>3. NumNodes' = NumNodes /\ Base' = NumNodes /\ NumNodes \in Nat /\ Base \in Nat
  BY <1>1, <1>2, EndStruct, Numbers
<1>4. /\ GraphDone(graph', f, m) /\ ForwardType(w, NumNodes) /\ PutAway(forward, w, Ctx.node)
      /\ forward' = [w EXCEPT !.node = <<>>, !.unopened = FALSE] /\ cmds' = cmds /\ need' = need
  BY <1>2 DEF EndStep, FlushedAll
<1>5. graph'.nodes = graph.nodes
  BY <1>4 DEF GraphDone
<1>6. forward'.pairs = forward.pairs
  <2>1. w.acc = <<>> /\ w.pairs = forward.pairs
    BY <1>4 DEF PutAway
  <2>2. forward'.pairs = w.pairs
    BY <1>3, <1>4, <2>1, FwdReset
  <2>3. QED
    BY <2>1, <2>2
<1>7. Ordered(graph'.nodes, NumNodes', cmds') /\ Openers'
  BY <1>3, <1>4, <1>5, <1>6, Zenon DEF OrderInv, Openers
<1>8. \A n \in 1 .. NumNodes : n <= Base => graph.deps[n] \subseteq graph'.deps[n]
  <2>1. \A n \in 1 .. Base : graph.deps[n] \subseteq graph'.deps[n]
    BY <1>4 DEF GraphDone
  <2>2. QED
    BY <1>3, <2>1
<1>9. ASSUME NEW n \in 1 .. NumNodes, ~(n <= Base)
      PROVE  /\ pendingNodes[n - Base].inits \subseteq graph'.deps[n]
             /\ pendingNodes[n - Base].parent # 0 => pendingNodes[n - Base].parent \in graph'.deps[n]
  <2>1. n \in Base + 1 .. NumNodes
    BY <1>3, <1>9
  <2>2. OwnDeps(pendingNodes[n - Base], f, m) \subseteq graph'.deps[n]
    BY <1>4, <2>1 DEF GraphDone
  <2>3. QED
    BY <2>2 DEF OwnDeps
<1>10. \A n \in 1 .. NumNodes : n <= Base'
  BY <1>3
<1>11. Parents'
  <2>1. SUFFICES ASSUME NEW n \in 1 .. NumNodes, graph.nodes[n].kind = "sub"
                 PROVE  \E k \in graph'.deps[n] : IsParent(graph.nodes, k, n)
    BY <1>3, <1>5, <1>10, Zenon DEF Parents, ParentAt
  <2>2. ParentAt(n)
    BY <2>1 DEF OrderInv, Parents
  <2>3. CASE n <= Base
    BY <1>8, <2>2, <2>3, Zenon DEF ParentAt
  <2>4. CASE ~(n <= Base)
    <3>1. IsParent(graph.nodes, pendingNodes[n - Base].parent, n)
      BY <2>2, <2>4, Zenon DEF ParentAt
    <3>2. pendingNodes[n - Base].parent # 0
      BY <1>3, <3>1 DEF IsParent
    <3>3. pendingNodes[n - Base].parent \in graph'.deps[n]
      BY <1>9, <2>4, <3>2
    <3>4. QED
      BY <3>1, <3>3, Zenon
  <2>5. QED
    BY <2>3, <2>4
<1>12. NeedsOK'
  <2>1. SUFFICES ASSUME NEW x \in need PROVE NeedOK(x)'
    BY <1>4, Zenon DEF NeedsOK
  <2>2. NeedOK(x)
    BY DEF OrderInv, NeedsOK
  <2>3. ASSUME x[1] \notin {"object", "whole"} PROVE NeedAt(x[2], x[3])'
    <3>1. NeedAt(x[2], x[3])
      BY <2>2, <2>3 DEF NeedOK
    <3>2. QED
      BY <1>3, <1>5, <3>1, Zenon DEF NeedAt, IsObs
  <2>4. ASSUME x[1] = "record" PROVE Recorded(x[2], x[3])'
    <3>1. PICK n, k : n = x[2] /\ k = x[3]
      OBVIOUS
    <3>2. Recorded(n, k) /\ n \in 1 .. NumNodes /\ k \in 1 .. NumNodes
      BY <2>2, <2>4, <3>1 DEF NeedOK, NeedAt
    <3>3. k \in graph'.deps[n]
      <4>1. CASE n <= Base
        BY <1>8, <3>2, <4>1 DEF Recorded
      <4>2. CASE ~(n <= Base)
        <5>1. k = pendingNodes[n - Base].parent \/ k \in pendingNodes[n - Base].inits
          BY <3>2, <4>2, Zenon DEF Recorded
        <5>2. k # 0
          BY <1>3, <3>2
        <5>3. QED
          BY <1>9, <3>2, <4>2, <5>1, <5>2
      <4>3. QED
        BY <4>1, <4>2
    <3>4. QED
      BY <1>10, <3>1, <3>2, <3>3, Zenon DEF Recorded
  <2>5. QED
    BY <2>2, <2>3, <2>4, Zenon DEF NeedOK
<1>13. QED
  BY <1>7, <1>11, <1>12, Zenon DEF OrderInv

\* Every step keeps OrderInv.
LEMMA OrderStep ==
  ASSUME Inv, FieldInv, OrderInv, Inv', FieldInv', [Next]_vars
  PROVE  OrderInv'
<1>1. SUFFICES ASSUME Next PROVE OrderInv'
  BY OrderStutters
<1>2. CASE OnBeginCmd
  BY <1>2, BeginOrder
<1>3. CASE OnEndCmd
  BY <1>3, EndCmdOrder
<1>4. CASE OnEndSubCmd
  BY <1>4, EndSubOrder
<1>5. CASE \E o \in ObsLists : OnReadObs(o) \/ OnWriteObs(o)
  BY <1>5, ObsOrder
<1>6. CASE \E p \in Pools, x \in Spans : OnReadSlice(p, x) \/ OnWriteSlice(p, x)
  BY <1>6, ReadSliceOrder, WriteSliceOrder
<1>7. CASE \E f \in Frags \cup {Complete} : ReadFrag(f) \/ WriteFrag(f)
  BY <1>7, ReadFragOrder, WriteFragOrder
<1>8. CASE \E r \in Records : OnRecordSubCmd(r) \/ OnBeginSubCmd(r) \/ OnBeginMergedSubCmd(r)
  BY <1>8, RecordOrder, BeginSubOrder, MergedOrder
<1>9. CASE \E d \in DepIDs : \/ OpenForwardDependency(d) \/ CloseForwardDependency(d)
                             \/ DropForwardDependency(d)
  BY <1>9, OpenOrder, CloseOrder, DropOrder
<1>10. CASE \E s \in Requests : DCECapture(s)
  BY <1>10, DCEOrder
<1>11. QED
  BY <1>1, <1>2, <1>3, <1>4, <1>5, <1>6, <1>7, <1>8, <1>9, <1>10 DEF Next

\* What dead code elimination relies on holds in every state.
THEOREM NodesOrdered ==
  Spec => [](Inv /\ FieldInv /\ OrderInv)
<1>1. Inv /\ FieldInv /\ [Next]_vars => FieldInv'
  BY FieldStep
<1>2. Inv /\ FieldInv /\ OrderInv /\ Inv' /\ FieldInv' /\ [Next]_vars => OrderInv'
  BY OrderStep
<1>3. QED
  BY <1>1, <1>2, GraphInv, FieldInit, OrderInit, PTL DEF Spec

-----------------------------------------------------------------------------
(***************************************************************************)
(* What the search marks, and the node of the command that a node belongs  *)
(* to.                                                                     *)
(***************************************************************************)
\* Everything that a node of L depends on is in L.
ClosedUnder(deps, L) == \A n \in L : deps[n] \subseteq L

\* A turn of the search only adds nodes, and adds one unless all that the
\* marked ones depend on is marked.
LEMMA MarkGrows ==
  ASSUME NEW N \in Nat, NEW deps, \A n \in 1 .. N : deps[n] \subseteq 1 .. N, NEW L, L \subseteq 1 .. N, NEW i
  PROVE  /\ L \subseteq MarkTurn(deps, L, i) /\ MarkTurn(deps, L, i) \subseteq 1 .. N
         /\ ClosedUnder(deps, L) => MarkTurn(deps, L, i) = L
         /\ ~ClosedUnder(deps, L) => MarkTurn(deps, L, i) # L
<1>1. PICK M : M = MarkTurn(deps, L, i)
  OBVIOUS
<1>2. \A m : m \in M <=> m \in L \/ \E n \in L : m \in deps[n]
  BY <1>1 DEF MarkTurn
<1>3. L \subseteq M /\ M \subseteq 1 .. N
  BY <1>2
<1>4. ASSUME ClosedUnder(deps, L) PROVE M = L
  BY <1>2, <1>4 DEF ClosedUnder
<1>5. ASSUME M = L PROVE ClosedUnder(deps, L)
  BY <1>2, <1>5 DEF ClosedUnder
<1>6. QED
  BY <1>1, <1>3, <1>4, <1>5

\* The search ends with every node that a marked one depends on marked: a turn
\* that is not the last marks a node more, so N turns suffice.
THEOREM MarkCloses ==
  ASSUME NEW N \in Nat, NEW deps, \A n \in 1 .. N : deps[n] \subseteq 1 .. N, NEW nodes, nodes \subseteq 1 .. N
  PROVE  /\ nodes \subseteq MarkFold!Fold(deps, nodes, [i \in 1 .. N |-> i])
         /\ ClosedUnder(deps, MarkFold!Fold(deps, nodes, [i \in 1 .. N |-> i]))
<1>1. PICK xs : xs = [i \in 1 .. N |-> i]
  OBVIOUS
<1>2. xs \in Seq(Nat) /\ Len(xs) = N
  BY <1>1
<1>3. PICK r : MarkRuns(deps, nodes, xs, N, r)
  BY <1>2, MarkSteps
<1>4. /\ r[0] = nodes /\ \A j \in 1 .. N : r[j] = MarkTurn(deps, r[j - 1], xs[j])
      /\ MarkFold!Fold(deps, nodes, xs) = r[N]
  BY <1>3 DEF MarkRuns
<1>5. IsFiniteSet(1 .. N) /\ Cardinality(1 .. N) = N
  <2>1. IsFiniteSet(1 .. N) /\ Cardinality(1 .. N) = IF 1 > N THEN 0 ELSE N - 1 + 1
    BY FS_Interval
  <2>2. QED
    BY <2>1
<1>6. \A L : L \subseteq 1 .. N => IsFiniteSet(L) /\ Cardinality(L) \in Nat /\ Cardinality(L) <= N
  BY <1>5, FS_Subset, FS_CardinalityType
<1> DEFINE Right(j) == /\ nodes \subseteq r[j] /\ r[j] \subseteq 1 .. N
                       /\ ClosedUnder(deps, r[j]) \/ Cardinality(r[j]) >= j + 1
           Good == {j \in Nat : j <= N => Right(j)}
<1>7. 0 \in Good
  <2>1. CASE nodes = {}
    <3>1. ClosedUnder(deps, nodes)
      BY <2>1 DEF ClosedUnder
    <3>2. QED
      BY <1>4, <3>1
  <2>2. CASE nodes # {}
    <3>1. IsFiniteSet(nodes) /\ Cardinality(nodes) \in Nat
      BY <1>6
    <3>2. Cardinality(nodes) # 0
      BY <2>2, <3>1, FS_EmptySet
    <3>3. Cardinality(nodes) >= 0 + 1
      BY <3>1, <3>2
    <3>4. Right(0)
      BY <1>4, <3>3
    <3>5. QED
      BY <3>4
  <2>3. QED
    BY <2>1, <2>2
<1>8. ASSUME NEW j \in Nat, j \in Good PROVE j + 1 \in Good
  <2>1. SUFFICES ASSUME j + 1 <= N PROVE Right(j + 1)
    OBVIOUS
  <2>2. Right(j)
    BY <1>8, <2>1
  <2>3. j + 1 \in 1 .. N /\ (j + 1) - 1 = j
    BY <2>1
  <2>4. PICK L, M : L = r[j] /\ M = r[j + 1]
    OBVIOUS
  <2>5. M = MarkTurn(deps, L, xs[j + 1])
    BY <1>4, <2>3, <2>4
  <2>6. nodes \subseteq L /\ L \subseteq 1 .. N
    BY <2>2, <2>4
  <2>7. /\ L \subseteq M /\ M \subseteq 1 .. N
        /\ ClosedUnder(deps, L) => M = L
        /\ ~ClosedUnder(deps, L) => M # L
    <3>1. PICK i : i = xs[j + 1]
      OBVIOUS
    <3>2. /\ L \subseteq MarkTurn(deps, L, i) /\ MarkTurn(deps, L, i) \subseteq 1 .. N
          /\ ClosedUnder(deps, L) => MarkTurn(deps, L, i) = L
          /\ ~ClosedUnder(deps, L) => MarkTurn(deps, L, i) # L
      BY <2>6, MarkGrows
    <3>3. QED
      BY <2>5, <3>1, <3>2, Zenon
  <2>8. CASE ClosedUnder(deps, L)
    BY <2>4, <2>6, <2>7, <2>8
  <2>9. CASE ~ClosedUnder(deps, L)
    <3>1. Cardinality(L) >= j + 1
      BY <2>2, <2>4, <2>9
    <3>2. PICK m \in M : m \notin L
      BY <2>7, <2>9
    <3>3. IsFiniteSet(L) /\ Cardinality(L) \in Nat /\ IsFiniteSet(M) /\ Cardinality(M) \in Nat
      BY <1>6, <2>6, <2>7
    <3>4. Cardinality(L \cup {m}) = Cardinality(L) + 1
      BY <3>2, <3>3, FS_AddElement
    <3>5. Cardinality(L \cup {m}) <= Cardinality(M)
      <4>1. L \cup {m} \subseteq M
        BY <2>7, <3>2
      <4>2. QED
        BY <3>3, <4>1, FS_Subset
    <3>6. Cardinality(M) >= (j + 1) + 1
      BY <3>1, <3>3, <3>4, <3>5
    <3>7. QED
      BY <2>4, <2>6, <2>7, <3>6
  <2>10. QED
    BY <2>8, <2>9
<1> HIDE DEF Good
<1>9. \A j \in Nat : j \in Good
  BY <1>7, <1>8, MarkFold!NatSetInduction
<1>10. Right(N)
  BY <1>9 DEF Good
<1>11. ClosedUnder(deps, r[N])
  BY <1>6, <1>10
<1>12. QED
  BY <1>1, <1>4, <1>10, <1>11

\* The node of command c.
CmdNodeOf(nodes, N, c) == CHOOSE n \in 1 .. N : nodes[n] = [kind |-> "cmd", cmd |-> c]

\* hd gives for each node the node of its command.
Heads(nodes, N, hd) ==
  /\ \A n \in 1 .. N : /\ hd[n] = CmdNodeOf(nodes, N, nodes[n].cmd) /\ hd[n] \in 1 .. N /\ hd[n] <= n
                       /\ nodes[hd[n]].kind = "cmd" /\ nodes[hd[n]].cmd = nodes[n].cmd
                       /\ nodes[n].kind = "cmd" => hd[n] = n
  /\ \A n, m \in 1 .. N : nodes[n].cmd = nodes[m].cmd => hd[n] = hd[m]
  /\ \A n, m \in 1 .. N : nodes[n].cmd < nodes[m].cmd => n < hd[m]

\* In ordered nodes that have every command the heads are as expected.
LEMMA HeadsAre ==
  ASSUME NEW N \in Nat, NEW C \in Nat, NEW nodes, Ordered(nodes, N, C),
         \A c \in 1 .. C : \E n \in 1 .. N : nodes[n] = [kind |-> "cmd", cmd |-> c]
  PROVE  Heads(nodes, N, [n \in 1 .. N |-> CmdNodeOf(nodes, N, nodes[n].cmd)])
<1>1. /\ \A n \in 1 .. N : nodes[n].cmd \in 1 .. C
      /\ \A n, m \in 1 .. N : n <= m => nodes[n].cmd <= nodes[m].cmd
      /\ \A n, m \in 1 .. N : nodes[n].kind = "cmd" /\ nodes[m].cmd = nodes[n].cmd => n <= m
  BY DEF Ordered
<1>2. PICK hd : hd = [n \in 1 .. N |-> CmdNodeOf(nodes, N, nodes[n].cmd)]
  OBVIOUS
<1>3. ASSUME NEW n \in 1 .. N
      PROVE  /\ hd[n] = CmdNodeOf(nodes, N, nodes[n].cmd) /\ hd[n] \in 1 .. N
             /\ nodes[hd[n]].kind = "cmd" /\ nodes[hd[n]].cmd = nodes[n].cmd
  <2>1. hd[n] = CmdNodeOf(nodes, N, nodes[n].cmd)
    BY <1>2
  <2>2. \E k \in 1 .. N : nodes[k] = [kind |-> "cmd", cmd |-> nodes[n].cmd]
    BY <1>1
  <2>3. hd[n] \in 1 .. N /\ nodes[hd[n]] = [kind |-> "cmd", cmd |-> nodes[n].cmd]
    BY <2>1, <2>2, Zenon DEF CmdNodeOf
  <2>4. QED
    BY <2>1, <2>3
<1>4. \A n \in 1 .. N : hd[n] <= n
  BY <1>1, <1>3
<1>5. \A n \in 1 .. N : nodes[n].kind = "cmd" => hd[n] = n
  BY <1>1, <1>3, <1>4
<1>6. \A n, m \in 1 .. N : nodes[n].cmd = nodes[m].cmd => hd[n] = hd[m]
  BY <1>3, Zenon
<1>7. ASSUME NEW n \in 1 .. N, NEW m \in 1 .. N, nodes[n].cmd < nodes[m].cmd PROVE n < hd[m]
  <2>1. hd[m] \in 1 .. N /\ nodes[hd[m]].cmd = nodes[m].cmd
    BY <1>3
  <2>2. ~(hd[m] <= n)
    BY <1>1, <1>7, <2>1
  <2>3. QED
    BY <2>1, <2>2
<1>8. QED
  BY <1>2, <1>3, <1>4, <1>5, <1>6, <1>7 DEF Heads

\* The command of a live command or subcommand is live.
LEMMA HeadsLive ==
  ASSUME NEW N \in Nat, NEW nodes, NEW hd, Heads(nodes, N, hd), NEW deps, NEW L, L \subseteq 1 .. N, ClosedUnder(deps, L),
         \A n \in 1 .. N : nodes[n].kind \in {"cmd", "sub", "obs"},
         \A n \in 1 .. N : nodes[n].kind = "sub" => \E m \in deps[n] : IsParent(nodes, m, n)
  PROVE  \A n \in L : nodes[n].kind # "obs" => hd[n] \in L
<1> DEFINE Good == {k \in Nat : \A n \in L : n <= k /\ nodes[n].kind # "obs" => hd[n] \in L}
<1>1. 0 \in Good
  OBVIOUS
<1>2. ASSUME NEW k \in Nat, k \in Good PROVE k + 1 \in Good
  <2>1. SUFFICES ASSUME NEW n \in L, n <= k + 1, nodes[n].kind # "obs" PROVE hd[n] \in L
    OBVIOUS
  <2>2. n \in 1 .. N
    OBVIOUS
  <2>3. CASE nodes[n].kind = "cmd"
    BY <2>2, <2>3 DEF Heads
  <2>4. CASE nodes[n].kind = "sub"
    <3>1. PICK m \in deps[n] : IsParent(nodes, m, n)
      BY <2>2, <2>4
    <3>2. m \in L
      BY <3>1 DEF ClosedUnder
    <3>3. m \in 1 .. n - 1 /\ nodes[m].cmd = nodes[n].cmd /\ nodes[m].kind # "obs"
      BY <3>1 DEF IsParent
    <3>4. m <= k
      BY <2>1, <2>2, <3>3
    <3>5. hd[m] \in L
      BY <1>2, <3>2, <3>3, <3>4
    <3>6. hd[m] = hd[n]
      <4>1. m \in 1 .. N
        BY <3>2
      <4>2. QED
        BY <2>2, <3>3, <4>1 DEF Heads
    <3>7. QED
      BY <3>5, <3>6
  <2>5. QED
    BY <2>1, <2>2, <2>3, <2>4
<1> HIDE DEF Good
<1>3. \A k \in Nat : k \in Good
  BY <1>1, <1>2, MarkFold!NatSetInduction
<1>4. N \in Good
  BY <1>3
<1>5. \A n \in L : n <= N
  OBVIOUS
<1>6. QED
  BY <1>4, <1>5 DEF Good

-----------------------------------------------------------------------------
(***************************************************************************)
(* The pass over the nodes that builds the commands. What has been built   *)
(* after k nodes is BuiltTo.                                               *)
(***************************************************************************)
\* ProcessNode, q being the nodes, their number and the live ones.
BuildTurn(q, b, n) ==
  CASE n \notin q[3] \/ q[1][n].kind = "sub" -> b
    [] n \in q[3] /\ q[1][n].kind = "cmd" ->
         [orphans |-> <<>>, cmds |-> Append(b.cmds, [cmd |-> q[1][n].cmd, reads |-> b.orphans])]
    [] OTHER -> IF CmdNodeOf(q[1], q[2], q[1][n].cmd) \in q[3] THEN b
                ELSE [b EXCEPT !.orphans = Append(@, n)]

\* The pass over the nodes that builds the commands.
BuildFold == INSTANCE FoldLaws WITH Step <- BuildTurn

\* r[j] is what has been built after j nodes.
BuildRuns(q, base, xs, m, r) ==
  /\ r[0] = base /\ \A j \in 1 .. m : r[j] = BuildTurn(q, r[j - 1], xs[j])
  /\ BuildFold!Fold(q, base, xs) = r[m]

\* The pass, node by node.
LEMMA BuildSteps ==
  ASSUME NEW q, NEW base, NEW S, NEW xs \in Seq(S), NEW m \in Nat, m = Len(xs)
  PROVE  \E r : BuildRuns(q, base, xs, m, r)
  BY BuildFold!FoldSteps DEF BuildRuns

\* ProcessNode is a turn of the pass.
LEMMA ProcessIsTurn ==
  ASSUME NEW live, NEW b, NEW n
  PROVE  ProcessNode(b, n, live) = BuildTurn(<<graph.nodes, NumNodes, live>>, b, n)
<1>1. PICK q : q = <<graph.nodes, NumNodes, live>>
  OBVIOUS
<1>2. q[1] = graph.nodes /\ q[2] = NumNodes /\ q[3] = live
  BY <1>1
<1>3. CmdNodeOf(q[1], q[2], q[1][n].cmd) = CmdNode(graph.nodes[n].cmd)
  BY <1>2, Zenon DEF CmdNode, CmdNodeOf
<1>4. BuildTurn(q, b, n) = ProcessNode(b, n, live)
  BY <1>2, <1>3, Zenon DEF BuildTurn, ProcessNode
<1>5. QED
  BY <1>1, <1>4, Zenon

\* DCECapture's fold is the pass.
LEMMA BuildIsFold ==
  ASSUME NEW live, NEW base, NEW xs
  PROVE  FoldLeft(LAMBDA b, n : ProcessNode(b, n, live), base, xs)
           = BuildFold!Fold(<<graph.nodes, NumNodes, live>>, base, xs)
  BY ProcessIsTurn DEF FoldLeft, MapThenFoldSet, Max, BuildFold!Fold, BuildFold!MapThenFoldSet, BuildFold!Greatest

\* A built command: its number and the observations that became its reads.
EntryType == [cmd : Nat, reads : Seq(Nat)]

\* A live observation of a dead command.
IsOrphan(nodes, hd, L, n) == n \in L /\ nodes[n].kind = "obs" /\ hd[n] \notin L

\* A list of orphans in the order of the capture.
OrphanList(nodes, hd, L, s) ==
  s \in Seq(Nat) /\ Ascending(s) /\ \A a \in ToSet(s) : IsOrphan(nodes, hd, L, a)

\* Entry e is that of the command node at[i], with orphans from after the
\* entry before it.
EntryHold(nodes, hd, L, e, at, i) ==
  /\ at[i] \in L /\ nodes[at[i]].kind = "cmd" /\ e.cmd = nodes[at[i]].cmd
  /\ OrphanList(nodes, hd, L, e.reads)
  /\ \A a \in ToSet(e.reads) : a < at[i] /\ \A j \in 1 .. i - 1 : at[j] < a

\* Node n, up to which all has been processed, is where it should be.
Placed(nodes, hd, L, b, at, n) ==
  /\ nodes[n].kind = "cmd" => \E i \in 1 .. Len(at) : at[i] = n
  /\ IsOrphan(nodes, hd, L, n) => n \in ToSet(b.orphans) \/ \E i \in 1 .. Len(at) : n \in ToSet(b.cmds[i].reads)

\* What has been built when the first k nodes have been processed; the entries
\* are of the command nodes at.
BuiltTo(nodes, hd, L, b, at, k) ==
  /\ b = [orphans |-> b.orphans, cmds |-> b.cmds] /\ b.cmds \in Seq(EntryType)
  /\ at \in Seq(Nat) /\ Len(at) = Len(b.cmds) /\ Ascending(at)
  /\ \A i \in 1 .. Len(at) : at[i] <= k /\ EntryHold(nodes, hd, L, b.cmds[i], at, i)
  /\ OrphanList(nodes, hd, L, b.orphans)
  /\ \A a \in ToSet(b.orphans) : a <= k /\ \A j \in 1 .. Len(at) : at[j] < a
  /\ \A n \in L : n <= k => Placed(nodes, hd, L, b, at, n)

\* The elements of a sequence.
LEMMA SetIn ==
  ASSUME NEW S, NEW s \in Seq(S), NEW m \in Nat, m = Len(s)
  PROVE  \A a : a \in ToSet(s) <=> \E i \in 1 .. m : s[i] = a
  BY DEF ToSet

\* The elements after Append.
LEMMA AppendSet ==
  ASSUME NEW s \in Seq(Nat), NEW x \in Nat
  PROVE  ToSet(Append(s, x)) = ToSet(s) \cup {x}
<1>1. PICK m \in Nat : m = Len(s)
  OBVIOUS
<1>2. PICK t : t = Append(s, x)
  OBVIOUS
<1>3. t \in Seq(Nat) /\ Len(t) = m + 1 /\ t[m + 1] = x /\ \A i \in 1 .. m : t[i] = s[i]
  BY <1>1, <1>2, AppendIs
<1>4. \A a : a \in ToSet(s) <=> \E i \in 1 .. m : s[i] = a
  BY <1>1, SetIn
<1>5. \A a : a \in ToSet(t) <=> \E i \in 1 .. m + 1 : t[i] = a
  <2>1. m + 1 \in Nat
    OBVIOUS
  <2>2. QED
    BY <1>3, <2>1, SetIn
<1>6. \A i : i \in 1 .. m + 1 <=> i \in 1 .. m \/ i = m + 1
  OBVIOUS
<1>7. \A a : a \in ToSet(t) <=> a \in ToSet(s) \/ a = x
  BY <1>3, <1>4, <1>5, <1>6, Zenon
<1>8. QED
  BY <1>2, <1>7

\* An ascending sequence stays so when something greater is appended.
LEMMA AppendAscends ==
  ASSUME NEW s \in Seq(Nat), NEW x \in Nat, Ascending(s), \A a \in ToSet(s) : a < x
  PROVE  Ascending(Append(s, x)) /\ Append(s, x) \in Seq(Nat)
<1>1. PICK m \in Nat : m = Len(s)
  OBVIOUS
<1>2. PICK t : t = Append(s, x)
  OBVIOUS
<1>3. t \in Seq(Nat) /\ Len(t) = m + 1 /\ t[m + 1] = x /\ \A i \in 1 .. m : t[i] = s[i]
  BY <1>1, <1>2, AppendIs
<1>4. \A i \in 1 .. m : s[i] < x
  BY <1>1 DEF ToSet
<1>5. \A i, j \in 1 .. m : i < j => s[i] < s[j]
  BY <1>1 DEF Ascending
<1>6. ASSUME NEW i \in 1 .. m + 1, NEW j \in 1 .. m + 1, i < j PROVE t[i] < t[j]
  <2>1. i \in 1 .. m /\ t[i] = s[i]
    BY <1>3, <1>6
  <2>2. CASE j = m + 1
    BY <1>3, <1>4, <2>1, <2>2
  <2>3. CASE j # m + 1
    <3>1. j \in 1 .. m /\ t[j] = s[j]
      BY <1>3, <2>3
    <3>2. QED
      BY <1>5, <1>6, <2>1, <3>1
  <2>4. QED
    BY <2>2, <2>3
<1>7. DOMAIN t = 1 .. m + 1
  BY <1>3
<1>8. Ascending(t)
  BY <1>6, <1>7 DEF Ascending
<1>9. QED
  BY <1>2, <1>3, <1>8

\* Before the first node nothing is built.
LEMMA BuiltNothing ==
  ASSUME NEW nodes, NEW hd, NEW L, L \subseteq Nat \ {0}
  PROVE  BuiltTo(nodes, hd, L, [orphans |-> <<>>, cmds |-> <<>>], <<>>, 0)
<1>1. PICK b : b = [orphans |-> <<>>, cmds |-> <<>>]
  OBVIOUS
<1>2. b.orphans = <<>> /\ b.cmds = <<>>
  BY <1>1
<1>3. ToSet(<<>>) = {} /\ Ascending(<<>>) /\ Len(<<>>) = 0
  BY DEF ToSet, Ascending
<1>4. OrphanList(nodes, hd, L, <<>>)
  BY <1>3 DEF OrphanList
<1>5. \A n \in L : ~(n <= 0)
  OBVIOUS
<1>6. BuiltTo(nodes, hd, L, b, <<>>, 0)
  BY <1>1, <1>2, <1>3, <1>4, <1>5 DEF BuiltTo
<1>7. QED
  BY <1>1, <1>6, Zenon

\* A node that changes nothing.
LEMMA BuiltSkip ==
  ASSUME NEW nodes, NEW hd, NEW L, L \subseteq Nat, NEW b, NEW at, NEW k \in Nat, BuiltTo(nodes, hd, L, b, at, k),
         k + 1 \in L => nodes[k + 1].kind # "cmd" /\ ~IsOrphan(nodes, hd, L, k + 1)
  PROVE  BuiltTo(nodes, hd, L, b, at, k + 1)
<1>1. \A i \in 1 .. Len(at) : at[i] \in Nat /\ at[i] <= k
  BY DEF BuiltTo, EntryHold
<1>2. \A i \in 1 .. Len(at) : at[i] <= k + 1
  BY <1>1
<1>3. \A a \in ToSet(b.orphans) : a \in Nat /\ a <= k
  BY DEF BuiltTo, OrphanList, IsOrphan
<1>4. \A a \in ToSet(b.orphans) : a <= k + 1
  BY <1>3
<1>5. ASSUME NEW n \in L, n <= k + 1 PROVE Placed(nodes, hd, L, b, at, n)
  <2>1. CASE n <= k
    BY <2>1 DEF BuiltTo
  <2>2. CASE ~(n <= k)
    <3>1. n = k + 1
      BY <1>5, <2>2
    <3>2. QED
      BY <1>5, <3>1, Zenon DEF Placed
  <2>3. QED
    BY <2>1, <2>2
<1>6. QED
  BY <1>2, <1>4, <1>5, Zenon DEF BuiltTo

\* An orphan more.
LEMMA BuiltOrphan ==
  ASSUME NEW nodes, NEW hd, NEW L, L \subseteq Nat, NEW b, NEW at, NEW k \in Nat, BuiltTo(nodes, hd, L, b, at, k),
         IsOrphan(nodes, hd, L, k + 1), NEW c, c = [orphans |-> Append(b.orphans, k + 1), cmds |-> b.cmds]
  PROVE  BuiltTo(nodes, hd, L, c, at, k + 1)
<1>1. /\ b.cmds \in Seq(EntryType) /\ at \in Seq(Nat) /\ Len(at) = Len(b.cmds) /\ Ascending(at)
      /\ \A i \in 1 .. Len(at) : at[i] <= k /\ EntryHold(nodes, hd, L, b.cmds[i], at, i)
      /\ OrphanList(nodes, hd, L, b.orphans)
      /\ \A a \in ToSet(b.orphans) : a <= k /\ \A j \in 1 .. Len(at) : at[j] < a
      /\ \A n \in L : n <= k => Placed(nodes, hd, L, b, at, n)
  BY DEF BuiltTo
<1>2. PICK s, t : s = b.orphans /\ t = Append(b.orphans, k + 1)
  OBVIOUS
<1>3. s \in Seq(Nat) /\ Ascending(s) /\ \A a \in ToSet(s) : IsOrphan(nodes, hd, L, a) /\ a \in Nat /\ a <= k
  BY <1>1, <1>2 DEF OrphanList, IsOrphan
<1>4. \A a \in ToSet(s) : a < k + 1
  BY <1>3
<1>5. t \in Seq(Nat) /\ Ascending(t) /\ ToSet(t) = ToSet(s) \cup {k + 1}
  <2>1. k + 1 \in Nat /\ t = Append(s, k + 1)
    BY <1>2
  <2>2. QED
    BY <1>3, <1>4, <2>1, AppendAscends, AppendSet
<1>6. c.orphans = t /\ c.cmds = b.cmds /\ c = [orphans |-> c.orphans, cmds |-> c.cmds]
  BY <1>2
<1>7. OrphanList(nodes, hd, L, t)
  BY <1>3, <1>5 DEF OrphanList
<1>8. \A i \in 1 .. Len(at) : at[i] \in Nat /\ at[i] <= k /\ at[i] <= k + 1 /\ at[i] < k + 1
  <2>1. \A i \in 1 .. Len(at) : at[i] \in Nat
    BY <1>1
  <2>2. QED
    BY <1>1, <2>1
<1>9. \A a \in ToSet(t) : a <= k + 1 /\ \A j \in 1 .. Len(at) : at[j] < a
  <2>1. ASSUME NEW a \in ToSet(s) PROVE a <= k + 1 /\ \A j \in 1 .. Len(at) : at[j] < a
    <3>1. a \in Nat /\ a <= k
      BY <1>3
    <3>2. \A j \in 1 .. Len(at) : at[j] < a
      BY <1>1, <1>2
    <3>3. QED
      BY <3>1, <3>2
  <2>2. k + 1 <= k + 1 /\ \A j \in 1 .. Len(at) : at[j] < k + 1
    BY <1>8
  <2>3. QED
    BY <1>5, <2>1, <2>2
<1>10. ASSUME NEW n \in L, n <= k + 1 PROVE Placed(nodes, hd, L, c, at, n)
  <2>1. CASE n <= k
    <3>1. Placed(nodes, hd, L, b, at, n)
      BY <1>1, <2>1
    <3>2. n \in ToSet(b.orphans) => n \in ToSet(c.orphans)
      BY <1>2, <1>5, <1>6
    <3>3. QED
      BY <1>6, <3>1, <3>2, Zenon DEF Placed
  <2>2. CASE ~(n <= k)
    <3>1. n = k + 1
      BY <1>10, <2>2
    <3>2. n \in ToSet(c.orphans) /\ nodes[n].kind # "cmd"
      BY <1>5, <1>6, <3>1 DEF IsOrphan
    <3>3. QED
      BY <3>2, Zenon DEF Placed
  <2>3. QED
    BY <2>1, <2>2
<1>11. QED
  BY <1>1, <1>6, <1>7, <1>8, <1>9, <1>10, Zenon DEF BuiltTo

\* An entry depends only on the command nodes up to its own.
LEMMA EntryKept ==
  ASSUME NEW nodes, NEW hd, NEW L, NEW e, NEW at, NEW bt, NEW i \in Nat, EntryHold(nodes, hd, L, e, at, i),
         \A j \in 1 .. i : bt[j] = at[j], 1 <= i
  PROVE  EntryHold(nodes, hd, L, e, bt, i)
<1>1. bt[i] = at[i] /\ \A j \in 1 .. i - 1 : bt[j] = at[j]
  OBVIOUS
<1>2. QED
  BY <1>1, Zenon DEF EntryHold

\* A live command: it gets an entry, with the orphans so far as its reads.
LEMMA BuiltCmd ==
  ASSUME NEW nodes, NEW hd, NEW L, L \subseteq Nat, NEW b, NEW at, NEW k \in Nat, BuiltTo(nodes, hd, L, b, at, k),
         k + 1 \in L, nodes[k + 1].kind = "cmd", nodes[k + 1].cmd \in Nat, NEW c,
         c = [orphans |-> <<>>, cmds |-> Append(b.cmds, [cmd |-> nodes[k + 1].cmd, reads |-> b.orphans])]
  PROVE  BuiltTo(nodes, hd, L, c, Append(at, k + 1), k + 1)
<1>1. /\ b.cmds \in Seq(EntryType) /\ at \in Seq(Nat) /\ Len(at) = Len(b.cmds) /\ Ascending(at)
      /\ \A i \in 1 .. Len(at) : at[i] <= k /\ EntryHold(nodes, hd, L, b.cmds[i], at, i)
      /\ OrphanList(nodes, hd, L, b.orphans)
      /\ \A a \in ToSet(b.orphans) : a <= k /\ \A j \in 1 .. Len(at) : at[j] < a
      /\ \A n \in L : n <= k => Placed(nodes, hd, L, b, at, n)
  BY DEF BuiltTo
<1>2. PICK e : e = [cmd |-> nodes[k + 1].cmd, reads |-> b.orphans]
  OBVIOUS
<1>3. e \in EntryType /\ e.cmd = nodes[k + 1].cmd /\ e.reads = b.orphans
  BY <1>1, <1>2 DEF EntryType, OrphanList
<1>4. PICK m \in Nat : m = Len(at)
  BY <1>1
<1>5. PICK s, bt : s = Append(b.cmds, e) /\ bt = Append(at, k + 1)
  OBVIOUS
<1>6. /\ s \in Seq(EntryType) /\ Len(s) = m + 1 /\ s[m + 1] = e
      /\ \A i \in 1 .. m : s[i] = b.cmds[i]
  BY <1>1, <1>3, <1>4, <1>5, AppendIs
<1>7. /\ bt \in Seq(Nat) /\ Len(bt) = m + 1 /\ bt[m + 1] = k + 1
      /\ \A i \in 1 .. m : bt[i] = at[i]
  BY <1>1, <1>4, <1>5, AppendIs
<1>8. \A i \in 1 .. m : at[i] \in Nat /\ at[i] <= k /\ at[i] < k + 1
  <2>1. \A i \in 1 .. m : at[i] \in Nat /\ at[i] <= k
    BY <1>1, <1>4
  <2>2. QED
    BY <2>1
<1>9. Ascending(bt)
  <2>1. \A a \in ToSet(at) : a < k + 1
    <3>1. \A a \in ToSet(at) : \E i \in 1 .. m : at[i] = a
      BY <1>1, <1>4, SetIn
    <3>2. QED
      BY <1>8, <3>1
  <2>2. k + 1 \in Nat
    OBVIOUS
  <2>3. QED
    BY <1>1, <1>5, <2>1, <2>2, AppendAscends
<1>10. c.orphans = <<>> /\ c.cmds = s /\ c = [orphans |-> c.orphans, cmds |-> c.cmds]
  BY <1>2, <1>5
<1>11. OrphanList(nodes, hd, L, <<>>) /\ ToSet(<<>>) = {}
  BY DEF OrphanList, ToSet, Ascending
<1>12. \A a \in ToSet(b.orphans) : a \in Nat /\ a <= k /\ a < k + 1
  <2>1. \A a \in ToSet(b.orphans) : a \in Nat /\ a <= k
    BY <1>1 DEF OrphanList, IsOrphan
  <2>2. QED
    BY <2>1
<1>13. EntryHold(nodes, hd, L, e, bt, m + 1)
  <2>1. ASSUME NEW a \in ToSet(b.orphans), NEW j \in 1 .. (m + 1) - 1 PROVE bt[j] < a
    <3>1. j \in 1 .. m
      OBVIOUS
    <3>2. QED
      BY <1>1, <1>4, <1>7, <3>1
  <2>2. QED
    BY <1>1, <1>3, <1>7, <1>12, <2>1, Zenon DEF EntryHold
<1>14. ASSUME NEW i \in 1 .. m + 1 PROVE bt[i] <= k + 1 /\ EntryHold(nodes, hd, L, s[i], bt, i)
  <2>1. CASE i = m + 1
    BY <1>6, <1>7, <1>13, <2>1
  <2>2. CASE i # m + 1
    <3>1. i \in 1 .. m
      BY <2>2
    <3>2. EntryHold(nodes, hd, L, b.cmds[i], at, i)
      BY <1>1, <1>4, <3>1
    <3>3. i \in Nat /\ 1 <= i /\ \A j \in 1 .. i : bt[j] = at[j]
      BY <1>7, <3>1
    <3>4. EntryHold(nodes, hd, L, b.cmds[i], bt, i)
      BY <3>2, <3>3, EntryKept
    <3>5. bt[i] <= k + 1
      BY <1>7, <1>8, <3>1
    <3>6. QED
      BY <1>6, <3>1, <3>4, <3>5, Zenon
  <2>3. QED
    BY <2>1, <2>2
<1>15. ASSUME NEW n \in L, n <= k + 1 PROVE Placed(nodes, hd, L, c, bt, n)
  <2>1. m + 1 \in 1 .. Len(bt) /\ \A i \in 1 .. m : i \in 1 .. Len(bt)
    BY <1>7
  <2>2. CASE n <= k
    <3>1. Placed(nodes, hd, L, b, at, n)
      BY <1>1, <2>2
    <3>2. ASSUME nodes[n].kind = "cmd" PROVE \E i \in 1 .. Len(bt) : bt[i] = n
      <4>1. PICK i \in 1 .. m : at[i] = n
        BY <1>4, <3>1, <3>2 DEF Placed
      <4>2. QED
        BY <1>7, <2>1, <4>1
    <3>3. ASSUME IsOrphan(nodes, hd, L, n) PROVE \E i \in 1 .. Len(bt) : n \in ToSet(c.cmds[i].reads)
      <4>1. CASE n \in ToSet(b.orphans)
        <5>1. n \in ToSet(s[m + 1].reads)
          BY <1>3, <1>6, <4>1
        <5>2. QED
          BY <1>10, <2>1, <5>1
      <4>2. CASE n \notin ToSet(b.orphans)
        <5>1. PICK i \in 1 .. m : n \in ToSet(b.cmds[i].reads)
          BY <1>4, <3>1, <3>3, <4>2 DEF Placed
        <5>2. n \in ToSet(s[i].reads)
          BY <1>6, <5>1
        <5>3. QED
          BY <1>10, <2>1, <5>2
      <4>3. QED
        BY <4>1, <4>2
    <3>4. QED
      BY <3>2, <3>3, Zenon DEF Placed
  <2>3. CASE ~(n <= k)
    <3>1. n = k + 1
      BY <1>15, <2>3
    <3>2. \E i \in 1 .. Len(bt) : bt[i] = n
      BY <1>7, <2>1, <3>1
    <3>3. ~IsOrphan(nodes, hd, L, n)
      BY <3>1 DEF IsOrphan
    <3>4. QED
      BY <3>2, <3>3, Zenon DEF Placed
  <2>4. QED
    BY <2>2, <2>3
<1>16. BuiltTo(nodes, hd, L, c, bt, k + 1)
  <2>1. \A i \in 1 .. Len(bt) : bt[i] <= k + 1 /\ EntryHold(nodes, hd, L, c.cmds[i], bt, i)
    BY <1>7, <1>10, <1>14
  <2>2. c.cmds \in Seq(EntryType) /\ Len(bt) = Len(c.cmds)
    BY <1>6, <1>7, <1>10
  <2>3. \A a \in ToSet(c.orphans) : a <= k + 1 /\ \A j \in 1 .. Len(bt) : bt[j] < a
    BY <1>10, <1>11
  <2>4. OrphanList(nodes, hd, L, c.orphans)
    BY <1>10, <1>11
  <2>5. QED
    BY <1>7, <1>9, <1>10, <1>15, <2>1, <2>2, <2>3, <2>4, Zenon DEF BuiltTo
<1>17. QED
  BY <1>5, <1>16, Zenon

\* A turn of the pass keeps what is built as it should be.
LEMMA BuiltTurn ==
  ASSUME NEW N \in Nat, NEW nodes, NEW hd, Heads(nodes, N, hd), NEW L, L \subseteq 1 .. N,
         \A n \in 1 .. N : nodes[n].kind \in {"cmd", "sub", "obs"} /\ nodes[n].cmd \in Nat,
         NEW b, NEW at, NEW k \in Nat, k + 1 <= N, BuiltTo(nodes, hd, L, b, at, k)
  PROVE  \E bt : BuiltTo(nodes, hd, L, BuildTurn(<<nodes, N, L>>, b, k + 1), bt, k + 1)
<1>1. PICK q : q = <<nodes, N, L>>
  OBVIOUS
<1>2. q[1] = nodes /\ q[2] = N /\ q[3] = L
  BY <1>1
<1>3. PICK n : n = k + 1
  OBVIOUS
<1>4. n \in 1 .. N /\ hd[n] = CmdNodeOf(nodes, N, nodes[n].cmd) /\ (nodes[n].kind = "cmd" => hd[n] = n)
  BY <1>3 DEF Heads
<1>5. PICK c : c = BuildTurn(q, b, n)
  OBVIOUS
<1>6. L \subseteq Nat /\ nodes[n].kind \in {"cmd", "sub", "obs"} /\ nodes[n].cmd \in Nat
  BY <1>4
<1>7. CASE n \notin L \/ nodes[n].kind = "sub"
  <2>1. c = b
    BY <1>2, <1>5, <1>7 DEF BuildTurn
  <2>2. n \in L => nodes[n].kind # "cmd" /\ ~IsOrphan(nodes, hd, L, n)
    BY <1>7 DEF IsOrphan
  <2>3. BuiltTo(nodes, hd, L, b, at, k + 1)
    BY <1>3, <1>6, <2>2, BuiltSkip
  <2>4. QED
    BY <1>1, <1>3, <1>5, <2>1, <2>3, Zenon
<1>8. CASE n \in L /\ nodes[n].kind = "cmd"
  <2>1. c = [orphans |-> <<>>, cmds |-> Append(b.cmds, [cmd |-> nodes[n].cmd, reads |-> b.orphans])]
    BY <1>2, <1>5, <1>8 DEF BuildTurn
  <2>2. BuiltTo(nodes, hd, L, c, Append(at, k + 1), k + 1)
    BY <1>3, <1>6, <1>8, <2>1, BuiltCmd
  <2>3. QED
    BY <1>1, <1>3, <1>5, <2>2, Zenon
<1>9. CASE n \in L /\ nodes[n].kind = "obs" /\ hd[n] \in L
  <2>1. c = b
    BY <1>2, <1>4, <1>5, <1>9 DEF BuildTurn
  <2>2. n \in L => nodes[n].kind # "cmd" /\ ~IsOrphan(nodes, hd, L, n)
    BY <1>9 DEF IsOrphan
  <2>3. BuiltTo(nodes, hd, L, b, at, k + 1)
    BY <1>3, <1>6, <2>2, BuiltSkip
  <2>4. QED
    BY <1>1, <1>3, <1>5, <2>1, <2>3, Zenon
<1>10. CASE n \in L /\ nodes[n].kind = "obs" /\ hd[n] \notin L
  <2>1. c = [b EXCEPT !.orphans = Append(@, n)]
    BY <1>2, <1>4, <1>5, <1>10 DEF BuildTurn
  <2>2. b = [orphans |-> b.orphans, cmds |-> b.cmds]
    BY Zenon DEF BuiltTo
  <2>3. c = [orphans |-> Append(b.orphans, n), cmds |-> b.cmds]
    BY <2>1, <2>2
  <2>4. IsOrphan(nodes, hd, L, n)
    BY <1>10 DEF IsOrphan
  <2>5. BuiltTo(nodes, hd, L, c, at, k + 1)
    BY <1>3, <1>6, <2>3, <2>4, BuiltOrphan
  <2>6. QED
    BY <1>1, <1>3, <1>5, <2>5, Zenon
<1>11. QED
  BY <1>6, <1>7, <1>8, <1>9, <1>10

\* So does the whole pass.
LEMMA BuildsAll ==
  ASSUME NEW N \in Nat, NEW nodes, NEW hd, Heads(nodes, N, hd), NEW L, L \subseteq 1 .. N,
         \A n \in 1 .. N : nodes[n].kind \in {"cmd", "sub", "obs"} /\ nodes[n].cmd \in Nat
  PROVE  \E at : BuiltTo(nodes, hd, L,
                   BuildFold!Fold(<<nodes, N, L>>, [orphans |-> <<>>, cmds |-> <<>>], [n \in 1 .. N |-> n]), at, N)
<1>1. PICK xs : xs = [n \in 1 .. N |-> n]
  OBVIOUS
<1>2. xs \in Seq(Nat) /\ Len(xs) = N /\ \A n \in 1 .. N : xs[n] = n
  BY <1>1
<1>3. PICK q, base : q = <<nodes, N, L>> /\ base = [orphans |-> <<>>, cmds |-> <<>>]
  OBVIOUS
<1>4. PICK r : BuildRuns(q, base, xs, N, r)
  BY <1>2, BuildSteps
<1>5. /\ r[0] = base /\ \A j \in 1 .. N : r[j] = BuildTurn(q, r[j - 1], xs[j])
      /\ BuildFold!Fold(q, base, xs) = r[N]
  BY <1>4 DEF BuildRuns
<1> DEFINE Good == {k \in Nat : k <= N => \E at : BuiltTo(nodes, hd, L, r[k], at, k)}
<1>6. 0 \in Good
  <2>1. L \subseteq Nat \ {0}
    OBVIOUS
  <2>2. BuiltTo(nodes, hd, L, [orphans |-> <<>>, cmds |-> <<>>], <<>>, 0)
    BY <2>1, BuiltNothing
  <2>3. BuiltTo(nodes, hd, L, r[0], <<>>, 0)
    BY <1>3, <1>5, <2>2, Zenon
  <2>4. QED
    BY <2>3
<1>7. ASSUME NEW k \in Nat, k \in Good PROVE k + 1 \in Good
  <2>1. SUFFICES ASSUME k + 1 <= N PROVE \E at : BuiltTo(nodes, hd, L, r[k + 1], at, k + 1)
    OBVIOUS
  <2>2. k <= N /\ k + 1 \in 1 .. N /\ (k + 1) - 1 = k
    BY <2>1
  <2>3. PICK b, at : b = r[k] /\ BuiltTo(nodes, hd, L, b, at, k)
    BY <1>7, <2>2
  <2>4. r[k + 1] = BuildTurn(q, b, k + 1)
    BY <1>2, <1>5, <2>2, <2>3
  <2>5. \E bt : BuiltTo(nodes, hd, L, BuildTurn(<<nodes, N, L>>, b, k + 1), bt, k + 1)
    BY <2>1, <2>3, BuiltTurn
  <2>6. QED
    BY <1>3, <2>4, <2>5, Zenon
<1> HIDE DEF Good
<1>8. \A k \in Nat : k \in Good
  BY <1>6, <1>7, MarkFold!NatSetInduction
<1>9. N \in Good /\ N <= N
  BY <1>8
<1>10. \E at : BuiltTo(nodes, hd, L, r[N], at, N)
  BY <1>9 DEF Good
<1>11. QED
  BY <1>1, <1>3, <1>5, <1>10, Zenon

-----------------------------------------------------------------------------
(***************************************************************************)
(* What the built commands are.                                            *)
(***************************************************************************)
\* The observations of command c.
ObsIn(nodes, N, c) == {n \in 1 .. N : nodes[n].kind = "obs" /\ nodes[n].cmd = c}

\* The observations that built command i applies.
AppliedAt(nodes, N, es, i) == ToSet(es[i].reads) \cup ObsIn(nodes, N, es[i].cmd)

\* The entries es are those of the command nodes at.
EntriesAt(nodes, hd, L, es, at, M) ==
  /\ es \in Seq(EntryType) /\ at \in Seq(Nat) /\ M \in Nat /\ Len(es) = M /\ Len(at) = M /\ Ascending(at)
  /\ \A i \in 1 .. M : EntryHold(nodes, hd, L, es[i], at, i)

\* The entries at the end of the pass.
LEMMA EntriesBuilt ==
  ASSUME NEW nodes, NEW hd, NEW L, NEW b, NEW at, NEW k, BuiltTo(nodes, hd, L, b, at, k), NEW M, M = Len(at)
  PROVE  EntriesAt(nodes, hd, L, b.cmds, at, M)
<1>1. at \in Seq(Nat) /\ Len(at) = Len(b.cmds)
  BY DEF BuiltTo
<1>2. M \in Nat
  BY <1>1
<1>3. QED
  BY <1>1, <1>2, Zenon DEF BuiltTo, EntriesAt

\* Entry i, what it is of and what it reads.
EntryIs(nodes, N, hd, L, es, at, i) ==
  /\ at[i] \in L /\ at[i] \in 1 .. N /\ hd[at[i]] = at[i] /\ es[i].cmd = nodes[at[i]].cmd
  /\ es[i].reads \in Seq(Nat) /\ Ascending(es[i].reads)
  /\ \A a \in ToSet(es[i].reads) :
       /\ a \in 1 .. N /\ a \in L /\ hd[a] \notin L /\ a < at[i] /\ \A j \in 1 .. i - 1 : at[j] < a

\* Every entry is of a live command node and reads orphans from after the
\* entry before.
LEMMA EntryAt ==
  ASSUME NEW N \in Nat, NEW nodes, NEW hd, Heads(nodes, N, hd), NEW L, L \subseteq 1 .. N, NEW es, NEW at, NEW M,
         EntriesAt(nodes, hd, L, es, at, M), NEW i \in 1 .. M
  PROVE  EntryIs(nodes, N, hd, L, es, at, i)
<1>1. EntryHold(nodes, hd, L, es[i], at, i)
  BY DEF EntriesAt
<1>2. at[i] \in L /\ at[i] \in 1 .. N /\ nodes[at[i]].kind = "cmd" /\ es[i].cmd = nodes[at[i]].cmd
  BY <1>1 DEF EntryHold
<1>3. hd[at[i]] = at[i]
  BY <1>2 DEF Heads
<1>4. QED
  BY <1>1, <1>2, <1>3 DEF EntryHold, OrphanList, IsOrphan, EntryIs

\* Entries are in the order of their commands.
LEMMA EntriesAscend ==
  ASSUME NEW N \in Nat, NEW C \in Nat, NEW nodes, Ordered(nodes, N, C), NEW hd, Heads(nodes, N, hd),
         NEW L, L \subseteq 1 .. N, NEW es, NEW at, NEW M, EntriesAt(nodes, hd, L, es, at, M)
  PROVE  \A i, j \in 1 .. M : i < j => at[i] < at[j] /\ es[i].cmd < es[j].cmd
<1>1. SUFFICES ASSUME NEW i \in 1 .. M, NEW j \in 1 .. M, i < j PROVE at[i] < at[j] /\ es[i].cmd < es[j].cmd
  OBVIOUS
<1>2. at[i] < at[j]
  <2>1. DOMAIN at = 1 .. M /\ Ascending(at)
    BY DEF EntriesAt
  <2>2. QED
    BY <1>1, <2>1 DEF Ascending
<1>3. at[i] \in 1 .. N /\ hd[at[i]] = at[i] /\ es[i].cmd = nodes[at[i]].cmd
  <2>1. EntryIs(nodes, N, hd, L, es, at, i)
    BY EntryAt
  <2>2. QED
    BY <2>1 DEF EntryIs
<1>4. at[j] \in 1 .. N /\ hd[at[j]] = at[j] /\ es[j].cmd = nodes[at[j]].cmd
  <2>1. EntryIs(nodes, N, hd, L, es, at, j)
    BY EntryAt
  <2>2. QED
    BY <2>1 DEF EntryIs
<1>5. PICK n \in 1 .. N, m \in 1 .. N : n = at[i] /\ m = at[j]
  BY <1>3, <1>4
<1>6. n < m /\ hd[n] = n /\ hd[m] = m
  BY <1>2, <1>3, <1>4, <1>5
<1>7. nodes[n].cmd <= nodes[m].cmd /\ nodes[n].cmd \in 1 .. C /\ nodes[m].cmd \in 1 .. C
  BY <1>6 DEF Ordered
<1>8. nodes[n].cmd # nodes[m].cmd
  <2>1. hd[n] # hd[m]
    BY <1>6
  <2>2. QED
    BY <2>1 DEF Heads
<1>9. nodes[n].cmd < nodes[m].cmd
  BY <1>7, <1>8
<1>10. QED
  BY <1>2, <1>3, <1>4, <1>5, <1>9

\* The observations of an entry's command come after it, and after its reads.
LEMMA ReadsFirst ==
  ASSUME NEW N \in Nat, NEW nodes, NEW hd, Heads(nodes, N, hd), NEW L, L \subseteq 1 .. N, NEW es, NEW at, NEW M,
         EntriesAt(nodes, hd, L, es, at, M), NEW i \in 1 .. M, NEW n \in ObsIn(nodes, N, es[i].cmd)
  PROVE  n \in 1 .. N /\ nodes[n].cmd = es[i].cmd /\ at[i] <= n /\ \A a \in ToSet(es[i].reads) : a < n
<1>1. /\ at[i] \in 1 .. N /\ hd[at[i]] = at[i] /\ es[i].cmd = nodes[at[i]].cmd
      /\ \A a \in ToSet(es[i].reads) : a \in 1 .. N /\ a < at[i]
  <2>1. EntryIs(nodes, N, hd, L, es, at, i)
    BY EntryAt
  <2>2. QED
    BY <2>1 DEF EntryIs
<1>2. n \in 1 .. N /\ nodes[n].cmd = es[i].cmd
  BY DEF ObsIn
<1>3. hd[n] = hd[at[i]] /\ hd[n] <= n
  BY <1>1, <1>2 DEF Heads
<1>4. at[i] <= n
  BY <1>1, <1>3
<1>5. \A a \in ToSet(es[i].reads) : a < n
  BY <1>1, <1>2, <1>4
<1>6. QED
  BY <1>2, <1>4, <1>5

\* No built command applies an observation that comes before one that an
\* earlier built command applies.
LEMMA AppliedInOrder ==
  ASSUME NEW N \in Nat, NEW C \in Nat, NEW nodes, Ordered(nodes, N, C), NEW hd, Heads(nodes, N, hd),
         NEW L, L \subseteq 1 .. N, NEW es, NEW at, NEW M, EntriesAt(nodes, hd, L, es, at, M),
         NEW i \in 1 .. M, NEW j \in 1 .. i - 1, NEW a \in AppliedAt(nodes, N, es, j), NEW b \in AppliedAt(nodes, N, es, i)
  PROVE  a < b
<1>0. M \in Nat
  BY DEF EntriesAt
<1>1. i \in Nat /\ j \in 1 .. M /\ j < i
  BY <1>0
<1>2. at[j] < at[i] /\ es[j].cmd < es[i].cmd
  BY <1>1, EntriesAscend
<1>3. /\ at[i] \in 1 .. N /\ es[i].cmd = nodes[at[i]].cmd
      /\ \A d \in ToSet(es[i].reads) :
           d \in 1 .. N /\ d \in L /\ hd[d] \notin L /\ d < at[i] /\ \A k \in 1 .. i - 1 : at[k] < d
  <2>1. EntryIs(nodes, N, hd, L, es, at, i)
    BY EntryAt
  <2>2. QED
    BY <2>1 DEF EntryIs
<1>4. /\ at[j] \in L /\ at[j] \in 1 .. N /\ hd[at[j]] = at[j] /\ es[j].cmd = nodes[at[j]].cmd
      /\ \A d \in ToSet(es[j].reads) : d \in 1 .. N /\ d < at[j]
  <2>1. EntryIs(nodes, N, hd, L, es, at, j)
    BY <1>1, EntryAt
  <2>2. QED
    BY <2>1 DEF EntryIs
<1>5. CASE a \in ToSet(es[j].reads) /\ b \in ToSet(es[i].reads)
  <2>1. a \in 1 .. N /\ a < at[j] /\ b \in 1 .. N /\ at[j] < b
    BY <1>3, <1>4, <1>5
  <2>2. QED
    BY <1>4, <2>1
<1>6. CASE a \in ToSet(es[j].reads) /\ b \in ObsIn(nodes, N, es[i].cmd)
  <2>1. b \in 1 .. N /\ at[i] <= b
    BY <1>6, ReadsFirst
  <2>2. a \in 1 .. N /\ a < at[j]
    BY <1>4, <1>6
  <2>3. QED
    BY <1>2, <1>3, <1>4, <2>1, <2>2
<1>7. CASE a \in ObsIn(nodes, N, es[j].cmd) /\ b \in ObsIn(nodes, N, es[i].cmd)
  <2>1. b \in 1 .. N /\ nodes[b].cmd = es[i].cmd
    BY <1>7 DEF ObsIn
  <2>2. a \in 1 .. N /\ nodes[a].cmd = es[j].cmd
    BY <1>7 DEF ObsIn
  <2>3. nodes[a].cmd < nodes[b].cmd
    BY <1>2, <2>1, <2>2
  <2>4. a < hd[b] /\ hd[b] <= b /\ hd[b] \in 1 .. N
    BY <2>1, <2>2, <2>3 DEF Heads
  <2>5. QED
    BY <2>1, <2>2, <2>4
<1>8. CASE a \in ObsIn(nodes, N, es[j].cmd) /\ b \in ToSet(es[i].reads)
  <2>1. b \in 1 .. N /\ hd[b] \notin L /\ at[j] < b
    BY <1>3, <1>8
  <2>2. a \in 1 .. N /\ nodes[a].cmd = es[j].cmd
    BY <1>8 DEF ObsIn
  <2>3. nodes[b].cmd # nodes[at[j]].cmd
    <3>1. hd[b] # hd[at[j]]
      BY <1>4, <2>1
    <3>2. QED
      BY <1>4, <2>1, <3>1 DEF Heads
  <2>4. PICK n \in 1 .. N : n = at[j]
    BY <1>4
  <2>5. nodes[n].cmd <= nodes[b].cmd /\ nodes[n].cmd \in 1 .. C /\ nodes[b].cmd \in 1 .. C
    <3>1. n <= b
      BY <2>1, <2>4
    <3>2. QED
      BY <2>1, <3>1 DEF Ordered
  <2>6. nodes[a].cmd < nodes[b].cmd
    BY <1>4, <2>2, <2>3, <2>4, <2>5
  <2>7. a < hd[b] /\ hd[b] <= b /\ hd[b] \in 1 .. N
    BY <2>1, <2>2, <2>6 DEF Heads
  <2>8. QED
    BY <2>1, <2>2, <2>7
<1>9. QED
  BY <1>5, <1>6, <1>7, <1>8 DEF AppliedAt

\* A live node has an entry for its command, when that is live.
IsEntry(nodes, hd, es, at, i, n) == at[i] = hd[n] /\ es[i].cmd = nodes[n].cmd

\* A node whose command node is live has an entry.
LEMMA EntryOf ==
  ASSUME NEW N \in Nat, NEW nodes, NEW hd, Heads(nodes, N, hd), NEW L, L \subseteq 1 .. N, NEW b, NEW at,
         BuiltTo(nodes, hd, L, b, at, N), NEW n \in 1 .. N, hd[n] \in L
  PROVE  \E i \in 1 .. Len(at) : IsEntry(nodes, hd, b.cmds, at, i, n)
<1>1. hd[n] \in 1 .. N /\ hd[n] <= N /\ nodes[hd[n]].kind = "cmd" /\ nodes[hd[n]].cmd = nodes[n].cmd
  BY DEF Heads
<1>2. Placed(nodes, hd, L, b, at, hd[n])
  BY <1>1 DEF BuiltTo
<1>3. PICK i \in 1 .. Len(at) : at[i] = hd[n]
  BY <1>1, <1>2 DEF Placed
<1>4. b.cmds[i].cmd = nodes[at[i]].cmd
  BY DEF BuiltTo, EntryHold
<1>5. QED
  BY <1>1, <1>3, <1>4 DEF IsEntry

\* The command of live node n is built, and what n needs of node m is there
\* by then.
NeedMet(nodes, N, es, n, m) ==
  \E i \in 1 .. Len(es) :
    /\ es[i].cmd = nodes[n].cmd
    /\ nodes[m].kind = "obs" => \E j \in 1 .. i : m \in AppliedAt(nodes, N, es, j)
    /\ nodes[m].kind # "obs" => \E j \in 1 .. Len(es) : es[j].cmd = nodes[m].cmd

\* With a live node everything that it depends on is there in time.
LEMMA NeedsMet ==
  ASSUME NEW N \in Nat, NEW C \in Nat, NEW nodes, Ordered(nodes, N, C), NEW hd, Heads(nodes, N, hd),
         NEW L, L \subseteq 1 .. N, NEW b, NEW at, BuiltTo(nodes, hd, L, b, at, N),
         \A k \in L : nodes[k].kind # "obs" => hd[k] \in L,
         NEW n \in L, NEW m \in L, nodes[n].kind # "obs", nodes[m].kind = "obs" => nodes[m].cmd <= nodes[n].cmd
  PROVE  NeedMet(nodes, N, b.cmds, n, m)
<1>1. PICK M : M = Len(at)
  OBVIOUS
<1>2. EntriesAt(nodes, hd, L, b.cmds, at, M)
  BY <1>1, EntriesBuilt
<1>3. M \in Nat /\ Len(b.cmds) = M
  BY <1>2 DEF EntriesAt
<1>4. PICK i \in 1 .. M : at[i] = hd[n] /\ b.cmds[i].cmd = nodes[n].cmd
  <2>1. n \in 1 .. N /\ hd[n] \in L
    OBVIOUS
  <2>2. PICK k \in 1 .. M : IsEntry(nodes, hd, b.cmds, at, k, n)
    BY <1>1, <2>1, EntryOf
  <2>3. QED
    BY <2>2 DEF IsEntry
<1>5. ASSUME nodes[m].kind # "obs" PROVE \E j \in 1 .. M : b.cmds[j].cmd = nodes[m].cmd
  <2>1. m \in 1 .. N /\ hd[m] \in L
    BY <1>5
  <2>2. PICK k \in 1 .. M : IsEntry(nodes, hd, b.cmds, at, k, m)
    BY <1>1, <2>1, EntryOf
  <2>3. QED
    BY <2>2 DEF IsEntry
<1>6. ASSUME nodes[m].kind = "obs" PROVE \E j \in 1 .. i : m \in AppliedAt(nodes, N, b.cmds, j)
  <2>1. /\ n \in 1 .. N /\ m \in 1 .. N /\ nodes[m].cmd <= nodes[n].cmd
        /\ nodes[n].cmd \in 1 .. C /\ nodes[m].cmd \in 1 .. C
    BY <1>6 DEF Ordered
  <2>2. CASE hd[m] \in L
    <3>1. PICK j \in 1 .. M : b.cmds[j].cmd = nodes[m].cmd
      <4>1. PICK k \in 1 .. M : IsEntry(nodes, hd, b.cmds, at, k, m)
        BY <1>1, <2>1, <2>2, EntryOf
      <4>2. QED
        BY <4>1 DEF IsEntry
    <3>2. m \in AppliedAt(nodes, N, b.cmds, j)
      BY <1>6, <2>1, <3>1 DEF AppliedAt, ObsIn
    <3>3. i < j => b.cmds[i].cmd < b.cmds[j].cmd
      BY <1>2, EntriesAscend
    <3>4. ~(i < j)
      BY <1>4, <2>1, <3>1, <3>3
    <3>5. j \in 1 .. i
      BY <1>3, <3>4
    <3>6. QED
      BY <3>2, <3>5
  <2>3. CASE hd[m] \notin L
    <3>1. Placed(nodes, hd, L, b, at, m) /\ IsOrphan(nodes, hd, L, m)
      <4>1. m <= N
        BY <2>1
      <4>2. QED
        BY <1>6, <2>3, <4>1 DEF BuiltTo, IsOrphan
    <3>2. nodes[m].cmd # nodes[n].cmd
      <4>1. hd[n] \in L
        OBVIOUS
      <4>2. hd[n] # hd[m]
        BY <2>3, <4>1
      <4>3. QED
        BY <2>1, <4>2 DEF Heads
    <3>3. nodes[m].cmd < nodes[n].cmd
      BY <2>1, <3>2
    <3>4. m < hd[n] /\ hd[n] \in 1 .. N
      BY <2>1, <3>3 DEF Heads
    <3>5. ~(at[i] < m)
      BY <1>4, <2>1, <3>4
    <3>6. m \notin ToSet(b.orphans)
      BY <1>1, <3>5 DEF BuiltTo
    <3>7. PICK j \in 1 .. M : m \in ToSet(b.cmds[j].reads)
      BY <1>1, <3>1, <3>6 DEF Placed
    <3>8. \A k \in 1 .. j - 1 : at[k] < m
      <4>1. PICK es : es = b.cmds
        OBVIOUS
      <4>2. EntryIs(nodes, N, hd, L, es, at, j)
        BY <1>2, <4>1, EntryAt
      <4>3. QED
        BY <3>7, <4>1, <4>2 DEF EntryIs
    <3>9. ~(i < j)
      BY <1>3, <3>5, <3>8
    <3>10. j \in 1 .. i
      BY <1>3, <3>9
    <3>11. QED
      BY <3>7, <3>10 DEF AppliedAt
  <2>4. QED
    BY <2>2, <2>3
<1>7. QED
  BY <1>3, <1>4, <1>5, <1>6, Zenon DEF NeedMet

-----------------------------------------------------------------------------
(***************************************************************************)
(* Dead code elimination is faithful.                                      *)
(***************************************************************************)
\* What LiveFaithful says of a graph, live nodes, built commands and needs.
InOrder(nodes, N, es) ==
  /\ es \in Seq(EntryType)
  /\ \A i, j \in 1 .. Len(es) : i < j => es[i].cmd < es[j].cmd
  /\ \A i \in 1 .. Len(es) :
       /\ Ascending(es[i].reads)
       /\ \A a \in ToSet(es[i].reads), b \in ObsIn(nodes, N, es[i].cmd) : a < b
       /\ \A j \in 1 .. i - 1 : \A a \in AppliedAt(nodes, N, es, j), b \in AppliedAt(nodes, N, es, i) : a < b

\* Every need of a live node is met.
AllMet(nodes, N, L, es, nd) ==
  \A x \in nd : x[1] \notin {"object", "whole"} /\ x[2] \in L => NeedMet(nodes, N, es, x[2], x[3])

\* Every need is of a command or subcommand, for something not later, and is
\* a dependency.
NeedsAreDeps(nodes, N, deps, nd) ==
  \A x \in nd : x[1] \notin {"object", "whole"} =>
    /\ x[2] \in 1 .. N /\ x[3] \in deps[x[2]] /\ nodes[x[2]].kind # "obs"
    /\ nodes[x[3]].kind = "obs" => nodes[x[3]].cmd <= nodes[x[2]].cmd

\* The built commands and their observations are in the order of the capture.
LEMMA BuildsInOrder ==
  ASSUME NEW N \in Nat, NEW C \in Nat, NEW nodes, Ordered(nodes, N, C), NEW hd, Heads(nodes, N, hd),
         NEW L, L \subseteq 1 .. N, NEW es, NEW at, NEW M, EntriesAt(nodes, hd, L, es, at, M)
  PROVE  InOrder(nodes, N, es)
<1>1. es \in Seq(EntryType) /\ M \in Nat /\ Len(es) = M
  BY DEF EntriesAt
<1>2. \A i, j \in 1 .. M : i < j => es[i].cmd < es[j].cmd
  BY EntriesAscend
<1>3. ASSUME NEW i \in 1 .. M
      PROVE  /\ Ascending(es[i].reads)
             /\ \A a \in ToSet(es[i].reads), b \in ObsIn(nodes, N, es[i].cmd) : a < b
  <2>1. EntryIs(nodes, N, hd, L, es, at, i)
    BY EntryAt
  <2>2. ASSUME NEW b \in ObsIn(nodes, N, es[i].cmd) PROVE \A a \in ToSet(es[i].reads) : a < b
    BY ReadsFirst
  <2>3. QED
    BY <2>1, <2>2 DEF EntryIs
<1>4. ASSUME NEW i \in 1 .. M, NEW j \in 1 .. i - 1, NEW a \in AppliedAt(nodes, N, es, j), NEW b \in AppliedAt(nodes, N, es, i)
      PROVE  a < b
  BY AppliedInOrder
<1>5. QED
  BY <1>1, <1>2, <1>3, <1>4, Zenon DEF InOrder

\* The pass over nodes in order, with live ones that are closed under
\* dependencies, builds what is needed.
LEMMA BuildsFaithful ==
  ASSUME NEW N \in Nat, NEW C \in Nat, NEW nodes, Ordered(nodes, N, C),
         \A n \in 1 .. N : nodes[n].kind \in {"cmd", "sub", "obs"} /\ nodes[n].cmd \in Nat,
         \A c \in 1 .. C : \E n \in 1 .. N : nodes[n] = [kind |-> "cmd", cmd |-> c],
         NEW deps, \A n \in 1 .. N : nodes[n].kind = "sub" => \E m \in deps[n] : IsParent(nodes, m, n),
         NEW L, L \subseteq 1 .. N, ClosedUnder(deps, L), NEW nd, NeedsAreDeps(nodes, N, deps, nd),
         NEW b, b = BuildFold!Fold(<<nodes, N, L>>, [orphans |-> <<>>, cmds |-> <<>>], [n \in 1 .. N |-> n])
  PROVE  InOrder(nodes, N, b.cmds) /\ AllMet(nodes, N, L, b.cmds, nd)
<1>1. PICK hd : hd = [n \in 1 .. N |-> CmdNodeOf(nodes, N, nodes[n].cmd)]
  OBVIOUS
<1>2. Heads(nodes, N, hd)
  <2>1. Heads(nodes, N, [n \in 1 .. N |-> CmdNodeOf(nodes, N, nodes[n].cmd)])
    BY HeadsAre
  <2>2. QED
    BY <1>1, <2>1, Zenon
<1>3. PICK at : BuiltTo(nodes, hd, L, b, at, N)
  <2>1. \E at : BuiltTo(nodes, hd, L,
          BuildFold!Fold(<<nodes, N, L>>, [orphans |-> <<>>, cmds |-> <<>>], [n \in 1 .. N |-> n]), at, N)
    BY <1>2, BuildsAll
  <2>2. QED
    BY <2>1, Zenon
<1>4. PICK es, M : es = b.cmds /\ M = Len(at)
  OBVIOUS
<1>5. EntriesAt(nodes, hd, L, es, at, M)
  BY <1>3, <1>4, EntriesBuilt
<1>6. InOrder(nodes, N, es)
  BY <1>2, <1>5, BuildsInOrder
<1>7. \A n \in L : nodes[n].kind # "obs" => hd[n] \in L
  <2>1. \A n \in 1 .. N : nodes[n].kind \in {"cmd", "sub", "obs"}
    OBVIOUS
  <2>2. QED
    BY <1>2, <2>1, HeadsLive
<1>8. ASSUME NEW x \in nd, x[1] \notin {"object", "whole"}, x[2] \in L PROVE NeedMet(nodes, N, b.cmds, x[2], x[3])
  <2>1. PICK n, m : n = x[2] /\ m = x[3]
    OBVIOUS
  <2>2. n \in L /\ m \in deps[n] /\ nodes[n].kind # "obs" /\ (nodes[m].kind = "obs" => nodes[m].cmd <= nodes[n].cmd)
    BY <1>8, <2>1 DEF NeedsAreDeps
  <2>3. m \in L
    BY <2>2 DEF ClosedUnder
  <2>4. NeedMet(nodes, N, b.cmds, n, m)
    BY <1>2, <1>3, <1>7, <2>2, <2>3, NeedsMet
  <2>5. QED
    BY <2>1, <2>4, Zenon
<1>9. QED
  BY <1>4, <1>6, <1>8, Zenon DEF AllMet

\* The inductive form of LiveFaithful.
BuiltOK ==
  stage = "built" =>
    InOrder(graph.nodes, NumNodes, dce.cmds) /\ AllMet(graph.nodes, NumNodes, dce.live, dce.cmds, need)

\* Between commands every need is a dependency.
LEMMA NeedsSettled ==
  ASSUME Inv, FieldInv, OrderInv, stage = "idle"
  PROVE  NeedsAreDeps(graph.nodes, NumNodes, graph.deps, need)
<1>1. pendingNodes = <<>>
  BY InvTyped DEF Struct, StageOK
<1>2. NumNodes \in Nat /\ Base = NumNodes
  <2>1. Struct
    BY InvTyped
  <2>2. NumNodes \in Nat
    BY <2>1, Numbers
  <2>3. QED
    BY <1>1, <2>2 DEF Base
<1>3. \A n : Settled(n)
  BY <1>1 DEF Settled
<1>4. InGraph("memory") /\ InGraph("field") /\ InGraph("forward")
  BY InvMemory, InvField, InvForward DEF MemoryDepsSound, FieldDepsSound, ForwardDepsSound
<1>5. ASSUME NEW x \in need, x[1] \notin {"object", "whole"}
      PROVE  /\ x[2] \in 1 .. NumNodes /\ x[3] \in graph.deps[x[2]] /\ graph.nodes[x[2]].kind # "obs"
             /\ graph.nodes[x[3]].kind = "obs" => graph.nodes[x[3]].cmd <= graph.nodes[x[2]].cmd
  <2>1. NeedOK(x)
    BY DEF OrderInv, NeedsOK
  <2>2. NeedAt(x[2], x[3])
    BY <1>5, <2>1 DEF NeedOK
  <2>3. x[3] \in graph.deps[x[2]]
    <3>1. CASE x[1] \in {"memory", "field", "forward"}
      BY <1>3, <1>4, <3>1 DEF InGraph
    <3>2. CASE x[1] = "record"
      <4>1. Recorded(x[2], x[3])
        BY <2>1, <3>2 DEF NeedOK
      <4>2. x[2] <= Base
        BY <1>2, <2>2 DEF NeedAt
      <4>3. QED
        BY <4>1, <4>2 DEF Recorded
    <3>3. QED
      BY <1>5, <2>1, <3>1, <3>2 DEF NeedOK
  <2>4. QED
    BY <2>2, <2>3 DEF NeedAt, IsObs
<1>6. QED
  BY <1>5 DEF NeedsAreDeps

\* The commands that DCECapture builds are those of the pass.
LEMMA DCEIs ==
  ASSUME NEW s, DCECapture(s)
  PROVE  dce'.cmds = BuildFold!Fold(<<graph.nodes, NumNodes, dce'.live>>,
                                    [orphans |-> <<>>, cmds |-> <<>>], [n \in 1 .. NumNodes |-> n]).cmds
<1> DEFINE L == MarkDependencies(s \cup {CmdNode(c) : c \in graph.unopened})
<1>1. dce' = [live |-> L,
              cmds |-> FoldLeft(LAMBDA b, n : ProcessNode(b, n, L),
                                [orphans |-> <<>>, cmds |-> <<>>], [n \in 1 .. NumNodes |-> n]).cmds]
  BY Zenon DEF DCECapture
<1> HIDE DEF L
<1>2. FoldLeft(LAMBDA b, n : ProcessNode(b, n, L), [orphans |-> <<>>, cmds |-> <<>>], [n \in 1 .. NumNodes |-> n])
        = BuildFold!Fold(<<graph.nodes, NumNodes, L>>, [orphans |-> <<>>, cmds |-> <<>>], [n \in 1 .. NumNodes |-> n])
  BY BuildIsFold
<1>3. dce' = [live |-> L,
              cmds |-> BuildFold!Fold(<<graph.nodes, NumNodes, L>>, [orphans |-> <<>>, cmds |-> <<>>],
                                      [n \in 1 .. NumNodes |-> n]).cmds]
  BY <1>1, <1>2, Zenon
<1>4. QED
  BY <1>3, Zenon

\* DCECapture establishes BuiltOK.
LEMMA DCEBuilds ==
  ASSUME Inv, FieldInv, OrderInv, NEW s \in Requests, DCECapture(s)
  PROVE  BuiltOK'
<1>1. Struct /\ FwdInv
  BY InvTyped
<1>2. stage = "idle" /\ UNCHANGED <<graph, need>> /\ NumNodes' = NumNodes
  <2>1. stage = "idle"
    BY DEF DCECapture
  <2>2. QED
    BY <1>1, <2>1, DCEKeeps
<1>3. PICK N, C, nodes, deps : N = NumNodes /\ C = cmds /\ nodes = graph.nodes /\ deps = graph.deps
  OBVIOUS
<1>4. N \in Nat /\ C \in Nat
  BY <1>1, <1>3, Numbers DEF Struct, StageOK
<1>5. Base = NumNodes
  <2>1. pendingNodes = <<>>
    BY <1>1, <1>2 DEF Struct, StageOK
  <2>2. QED
    BY <1>3, <1>4, <2>1 DEF Base
<1>6. \A n \in 1 .. N : nodes[n].kind \in {"cmd", "sub", "obs"} /\ nodes[n].cmd \in Nat
  <2>1. nodes \in Seq(NodeType) /\ Len(nodes) = N
    BY <1>1, <1>3 DEF Struct, StageOK, GraphType
  <2>2. \A n \in 1 .. N : nodes[n] \in NodeType
    BY <1>4, <2>1
  <2>3. QED
    BY <2>2 DEF NodeType
<1>7. \A c \in 1 .. C : \E n \in 1 .. N : nodes[n] = [kind |-> "cmd", cmd |-> c]
  BY <1>1, <1>3, Zenon DEF Struct, StageOK
<1>8. Ordered(nodes, N, C)
  BY <1>3, Zenon DEF OrderInv
<1>9. ASSUME NEW n \in 1 .. N, nodes[n].kind = "sub" PROVE \E m \in deps[n] : IsParent(nodes, m, n)
  <2>1. ParentAt(n)
    BY <1>3, <1>9, Zenon DEF OrderInv, Parents
  <2>2. n <= Base
    BY <1>3, <1>4, <1>5
  <2>3. QED
    BY <1>3, <2>1, <2>2, Zenon DEF ParentAt
<1>10. PICK asked : asked = s \cup {CmdNode(c) : c \in graph.unopened}
  OBVIOUS
<1>11. asked \subseteq 1 .. N
  <2>1. \A c \in graph.unopened : CmdNode(c) \in 1 .. NumNodes
    BY <1>1 DEF Struct, StageOK, CmdNode
  <2>2. s \subseteq 1 .. NumNodes
    BY DEF Requests
  <2>3. QED
    BY <1>3, <1>10, <2>1, <2>2
<1>12. \A n \in 1 .. N : deps[n] \subseteq 1 .. N
  BY <1>1, <1>3, <1>5 DEF FwdInv, DepsOK
<1>13. PICK L : L = MarkDependencies(asked)
  OBVIOUS
<1>14. L = MarkFold!Fold(deps, asked, [i \in 1 .. N |-> i])
  BY <1>3, <1>13, MarkIsFold
<1>15. L \subseteq 1 .. N /\ ClosedUnder(deps, L)
  <2>1. MarkFold!Fold(deps, asked, [i \in 1 .. N |-> i]) \subseteq 1 .. N
    BY <1>4, <1>11, <1>12, Marked
  <2>2. ClosedUnder(deps, MarkFold!Fold(deps, asked, [i \in 1 .. N |-> i]))
    BY <1>4, <1>11, <1>12, MarkCloses
  <2>3. QED
    BY <1>14, <2>1, <2>2, Zenon
<1>16. dce'.live = L
  BY <1>10, <1>13 DEF DCECapture
<1>17. PICK b : b = BuildFold!Fold(<<nodes, N, L>>, [orphans |-> <<>>, cmds |-> <<>>], [n \in 1 .. N |-> n])
  OBVIOUS
<1>18. dce'.cmds = b.cmds
  BY <1>3, <1>16, <1>17, DCEIs, Zenon
<1>19. NeedsAreDeps(nodes, N, deps, need)
  BY <1>2, <1>3, NeedsSettled
<1>20. InOrder(nodes, N, b.cmds) /\ AllMet(nodes, N, L, b.cmds, need)
  <2>1. PICK nd : nd = need
    OBVIOUS
  <2>2. NeedsAreDeps(nodes, N, deps, nd)
    BY <1>19, <2>1, Zenon
  <2>3. InOrder(nodes, N, b.cmds) /\ AllMet(nodes, N, L, b.cmds, nd)
    BY <1>4, <1>6, <1>7, <1>8, <1>9, <1>15, <1>17, <2>2, BuildsFaithful
  <2>4. QED
    BY <2>1, <2>3, Zenon
<1>21. QED
  BY <1>2, <1>3, <1>16, <1>18, <1>20, Zenon DEF BuiltOK

\* Only DCECapture gives something built.
LEMMA NothingBuilt ==
  ASSUME Next, ~\E s \in Requests : DCECapture(s)
  PROVE  stage' # "built"
<1>1. ASSUME NEW k, Event(k) PROVE stage' # "built"
  BY <1>1 DEF Event
<1>2. CASE OnBeginCmd
  BY <1>2 DEF OnBeginCmd
<1>3. CASE OnEndCmd
  BY <1>3 DEF OnEndCmd
<1>4. CASE OnEndSubCmd
  BY <1>4 DEF OnEndSubCmd
<1>5. CASE \E o \in ObsLists : OnReadObs(o) \/ OnWriteObs(o)
  BY <1>1, <1>5 DEF OnReadObs, OnWriteObs
<1>6. CASE \E p \in Pools, x \in Spans : OnReadSlice(p, x) \/ OnWriteSlice(p, x)
  BY <1>1, <1>6 DEF OnReadSlice, OnWriteSlice
<1>7. CASE \E f \in Frags \cup {Complete} : ReadFrag(f) \/ WriteFrag(f)
  BY <1>1, <1>7 DEF ReadFrag, WriteFrag
<1>8. CASE \E r \in Records : OnRecordSubCmd(r) \/ OnBeginSubCmd(r) \/ OnBeginMergedSubCmd(r)
  BY <1>1, <1>8 DEF OnRecordSubCmd, OnBeginSubCmd, OnBeginMergedSubCmd
<1>9. CASE \E d \in DepIDs : \/ OpenForwardDependency(d) \/ CloseForwardDependency(d)
                             \/ DropForwardDependency(d)
  BY <1>1, <1>9 DEF OpenForwardDependency, CloseForwardDependency, DropForwardDependency
<1>10. QED
  BY <1>2, <1>3, <1>4, <1>5, <1>6, <1>7, <1>8, <1>9 DEF Next

\* Every step keeps BuiltOK.
LEMMA BuiltStep ==
  ASSUME Inv, FieldInv, OrderInv, BuiltOK, [Next]_vars
  PROVE  BuiltOK'
<1>1. CASE \E s \in Requests : DCECapture(s)
  BY <1>1, DCEBuilds
<1>2. CASE Next /\ ~\E s \in Requests : DCECapture(s)
  <2>1. stage' # "built"
    BY <1>2, NothingBuilt
  <2>2. QED
    BY <2>1, Zenon DEF BuiltOK
<1>3. CASE UNCHANGED vars
  <2>1. stage' = stage /\ graph' = graph /\ dce' = dce /\ need' = need
    BY <1>3 DEF vars
  <2>2. NumNodes' = NumNodes
    BY <2>1 DEF NumNodes
  <2>3. QED
    BY <2>1, <2>2, Zenon DEF BuiltOK
<1>4. QED
  BY <1>1, <1>2, <1>3

\* BuiltOK gives LiveFaithful.
LEMMA BuiltIsFaithful ==
  ASSUME BuiltOK
  PROVE  LiveFaithful
<1>1. SUFFICES ASSUME stage = "built" PROVE LiveFaithful
  BY Zenon DEF LiveFaithful
<1>2. PICK es, nodes, N, L : es = dce.cmds /\ nodes = graph.nodes /\ N = NumNodes /\ L = dce.live
  OBVIOUS
<1>3. InOrder(nodes, N, es) /\ AllMet(nodes, N, L, es, need)
  BY <1>1, <1>2, Zenon DEF BuiltOK
<1>4. es \in Seq(EntryType) /\ DOMAIN es = 1 .. Len(es) /\ Len(es) \in Nat
  BY <1>3 DEF InOrder
<1>5. \A c : ObsOf(c) = ObsIn(nodes, N, c)
  BY <1>2, Zenon DEF ObsOf, ObsIn, IsObs
<1>6. \A i : AppliedAt(nodes, N, es, i) = ToSet(dce.cmds[i].reads) \cup ObsOf(dce.cmds[i].cmd)
  BY <1>2, <1>5, Zenon DEF AppliedAt
<1>7. Ascending([i \in DOMAIN dce.cmds |-> dce.cmds[i].cmd])
  <2>1. \A i, j \in DOMAIN es : i < j => es[i].cmd < es[j].cmd
    BY <1>3, <1>4, Zenon DEF InOrder
  <2>2. QED
    BY <1>2, <2>1 DEF Ascending
<1>8. ASSUME NEW i \in DOMAIN dce.cmds
      PROVE  /\ Ascending(dce.cmds[i].reads)
             /\ \A a \in ToSet(dce.cmds[i].reads), b \in ObsOf(dce.cmds[i].cmd) : a < b
             /\ \A j \in 1 .. i - 1 : \A a \in ToSet(dce.cmds[j].reads) \cup ObsOf(dce.cmds[j].cmd),
                                         b \in ToSet(dce.cmds[i].reads) \cup ObsOf(dce.cmds[i].cmd) : a < b
  <2>1. i \in 1 .. Len(es)
    BY <1>2, <1>4
  <2>2. /\ Ascending(es[i].reads)
        /\ \A a \in ToSet(es[i].reads), b \in ObsIn(nodes, N, es[i].cmd) : a < b
        /\ \A j \in 1 .. i - 1 : \A a \in AppliedAt(nodes, N, es, j), b \in AppliedAt(nodes, N, es, i) : a < b
    BY <1>3, <2>1, Zenon DEF InOrder
  <2>3. \A a \in ToSet(dce.cmds[i].reads), b \in ObsOf(dce.cmds[i].cmd) : a < b
    BY <1>2, <1>5, <2>2, Zenon
  <2>4. ASSUME NEW j \in 1 .. i - 1, NEW a \in ToSet(dce.cmds[j].reads) \cup ObsOf(dce.cmds[j].cmd),
               NEW b \in ToSet(dce.cmds[i].reads) \cup ObsOf(dce.cmds[i].cmd)
        PROVE  a < b
    <3>1. a \in AppliedAt(nodes, N, es, j) /\ b \in AppliedAt(nodes, N, es, i)
      BY <1>6, <2>4, Zenon
    <3>2. QED
      BY <2>2, <3>1, Zenon
  <2>5. QED
    BY <1>2, <2>2, <2>3, <2>4, Zenon
<1>9. ASSUME NEW x \in need, x[1] \notin {"object", "whole"}, x[2] \in dce.live
      PROVE  \E i \in {i \in DOMAIN dce.cmds : dce.cmds[i].cmd = graph.nodes[x[2]].cmd} :
               IF IsObs(x[3]) THEN \E j \in 1 .. i : x[3] \in ToSet(dce.cmds[j].reads) \cup ObsOf(dce.cmds[j].cmd)
               ELSE {j \in DOMAIN dce.cmds : dce.cmds[j].cmd = graph.nodes[x[3]].cmd} # {}
  <2>1. NeedMet(nodes, N, es, x[2], x[3])
    BY <1>2, <1>3, <1>9, Zenon DEF AllMet
  <2>2. PICK i \in 1 .. Len(es) :
          /\ es[i].cmd = nodes[x[2]].cmd
          /\ nodes[x[3]].kind = "obs" => \E j \in 1 .. i : x[3] \in AppliedAt(nodes, N, es, j)
          /\ nodes[x[3]].kind # "obs" => \E j \in 1 .. Len(es) : es[j].cmd = nodes[x[3]].cmd
    BY <2>1 DEF NeedMet
  <2>3. i \in {k \in DOMAIN dce.cmds : dce.cmds[k].cmd = graph.nodes[x[2]].cmd}
    BY <1>2, <1>4, <2>2
  <2>4. CASE IsObs(x[3])
    <3>1. PICK j \in 1 .. i : x[3] \in AppliedAt(nodes, N, es, j)
      BY <1>2, <2>2, <2>4 DEF IsObs
    <3>2. x[3] \in ToSet(dce.cmds[j].reads) \cup ObsOf(dce.cmds[j].cmd)
      BY <1>6, <3>1, Zenon
    <3>3. QED
      BY <2>3, <2>4, <3>2, Zenon
  <2>5. CASE ~IsObs(x[3])
    <3>1. PICK j \in 1 .. Len(es) : es[j].cmd = nodes[x[3]].cmd
      BY <1>2, <2>2, <2>5 DEF IsObs
    <3>2. j \in {k \in DOMAIN dce.cmds : dce.cmds[k].cmd = graph.nodes[x[3]].cmd}
      BY <1>2, <1>4, <3>1
    <3>3. QED
      BY <2>3, <2>5, <3>2, Zenon
  <2>6. QED
    BY <2>4, <2>5
<1>10. QED
  BY <1>7, <1>8, <1>9, Zenon DEF LiveFaithful

\* After DCECapture, for every capture and every request, the commands of all
\* nodes that live ones need are kept, in the order of the capture, and the
\* observations that they need are applied in time and in order, also those
\* that moved from a dead command to a live one.
THEOREM EliminationFaithful ==
  Spec => []LiveFaithful
<1>1. Spec => [](Inv /\ FieldInv /\ OrderInv)
  BY NodesOrdered
<1>2. Init => BuiltOK
  BY DEF Init, BuiltOK
<1>3. Inv /\ FieldInv /\ OrderInv /\ BuiltOK /\ [Next]_vars => BuiltOK'
  BY BuiltStep
<1>4. BuiltOK => LiveFaithful
  BY BuiltIsFaithful
<1>5. QED
  BY <1>1, <1>2, <1>3, <1>4, PTL DEF Spec
=============================================================================
