----------------------------- MODULE Intervals ------------------------------
(***************************************************************************)
(* The algorithms on sorted lists of spans of core/math/interval that the  *)
(* dependency graph uses: search, intersect, Replace and Update.  A list   *)
(* is a sequence of records: a span [start, end) and the value that the    *)
(* list keeps with it.  Indices count from 0 as in the code; NoValue is    *)
(* the nil of Update.                                                      *)
(***************************************************************************)
EXTENDS Integers, Sequences, SequencesExt, FiniteSetsExt

NoValue == {}
Elem(s, e, v) == [start |-> s, end |-> e, val |-> v]

\* What a list should be, and what it says of the address b: values are sets.
Sorted(l) == /\ \A i \in DOMAIN l : l[i].start <= l[i].end
             /\ \A i \in 1 .. Len(l) - 1 : l[i].end <= l[i + 1].start
ValuesAt(l, b) == UNION {l[i].val : i \in {j \in DOMAIN l : l[j].start <= b /\ b < l[j].end}}

\* One turn of the binary search for the first element whose test, T[i] for
\* l[i], is true; the loop takes at most one turn for each element.
Halve(T, b, turn) ==
  LET h == b.i + (b.j - b.i) \div 2
  IN IF b.i >= b.j THEN b
     ELSE IF T[h + 1] THEN [i |-> b.i, j |-> h] ELSE [i |-> h + 1, j |-> b.j]
Search(l, T) == FoldLeft(LAMBDA b, turn : Halve(T, b, turn), [i |-> 0, j |-> Len(l)], l).i

\* The elements that overlap a span, from lowIndex on, and whether the first
\* and the last of them stick out.
Intersection(l, s, e) ==
  LET before == Search(l, [j \in DOMAIN l |-> s < l[j].end])
      after  == Search(l, [j \in DOMAIN l |-> e <= l[j].start])
      low    == Min({before, after})
      over   == Max({before, after}) - low
  IN [lowIndex |-> low, overlap |-> over,
      intersectsLow  |-> over > 0 /\ l[low + 1].start < s,
      intersectsHigh |-> over > 0 /\ e < l[low + over].end]

\* Resize and Copy: the elements from at on move by delta.  The slots that
\* this opens keep what was there; one past the old end holds old storage,
\* which the callers overwrite.
Adjust(l, at, delta) ==
  LET to == Max({at, delta})
  IN [i \in 1 .. Len(l) + delta |->
        IF delta # 0 /\ i > to THEN l[i - delta]
        ELSE IF i <= Len(l) THEN l[i] ELSE Elem(0, 0, NoValue)]

\* The list with a hole for a span that meets it as x says, of new slots in
\* all from lowIndex on: what is left of the first element, the slot for the
\* span, at index, and what is left of the last element.
Hole(l, s, e, x, at, new) ==
  LET moved == Adjust(l, at, new - x.overlap)
  IN [list |-> [i \in DOMAIN moved |->
                  IF x.intersectsHigh /\ i = x.lowIndex + new
                  THEN Elem(e, l[x.lowIndex + x.overlap].end, moved[i].val)
                  ELSE IF x.intersectsLow /\ i = x.lowIndex + 1
                  THEN [moved[i] EXCEPT !.end = s]
                  ELSE moved[i]],
      index |-> at]

Cutting(l, s, e, x) ==
  LET low == IF x.intersectsLow THEN 1 ELSE 0
      high == IF x.intersectsHigh THEN 1 ELSE 0
  IN Hole(l, s, e, x, x.lowIndex + low, 1 + low + high)

\* Mutant of Cut: what is left of the last element gets no slot of its own.
CutLosesHigh(l, s, e) ==
  LET x == Intersection(l, s, e)
      low == IF x.intersectsLow THEN 1 ELSE 0
  IN Hole(l, s, e, x, x.lowIndex + low, 1 + low)

\* Makes a hole for a span, with a slot for it at index.
Cut(l, s, e) == Cutting(l, s, e, Intersection(l, s, e))

Filled(hole, x) == [hole.list EXCEPT ![hole.index + 1] = x]
Replace(l, s, e, v) == Filled(Cut(l, s, e), Elem(s, e, v))

\* b behind a, as one element where they meet with the same value.
Joined(a, b) ==
  IF /\ a # <<>> /\ b # <<>>
     /\ Last(a).end = Head(b).start /\ Last(a).val = Head(b).val
  THEN Front(a) \o <<Elem(Last(a).start, Head(b).end, Head(b).val)>> \o Tail(b)
  ELSE a \o b

\* The closure add of Update, on what Update has built so far: the new
\* elements, and where the rest of the span starts.
AddElem(b, v, s, e) ==
  IF s >= e \/ v = NoValue THEN b
  ELSE [start |-> e, elems |-> Joined(b.elems, <<Elem(s, e, v)>>)]

\* One turn of the loop of Update, for the overlapping element x: the gap
\* before it, the part inside the span and the part behind.
UpdateInner(b, x, e, F) == AddElem(b, F[x.val], b.start, Min({x.end, e}))
UpdateOne(b, x, e, F) ==
  AddElem(UpdateInner(AddElem(b, F[NoValue], b.start, x.start), x, e, F),
          IF x.end > e THEN x.val ELSE NoValue, e, x.end)
UpdateRest(b, e, F) == AddElem(b, F[NoValue], b.start, e).elems

\* The new elements for the old ones at k, ..., i - 1.
Updated(l, s, e, k, i, F) ==
  LET none == [start |-> s, elems |-> <<>>]
      first == IF k < Len(l) THEN AddElem(none, l[k + 1].val, l[k + 1].start, s) ELSE none
  IN UpdateRest(FoldLeft(LAMBDA b, x : UpdateOne(b, x, e, F), first, SubSeq(l, k + 1, i)), e, F)

\* Update: F is applied to the values in a span.  The elements [k, i) give
\* way to new ones, which are joined with the element before and the one
\* behind when these have the same value.
Update(l, s, e, F) ==
  LET k == Search(l, [j \in DOMAIN l |-> s < l[j].end])
      i == Min({Len(l)} \cup {j \in k .. Len(l) - 1 : l[j + 1].start >= e})
  IN Joined(Joined(SubSeq(l, 1, k), Updated(l, s, e, k, i, F)), SubSeq(l, i + 1, Len(l)))
=============================================================================
