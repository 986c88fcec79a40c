-------------------------- MODULE MCResourceCache ---------------------------
(***************************************************************************)
(* Small instances of ResourceCache.                                       *)
(***************************************************************************)
EXTENDS ResourceCache

CONSTANTS ra, rb, rc, huge

\* huge does not fit in the cache at all.
MCSize == [r \in Resources |->
             CASE r = ra -> 1 [] r = rb -> 2 [] r = rc -> 3 [] OTHER -> HeapSize + 1]
MCLists == {<<ra, rb, rc, huge>>, <<rc, rb, ra>>}
=============================================================================
