------------------------------ MODULE Accesses ------------------------------
(***************************************************************************)
(* nodeAccesses of a watcher of the dependency graph: for each node the    *)
(* accesses that were flushed under it, reduced to their Deps, which are   *)
(* all that the graph builder takes from them.                             *)
(***************************************************************************)
\* m[k] = v on a map of Go.
Set(m, k, v) == [x \in DOMAIN m \cup {k} |-> IF x = k THEN v ELSE m[x]]

NoAccesses == <<>>
DepsOf(acc, n) == IF n \in DOMAIN acc THEN acc[n] ELSE {}
AddDeps(acc, n, deps) == Set(acc, n, DepsOf(acc, n) \cup deps)
=============================================================================
