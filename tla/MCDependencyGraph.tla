-------------------------- MODULE MCDependencyGraph --------------------------
(***************************************************************************)
(* Small instances of the dependency graph.                                *)
(***************************************************************************)
EXTENDS DependencyGraph

Watch(merge, watch) == [merge |-> merge, watch |-> watch]

mixed == {Watch(FALSE, {"memory", "records"}), Watch(TRUE, {"memory", "records"}),
          Watch(FALSE, {"fragments", "records"}), Watch(FALSE, {"forward", "records"})}
fragments == {Watch(TRUE, {"fragments"})}

pools == {0, 1}
bytes == 0 .. 2
spans == {<<0, 2>>, <<1, 3>>, <<1, 2>>, <<1, 1>>}
observations == {<<<<0, 2>>>>, <<<<1, 3>>, <<0, 2>>>>}
=============================================================================
