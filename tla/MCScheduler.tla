---------------------------- MODULE MCScheduler -----------------------------
(***************************************************************************)
(* Small instances of Scheduler.  The batches are named for their          *)
(* precondition; urgent and slow are the Primary and the Background        *)
(* requests of manager.Replay.                                             *)
(***************************************************************************)
EXTENDS Scheduler, TLC

CONSTANTS j1, j2, j3, urgent, slow, slow2, gated, gate

MCKind == [b \in Batches |-> CASE b = urgent -> "nil" [] b = gated -> gate [] OTHER -> "timer"]
MCPriority == [b \in Batches |-> CASE b = urgent -> 3 [] b \in {slow, gated} -> 0 [] OTHER -> 2]

\* The jobs of an instance, by the batches they belong to.
MCPair   == [j \in Jobs |-> IF j = j1 THEN urgent ELSE slow]
MCTimers == [j \in Jobs |-> IF j = j3 THEN slow2 ELSE slow]
MCMixed  == [j \in Jobs |-> IF j = j1 THEN gated ELSE slow]
=============================================================================
