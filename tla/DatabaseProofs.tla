--------------------------- MODULE DatabaseProofs ---------------------------
(***************************************************************************)
(* Proofs about Database, for every set of identifiers, of callers and of  *)
(* resolveStates and every dependency relation: first what the database    *)
(* promises, then that it implements Memo.                                 *)
(***************************************************************************)
EXTENDS Database, FiniteSetTheorems, TLAPS

(***************************************************************************)
(* The inductive invariant.  The waiter count alone is not inductive: that *)
(* the last waiter leaves nobody behind, and detaches the state it waited  *)
(* for and no other, needs to know which builds are attached to which      *)
(* record, and that nobody waits for a detached one.                       *)
(***************************************************************************)
\* A build in use is a build of a stored record.
TargetInv ==
  \A k \in Builds :
    IF pc[k] = "free" THEN target[k] = Nil ELSE target[k] \in records

\* A record's resolveState is a build of that record which is not cancelled.
AttachedInv ==
  \A i \in Ids : resolveState[i] # Nil =>
    /\ pc[resolveState[i]] # "free"
    /\ target[resolveState[i]] = i
    /\ resolveState[i] \notin stopped

\* A build that is not cancelled is the resolveState of its record.
LiveInv ==
  \A k \in Builds : pc[k] # "free" /\ k \notin stopped =>
    resolveState[target[k]] = k

\* Only running builds are cancelled.
StoppedInv == \A k \in Builds : k \in stopped => Running(k)

\* Whoever waits waits for a live build of the identifier it asked for.
WaiterInv ==
  \A g \in Goroutines : pc[g] = "wait" =>
    /\ on[g] \in Builds
    /\ pc[on[g]] # "free"
    /\ on[g] \notin stopped
    /\ arg[g] = target[on[g]]

\* Somebody waits for every live build that has not finished.
WantedInv ==
  \A k \in Builds : Running(k) /\ k \notin stopped =>
    \E g \in Goroutines : pc[g] = "wait" /\ on[g] = k

\* The call a goroutine is in has an identifier.
ArgInv ==
  \A g \in Goroutines : pc[g] \in {"stored", "resolve", "wait", "func"} =>
    arg[g] \in Ids

\* Cancellation reaches the outcome of a cancelled build only.
ErrInv ==
  \A k \in Builds :
    /\ err[k] # "cancelled"
    /\ outcome[k] = "cancelled" => k \in stopped

\* A build that is about to succeed, or has, left a final object.
FinalInv ==
  \A k \in Builds :
    /\ pc[k] = "exit" /\ outcome[k] = "nil" => Final(target[k])
    /\ pc[k] = "done" /\ err[k] = "nil" => Final(target[k])

IInv ==
  /\ TypeOK /\ TargetInv /\ AttachedInv /\ LiveInv /\ StoppedInv
  /\ WaiterInv /\ WantedInv /\ ArgInv /\ WaitingCounts /\ ErrInv /\ FinalInv
  /\ AnswersFinal

-----------------------------------------------------------------------------
(***************************************************************************)
(* How a goroutine leaves Resolve, as far as the invariant is concerned.   *)
(***************************************************************************)
Left(g, dead) ==
  /\ \E p \in {"idle", "call", "exit", "func"} :
       /\ pc' = [pc EXCEPT ![g] = p]
       /\ g \in Callers => p \in {"idle", "func"}
       /\ g \in Builds => p \in {"call", "exit", "func"}
       /\ arg' = IF p = "func" THEN arg ELSE [arg EXCEPT ![g] = Nil]
       /\ p = "exit" => outcome'[g] # "nil"
  /\ outcome' \in [Builds -> Errors]
  /\ \A k \in Builds :
       outcome'[k] # outcome[k] =>
         k = g /\ (outcome'[k] = "cancelled" => k \in stopped)
  /\ todo' \in [Builds -> SUBSET Ids]
  /\ stopped' \subseteq Goroutines
  /\ \A k \in Builds : k \in stopped' <=> k \in stopped \/ k \in dead
  /\ background' \subseteq Callers
  /\ ret' \in [Callers -> Answers]
  /\ \A c \in Callers : ret'[c] # "raw"

\* Deliver is such a step when it delivers a final answer, and delivers a
\* cancellation to a cancelled build only.
LEMMA DeliverLeaves ==
  ASSUME IInv, NEW g \in Goroutines, NEW o \in Answers \ {"raw"},
         NEW dead \in SUBSET Builds, Deliver(g, o, dead),
         g \in Builds => (o = "cancelled" => g \in stopped)
  PROVE  Left(g, dead)
<1>1. g \notin Callers => g \in Builds
  BY DEF Goroutines
<1>2. CASE g \in Callers
  <2>1. g \notin Builds
    BY <1>2, DatabaseAssumption
  <2>. QED
    BY <1>2, <2>1 DEF Deliver, Left, IInv, TypeOK, AnswersFinal, Goroutines, Errors, Answers
<1>3. CASE g \notin Callers
  BY <1>1, <1>3 DEF Deliver, Left, IInv, TypeOK, AnswersFinal, Goroutines, Errors, Answers
<1>. QED
  BY <1>2, <1>3

\* So is Leave, from a build that has finished, or by a cancelled goroutine.
LEMMA LeaveLeaves ==
  ASSUME IInv, NEW g \in Goroutines, NEW k \in Builds,
         NEW dead \in SUBSET Builds, Leave(g, k, dead),
         arg[g] = target[k], pc[k] = "done" \/ g \in stopped
  PROVE  Left(g, dead)
<1>. DEFINE o == Result(g, k, arg[g])
<1>1. o \in Answers \ {"raw"} /\ (o = "cancelled" => g \in stopped)
  BY DEF Result, IInv, TypeOK, ErrInv, FinalInv, Errors, Answers
<1>2. CASE o = "value" /\ arg[g] \in BlobFuncs
  BY <1>2, DatabaseAssumption DEF Leave, Left, IInv, TypeOK, AnswersFinal, Goroutines
<1>3. CASE ~(o = "value" /\ arg[g] \in BlobFuncs)
  <2>1. Deliver(g, o, dead)
    BY <1>3 DEF Leave
  <2>. QED
    BY <1>1, <2>1, DeliverLeaves
<1>. QED
  BY <1>2, <1>3

(***************************************************************************)
(* Counting waiters.                                                       *)
(***************************************************************************)
LEMMA GoroutinesFinite == IsFiniteSet(Goroutines)
  BY DatabaseAssumption, FS_Union DEF Goroutines

LEMMA WaitersFinite == ASSUME NEW k PROVE IsFiniteSet(Waiters(k))
  BY GoroutinesFinite, FS_Subset DEF Waiters

LEMMA WaitersFinite2 == ASSUME NEW k PROVE IsFiniteSet(Waiters(k)')
  BY GoroutinesFinite, FS_Subset DEF Waiters

\* Only the goroutines that enter or leave a select change what is counted.
LEMMA SameWaiters ==
  ASSUME IInv, UNCHANGED waiting,
         \A g \in Goroutines : (pc'[g] = "wait" /\ on'[g] = on[g] /\ pc[g] = "wait")
                               \/ (pc'[g] # "wait" /\ pc[g] # "wait")
  PROVE  WaitingCounts'
<1>. SUFFICES ASSUME NEW k \in Builds PROVE waiting'[k] = Cardinality(Waiters(k)')
  BY DEF WaitingCounts
<1>1. Waiters(k)' = Waiters(k)
  BY DEF Waiters
<1>. QED
  BY <1>1 DEF IInv, WaitingCounts

-----------------------------------------------------------------------------
(***************************************************************************)
(* Leaving Resolve without having waited.                                  *)
(***************************************************************************)
LEMMA LeftKeeps ==
  ASSUME IInv, NEW g \in Goroutines, pc[g] \in {"stored", "resolve", "func"},
         Left(g, {}),
         UNCHANGED <<records, object, resolveState, target, waiting, err, on,
                     panicked>>
  PROVE  IInv'
<1>. USE DatabaseAssumption
<1>p. PICK p \in {"idle", "call", "exit", "func"} :
       /\ pc' = [pc EXCEPT ![g] = p]
       /\ g \in Callers => p \in {"idle", "func"}
       /\ g \in Builds => p \in {"call", "exit", "func"}
       /\ arg' = IF p = "func" THEN arg ELSE [arg EXCEPT ![g] = Nil]
       /\ p = "exit" => outcome'[g] # "nil"
  BY DEF Left
<1>1. TypeOK'
  BY <1>p DEF Left, IInv, TypeOK, Goroutines, CallerPCs, BuildPCs
<1>2. \A h \in Goroutines : h # g => pc'[h] = pc[h] /\ arg'[h] = arg[h]
  BY <1>p DEF IInv, TypeOK
<1>3. \A k \in Builds : (k \in stopped') <=> (k \in stopped)
  BY DEF Left
<1>4. pc'[g] = p /\ (g \in Builds => Running(g) /\ Running(g)')
  BY <1>p DEF IInv, TypeOK, Running, Goroutines
<1>5. \A k \in Builds : (pc'[k] = "free" <=> pc[k] = "free") /\ (Running(k)' <=> Running(k))
  BY <1>2, <1>4 DEF Goroutines, Running
<1>6. TargetInv' /\ AttachedInv' /\ LiveInv' /\ StoppedInv'
  BY <1>3, <1>5 DEF IInv, TypeOK, TargetInv, AttachedInv, LiveInv, StoppedInv
<1>7. WaiterInv'
  BY <1>2, <1>3, <1>4, <1>5 DEF IInv, WaiterInv
<1>8. WantedInv'
  BY <1>2, <1>3, <1>5 DEF IInv, WantedInv
<1>9. ArgInv'
  BY <1>p, <1>2, <1>4 DEF IInv, ArgInv, TypeOK
<1>10. WaitingCounts'
  BY <1>2, <1>4, SameWaiters
<1>11. ErrInv'
  BY <1>3 DEF Left, IInv, ErrInv
<1>12. FinalInv'
  <2>. SUFFICES ASSUME NEW k \in Builds
       PROVE /\ pc'[k] = "exit" /\ outcome'[k] = "nil" => Final(target[k])
             /\ pc'[k] = "done" /\ err[k] = "nil" => Final(target[k])
    BY DEF FinalInv, Final
  <2>1. CASE k = g
    BY <1>p, <1>4, <2>1
  <2>2. CASE k # g
    BY <1>2, <2>2 DEF Left, IInv, FinalInv, Goroutines
  <2>. QED
    BY <2>1, <2>2
<1>13. AnswersFinal'
  BY DEF Left, AnswersFinal
<1>. QED
  BY <1>1, <1>6, <1>7, <1>8, <1>9, <1>10, <1>11, <1>12, <1>13 DEF IInv

LEMMA NotFoundKeeps ==
  ASSUME IInv, NEW g \in Goroutines, pc[g] = "resolve", NotFound(g),
         UNCHANGED panicked
  PROVE  IInv'
<1>1. Left(g, {})
  BY DeliverLeaves DEF NotFound, Answers
<1>. QED
  BY <1>1, LeftKeeps DEF NotFound

LEMMA AlreadyBuiltKeeps ==
  ASSUME IInv, NEW g \in Goroutines, pc[g] = "resolve", AlreadyBuilt(g),
         UNCHANGED panicked
  PROVE  IInv'
<1>. DEFINE k == resolveState[arg[g]]
<1>1. arg[g] \in Ids /\ k \in Builds /\ pc[k] = "done" /\ target[k] = arg[g]
  BY DEF AlreadyBuilt, HasFinished, Running, IInv, TypeOK, ArgInv, AttachedInv
<1>2. Leave(g, k, {})
  BY DEF AlreadyBuilt
<1>3. Left(g, {})
  BY <1>1, <1>2, LeaveLeaves
<1>. QED
  BY <1>3, LeftKeeps DEF AlreadyBuilt

LEMMA CallBlobFuncKeeps ==
  ASSUME IInv, NEW g \in Goroutines, CallBlobFunc(g)
  PROVE  IInv'
<1>1. PICK o \in {"value", "failed"} : Deliver(g, o, {})
  BY DEF CallBlobFunc
<1>2. Left(g, {})
  BY <1>1, DeliverLeaves DEF Answers
<1>. QED
  BY <1>2, LeftKeeps DEF CallBlobFunc

LEMMA StoreReturnsKeeps ==
  ASSUME IInv, NEW c \in Callers, StoreReturns(c)
  PROVE  IInv'
<1>1. c \in Goroutines /\ c \notin Builds
  BY DatabaseAssumption DEF Goroutines
<1>2. Left(c, {})
  BY <1>1, DeliverLeaves DEF StoreReturns, Answers
<1>. QED
  BY <1>1, <1>2, LeftKeeps DEF StoreReturns

(***************************************************************************)
(* Starting and joining a build.                                           *)
(***************************************************************************)
LEMMA StartBuildKeeps ==
  ASSUME IInv, NEW g \in Goroutines, NEW k \in Builds, pc[g] = "resolve",
         StartBuild(g, k), UNCHANGED panicked
  PROVE  IInv'
<1>. USE DatabaseAssumption
<1>. DEFINE i == arg[g]
<1>0. /\ g # k /\ k \in Goroutines /\ i \in Ids /\ i \in records
      /\ resolveState[i] = Nil /\ pc[k] = "free" /\ k \notin stopped
  BY DEF StartBuild, IInv, ArgInv, StoppedInv, Running, Goroutines
<1>1. /\ pc' = [pc EXCEPT ![g] = "wait", ![k] = "loop"]
      /\ on' = [on EXCEPT ![g] = k]
      /\ target' = [target EXCEPT ![k] = i]
      /\ resolveState' = [resolveState EXCEPT ![i] = k]
      /\ waiting' = [waiting EXCEPT ![k] = 1]
      /\ UNCHANGED <<records, object, err, outcome, todo, arg, stopped,
                     background, ret, panicked>>
  BY DEF StartBuild, FirstCaller
<1>2. TypeOK'
  BY <1>0, <1>1 DEF IInv, TypeOK, Goroutines, CallerPCs, BuildPCs
<1>3. /\ pc'[g] = "wait" /\ pc'[k] = "loop" /\ on'[g] = k
      /\ target'[k] = i /\ resolveState'[i] = k
      /\ \A h \in Goroutines : h \notin {g, k} => pc'[h] = pc[h]
      /\ \A h \in Goroutines : h # g => on'[h] = on[h]
      /\ \A j \in Ids : j # i => resolveState'[j] = resolveState[j]
      /\ \A l \in Builds : l # k => target'[l] = target[l]
  BY <1>0, <1>1 DEF IInv, TypeOK
<1>4. \A h \in Goroutines : pc[h] = "wait" => on[h] # k
  BY <1>0 DEF IInv, WaiterInv
<1>5. \A j \in Ids : resolveState[j] # k
  BY <1>0 DEF IInv, AttachedInv
<1>6. TargetInv'
  <2>. SUFFICES ASSUME NEW l \in Builds
       PROVE  IF pc'[l] = "free" THEN target'[l] = Nil ELSE target'[l] \in records
    BY <1>1 DEF TargetInv
  <2>1. CASE l = k
    BY <1>0, <1>3, <2>1
  <2>2. CASE l # k
    <3>1. pc'[l] = "free" <=> pc[l] = "free"
      BY <1>3, <2>2 DEF Goroutines
    <3>. QED
      BY <1>3, <2>2, <3>1 DEF IInv, TargetInv
  <2>. QED
    BY <2>1, <2>2
<1>7. AttachedInv'
  BY <1>0, <1>1, <1>3, <1>5 DEF IInv, AttachedInv, TypeOK, Goroutines
<1>8. LiveInv'
  <2>. SUFFICES ASSUME NEW l \in Builds, pc'[l] # "free", l \notin stopped
       PROVE  resolveState'[target'[l]] = l
    BY <1>1 DEF LiveInv
  <2>1. CASE l = k
    BY <1>3, <2>1
  <2>2. CASE l # k
    <3>1. pc[l] # "free" /\ target'[l] = target[l] /\ target[l] \in Ids
      BY <1>0, <1>3, <2>2 DEF IInv, TargetInv, TypeOK, Goroutines
    <3>2. resolveState[target[l]] = l
      BY <3>1 DEF IInv, LiveInv
    <3>. QED
      BY <1>0, <1>3, <3>1, <3>2
  <2>. QED
    BY <2>1, <2>2
<1>9. StoppedInv'
  BY <1>0, <1>1, <1>3 DEF IInv, StoppedInv, Running, Goroutines
<1>10. WaiterInv'
  <2>. SUFFICES ASSUME NEW h \in Goroutines, pc'[h] = "wait"
       PROVE /\ on'[h] \in Builds /\ pc'[on'[h]] # "free"
             /\ on'[h] \notin stopped /\ arg[h] = target'[on'[h]]
    BY <1>1 DEF WaiterInv
  <2>1. CASE h = g
    BY <1>0, <1>3, <2>1
  <2>2. CASE h # g
    <3>1. pc[h] = "wait" /\ on'[h] = on[h] /\ on[h] # k
      BY <1>0, <1>3, <1>4, <2>2
    <3>2. /\ on[h] \in Builds /\ pc[on[h]] # "free" /\ on[h] \notin stopped
          /\ arg[h] = target[on[h]]
      BY <3>1 DEF IInv, WaiterInv
    <3>3. pc'[on[h]] # "free"
      BY <1>3, <3>1, <3>2 DEF Goroutines
    <3>. QED
      BY <1>3, <3>1, <3>2, <3>3
  <2>. QED
    BY <2>1, <2>2
<1>11. WantedInv'
  <2>. SUFFICES ASSUME NEW l \in Builds, Running(l)', l \notin stopped
       PROVE  \E h \in Goroutines : pc'[h] = "wait" /\ on'[h] = l
    BY <1>1 DEF WantedInv
  <2>1. CASE l = k
    BY <1>3, <2>1
  <2>2. CASE l # k
    <3>1. Running(l)
      BY <1>3, <2>2 DEF Running, Goroutines
    <3>2. PICK h \in Goroutines : pc[h] = "wait" /\ on[h] = l
      BY <3>1 DEF IInv, WantedInv
    <3>3. h # g /\ h # k
      BY <1>0, <3>2
    <3>. QED
      BY <1>3, <3>2, <3>3
  <2>. QED
    BY <2>1, <2>2
<1>12. ArgInv'
  BY <1>0, <1>1, <1>3 DEF IInv, ArgInv
<1>13. WaitingCounts'
  <2>. SUFFICES ASSUME NEW l \in Builds
       PROVE  waiting'[l] = Cardinality(Waiters(l)')
    BY DEF WaitingCounts
  <2>1. CASE l = k
    <3>1. Waiters(k)' = {g}
      BY <1>0, <1>3, <1>4 DEF Waiters
    <3>. QED
      BY <1>1, <2>1, <3>1, FS_Singleton DEF IInv, TypeOK
  <2>2. CASE l # k
    <3>1. Waiters(l)' = Waiters(l)
      BY <1>0, <1>3, <2>2 DEF Waiters
    <3>. QED
      BY <1>1, <2>2, <3>1 DEF IInv, TypeOK, WaitingCounts
  <2>. QED
    BY <2>1, <2>2
<1>14. ErrInv'
  BY <1>1 DEF IInv, ErrInv
<1>15. FinalInv'
  <2>. SUFFICES ASSUME NEW l \in Builds
       PROVE /\ pc'[l] = "exit" /\ outcome[l] = "nil" => Final(target'[l])
             /\ pc'[l] = "done" /\ err[l] = "nil" => Final(target'[l])
    BY <1>1 DEF FinalInv, Final
  <2>1. CASE l = k \/ l = g
    BY <1>3, <2>1
  <2>2. CASE l # k /\ l # g
    BY <1>3, <2>2 DEF IInv, FinalInv, Goroutines
  <2>. QED
    BY <2>1, <2>2
<1>16. AnswersFinal'
  BY <1>1 DEF IInv, AnswersFinal
<1>. QED
  BY <1>2, <1>6, <1>7, <1>8, <1>9, <1>10, <1>11, <1>12, <1>13, <1>14, <1>15,
     <1>16 DEF IInv

LEMMA JoinBuildKeeps ==
  ASSUME IInv, NEW g \in Goroutines, pc[g] = "resolve", JoinBuild(g),
         UNCHANGED panicked
  PROVE  IInv'
<1>. USE DatabaseAssumption
<1>k. PICK k \in Builds : k = resolveState[arg[g]]
  BY DEF JoinBuild, IInv, ArgInv, TypeOK
<1>0. /\ arg[g] \in Ids /\ pc[k] # "free" /\ target[k] = arg[g]
      /\ k \notin stopped
  BY <1>k DEF JoinBuild, IInv, ArgInv, AttachedInv, TypeOK
<1>1. /\ pc' = [pc EXCEPT ![g] = "wait"]
      /\ on' = [on EXCEPT ![g] = k]
      /\ waiting' = [waiting EXCEPT ![k] = waiting[k] + 1]
      /\ UNCHANGED <<records, object, resolveState, target, err, outcome, todo,
                     arg, stopped, background, ret, panicked>>
  BY <1>k DEF JoinBuild
<1>2. TypeOK'
  BY <1>0, <1>1 DEF IInv, TypeOK, Goroutines, CallerPCs, BuildPCs
<1>3. /\ pc'[g] = "wait" /\ on'[g] = k
      /\ \A h \in Goroutines : h # g => pc'[h] = pc[h] /\ on'[h] = on[h]
  BY <1>1 DEF IInv, TypeOK
<1>4. \A l \in Builds : (pc'[l] = "free" <=> pc[l] = "free") /\ (Running(l)' <=> Running(l))
                        /\ (pc'[l] = "exit" <=> pc[l] = "exit")
                        /\ (pc'[l] = "done" <=> pc[l] = "done")
  BY <1>3 DEF Running, Goroutines
<1>5. TargetInv' /\ AttachedInv' /\ LiveInv' /\ StoppedInv'
  BY <1>1, <1>4 DEF IInv, TypeOK, TargetInv, AttachedInv, LiveInv, StoppedInv
<1>6. WaiterInv'
  BY <1>0, <1>1, <1>3, <1>4 DEF IInv, WaiterInv
<1>7. WantedInv'
  BY <1>1, <1>3, <1>4 DEF IInv, WantedInv
<1>8. ArgInv'
  BY <1>0, <1>1, <1>3 DEF IInv, ArgInv
<1>9. WaitingCounts'
  <2>. SUFFICES ASSUME NEW l \in Builds
       PROVE  waiting'[l] = Cardinality(Waiters(l)')
    BY DEF WaitingCounts
  <2>1. CASE l = k
    <3>1. Waiters(k)' = Waiters(k) \cup {g} /\ g \notin Waiters(k)
      BY <1>3 DEF Waiters
    <3>2. Cardinality(Waiters(k)') = Cardinality(Waiters(k)) + 1
      BY <3>1, WaitersFinite, FS_AddElement
    <3>. QED
      BY <1>0, <1>1, <2>1, <3>2 DEF IInv, TypeOK, WaitingCounts
  <2>2. CASE l # k
    <3>1. Waiters(l)' = Waiters(l)
      BY <1>3, <2>2 DEF Waiters
    <3>. QED
      BY <1>1, <2>2, <3>1 DEF IInv, TypeOK, WaitingCounts
  <2>. QED
    BY <2>1, <2>2
<1>10. ErrInv' /\ FinalInv' /\ AnswersFinal'
  BY <1>1, <1>4 DEF IInv, ErrInv, FinalInv, Final, AnswersFinal
<1>. QED
  BY <1>2, <1>5, <1>6, <1>7, <1>8, <1>9, <1>10 DEF IInv

(***************************************************************************)
(* Leaving the select.                                                     *)
(***************************************************************************)
LEMMA WaiterCounted ==
  ASSUME IInv, NEW g \in Goroutines, NEW k \in Builds, pc[g] = "wait", on[g] = k
  PROVE  /\ g \in Waiters(k)
         /\ waiting[k] \in Nat \ {0}
         /\ Cardinality(Waiters(k) \ {g}) = waiting[k] - 1
         /\ waiting[k] = 1 => Waiters(k) = {g}
         /\ waiting[k] # 1 => \E h \in Waiters(k) : h # g
<1>1. g \in Waiters(k)
  BY DEF Waiters
<1>2. /\ IsFiniteSet(Waiters(k) \ {g})
      /\ Cardinality(Waiters(k) \ {g}) = Cardinality(Waiters(k)) - 1
  BY <1>1, WaitersFinite, FS_RemoveElement
<1>3. Cardinality(Waiters(k)) = waiting[k] /\ waiting[k] \in Nat
  BY DEF IInv, WaitingCounts, TypeOK
<1>4. Cardinality(Waiters(k) \ {g}) \in Nat
  BY <1>2, FS_CardinalityType
<1>5. Cardinality(Waiters(k) \ {g}) = 0 <=> Waiters(k) \ {g} = {}
  BY <1>2, FS_EmptySet
<1>6. Cardinality(Waiters(k) \ {g}) = waiting[k] - 1 /\ waiting[k] # 0
  BY <1>2, <1>3, <1>4
<1>7. waiting[k] = 1 <=> Waiters(k) \ {g} = {}
  BY <1>3, <1>5, <1>6
<1>. QED
  BY <1>1, <1>3, <1>6, <1>7

LEMMA WakeKeeps ==
  ASSUME IInv, NEW g \in Goroutines, Wake(g)
  PROVE  IInv'
<1>. USE DatabaseAssumption
<1>k. PICK k \in Builds : k = on[g]
  BY DEF Wake, IInv, WaiterInv
<1>0. /\ pc[g] = "wait" /\ on[g] = k /\ pc[k] # "free" /\ k \notin stopped
      /\ arg[g] = target[k] /\ target[k] \in Ids
      /\ pc[k] = "done" \/ g \in stopped
  BY <1>k DEF Wake, LeavesSelect, Running, IInv, WaiterInv, ArgInv
<1>1. g # k
  BY <1>0
<1>. DEFINE dead == IF LastWaiter(k) THEN {k} ELSE {}
<1>2. Left(g, dead)
  BY <1>k, <1>0, LeaveLeaves DEF Wake, Cancels
<1>3. /\ waiting' = [waiting EXCEPT ![k] = waiting[k] - 1]
      /\ resolveState' = IF LastWaiter(k)
                           THEN [resolveState EXCEPT ![target[k]] = Nil]
                           ELSE resolveState
      /\ on' = [on EXCEPT ![g] = Nil]
      /\ UNCHANGED <<records, object, target, err, panicked>>
  BY <1>k DEF Wake
<1>p. PICK p \in {"idle", "call", "exit", "func"} :
       /\ pc' = [pc EXCEPT ![g] = p]
       /\ g \in Callers => p \in {"idle", "func"}
       /\ g \in Builds => p \in {"call", "exit", "func"}
       /\ arg' = IF p = "func" THEN arg ELSE [arg EXCEPT ![g] = Nil]
       /\ p = "exit" => outcome'[g] # "nil"
  BY <1>2 DEF Left
<1>4. /\ waiting[k] \in Nat \ {0}
      /\ Cardinality(Waiters(k) \ {g}) = waiting[k] - 1
      /\ waiting[k] = 1 => Waiters(k) = {g}
      /\ waiting[k] # 1 => \E h \in Waiters(k) : h # g
  BY <1>0, WaiterCounted
<1>5. TypeOK'
  <2>1. /\ pc' \in [Goroutines -> CallerPCs \cup BuildPCs]
        /\ \A c \in Callers : pc'[c] \in CallerPCs
        /\ \A l \in Builds : pc'[l] \in BuildPCs
    BY <1>p DEF IInv, TypeOK, Goroutines, CallerPCs, BuildPCs
  <2>2. arg' \in [Goroutines -> Ids \cup {Nil}]
    BY <1>p DEF IInv, TypeOK
  <2>3. waiting' \in [Builds -> Nat]
    BY <1>3, <1>4 DEF IInv, TypeOK
  <2>4. resolveState' \in [Ids -> Builds \cup {Nil}] /\ on' \in [Goroutines -> Builds \cup {Nil}]
    BY <1>3 DEF IInv, TypeOK
  <2>. QED
    BY <1>2, <1>3, <2>1, <2>2, <2>3, <2>4 DEF Left, IInv, TypeOK
<1>6. /\ pc'[g] = p
      /\ \A h \in Goroutines :
           h # g => pc'[h] = pc[h] /\ arg'[h] = arg[h] /\ on'[h] = on[h]
  BY <1>p, <1>3 DEF IInv, TypeOK
<1>7. \A l \in Builds : (pc'[l] = "free" <=> pc[l] = "free") /\ (Running(l)' <=> Running(l))
  BY <1>p, <1>0, <1>6 DEF Running, Goroutines
<1>8. \A l \in Builds : l \in stopped' <=> (l \in stopped \/ (l = k /\ LastWaiter(k)))
  BY <1>2 DEF Left
<1>9. resolveState[target[k]] = k
  BY <1>0 DEF IInv, LiveInv
<1>10. \A j \in Ids : resolveState'[j] = IF LastWaiter(k) /\ j = target[k] THEN Nil ELSE resolveState[j]
  BY <1>3 DEF IInv, TypeOK
<1>11. TargetInv'
  BY <1>3, <1>7 DEF IInv, TargetInv
<1>12. AttachedInv'
  <2>. SUFFICES ASSUME NEW j \in Ids, resolveState'[j] # Nil
       PROVE  /\ pc'[resolveState'[j]] # "free" /\ target[resolveState'[j]] = j
              /\ resolveState'[j] \notin stopped'
    BY <1>3 DEF AttachedInv
  <2>1. resolveState'[j] = resolveState[j] /\ ~(LastWaiter(k) /\ j = target[k])
    BY <1>10
  <2>2. /\ resolveState[j] \in Builds /\ pc[resolveState[j]] # "free"
        /\ target[resolveState[j]] = j /\ resolveState[j] \notin stopped
    BY <2>1 DEF IInv, AttachedInv, TypeOK
  <2>. QED
    BY <1>7, <1>8, <2>1, <2>2
<1>13. LiveInv'
  <2>. SUFFICES ASSUME NEW l \in Builds, pc'[l] # "free", l \notin stopped'
       PROVE  resolveState'[target[l]] = l
    BY <1>3 DEF LiveInv
  <2>1. pc[l] # "free" /\ l \notin stopped /\ ~(l = k /\ LastWaiter(k))
    BY <1>7, <1>8
  <2>2. resolveState[target[l]] = l /\ target[l] \in Ids
    BY <2>1 DEF IInv, LiveInv, TargetInv, TypeOK
  <2>. QED
    BY <1>9, <1>10, <2>1, <2>2
<1>14. StoppedInv'
  BY <1>7, <1>8 DEF IInv, StoppedInv, LastWaiter
<1>15. WaiterInv'
  <2>. SUFFICES ASSUME NEW h \in Goroutines, pc'[h] = "wait"
       PROVE  /\ on'[h] \in Builds /\ pc'[on'[h]] # "free"
              /\ on'[h] \notin stopped' /\ arg'[h] = target[on'[h]]
    BY <1>3 DEF WaiterInv
  <2>1. h # g /\ pc[h] = "wait" /\ on'[h] = on[h] /\ arg'[h] = arg[h]
    BY <1>6
  <2>2. /\ on[h] \in Builds /\ pc[on[h]] # "free" /\ on[h] \notin stopped
        /\ arg[h] = target[on[h]]
    BY <2>1 DEF IInv, WaiterInv
  <2>3. ~(on[h] = k /\ LastWaiter(k))
    BY <1>4, <2>1 DEF LastWaiter, Waiters
  <2>. QED
    BY <1>7, <1>8, <2>1, <2>2, <2>3
<1>16. WantedInv'
  <2>. SUFFICES ASSUME NEW l \in Builds, Running(l)', l \notin stopped'
       PROVE  \E h \in Goroutines : pc'[h] = "wait" /\ on'[h] = l
    BY DEF WantedInv
  <2>1. Running(l) /\ l \notin stopped /\ ~(l = k /\ LastWaiter(k))
    BY <1>7, <1>8
  <2>2. PICK h \in Goroutines : pc[h] = "wait" /\ on[h] = l /\ h # g
    <3>1. CASE l = k
      BY <1>4, <2>1, <3>1 DEF LastWaiter, Waiters
    <3>2. CASE l # k
      BY <1>0, <2>1, <3>2 DEF IInv, WantedInv
    <3>. QED
      BY <3>1, <3>2
  <2>. QED
    BY <1>6, <2>2
<1>17. ArgInv'
  BY <1>p, <1>0, <1>6 DEF IInv, ArgInv, TypeOK
<1>18. WaitingCounts'
  <2>. SUFFICES ASSUME NEW l \in Builds
       PROVE  waiting'[l] = Cardinality(Waiters(l)')
    BY DEF WaitingCounts
  <2>1. CASE l = k
    <3>1. Waiters(k)' = Waiters(k) \ {g}
      BY <1>6 DEF Waiters
    <3>. QED
      BY <1>3, <1>4, <2>1, <3>1 DEF IInv, TypeOK
  <2>2. CASE l # k
    <3>1. Waiters(l)' = Waiters(l)
      BY <1>0, <1>6, <2>2 DEF Waiters
    <3>. QED
      BY <1>3, <2>2, <3>1 DEF IInv, TypeOK, WaitingCounts
  <2>. QED
    BY <2>1, <2>2
<1>19. ErrInv'
  BY <1>2, <1>3, <1>8 DEF Left, IInv, ErrInv
<1>20. FinalInv'
  <2>. SUFFICES ASSUME NEW l \in Builds
       PROVE /\ pc'[l] = "exit" /\ outcome'[l] = "nil" => Final(target[l])
             /\ pc'[l] = "done" /\ err[l] = "nil" => Final(target[l])
    BY <1>3 DEF FinalInv, Final
  <2>1. CASE l = g
    BY <1>p, <1>6, <2>1
  <2>2. CASE l # g
    BY <1>2, <1>6, <2>2 DEF Left, IInv, FinalInv, Goroutines
  <2>. QED
    BY <2>1, <2>2
<1>21. AnswersFinal'
  BY <1>2 DEF Left, AnswersFinal
<1>. QED
  BY <1>5, <1>11, <1>12, <1>13, <1>14, <1>15, <1>16, <1>17, <1>18, <1>19,
     <1>20, <1>21 DEF IInv

(***************************************************************************)
(* The steps of a build.  None of them enters or leaves a select.          *)
(***************************************************************************)
\* The parts of the invariant that a build can only disturb by ending.
LEMMA BuildMoves ==
  ASSUME IInv, NEW k \in Builds, NEW q \in {"loop", "call", "resolve", "exit"},
         pc[k] \in {"loop", "call"}, pc' = [pc EXCEPT ![k] = q],
         UNCHANGED <<records, resolveState, target, waiting, err, on, stopped,
                     background, ret, panicked>>,
         \A g \in Goroutines : g # k => arg'[g] = arg[g],
         q = "resolve" => arg'[k] \in Ids
  PROVE  /\ TargetInv' /\ AttachedInv' /\ LiveInv' /\ StoppedInv' /\ WaiterInv'
         /\ WantedInv' /\ ArgInv' /\ WaitingCounts' /\ AnswersFinal'
         /\ pc' \in [Goroutines -> CallerPCs \cup BuildPCs]
         /\ \A c \in Callers : pc'[c] \in CallerPCs
         /\ \A l \in Builds : pc'[l] \in BuildPCs
<1>. USE DatabaseAssumption
<1>1. pc'[k] = q /\ \A g \in Goroutines : g # k => pc'[g] = pc[g]
  BY DEF IInv, TypeOK, Goroutines
<1>2. k \in Goroutines /\ \A c \in Callers : c # k /\ c \in Goroutines
  BY DEF Goroutines
<1>3. \A l \in Builds : (pc'[l] = "free" <=> pc[l] = "free") /\ (Running(l)' <=> Running(l))
  BY <1>1 DEF Running, Goroutines
<1>4. TargetInv' /\ AttachedInv' /\ LiveInv' /\ StoppedInv'
  BY <1>3 DEF IInv, TypeOK, TargetInv, AttachedInv, LiveInv, StoppedInv
<1>5. WaiterInv'
  BY <1>1, <1>3 DEF IInv, WaiterInv
<1>6. WantedInv'
  BY <1>1, <1>3 DEF IInv, WantedInv
<1>7. ArgInv'
  BY <1>1 DEF IInv, ArgInv
<1>8. WaitingCounts'
  BY <1>1, SameWaiters
<1>9. AnswersFinal'
  BY DEF IInv, AnswersFinal
<1>10. /\ \A c \in Callers : pc'[c] \in CallerPCs
       /\ \A l \in Builds : pc'[l] \in BuildPCs
  BY <1>1, <1>2 DEF IInv, TypeOK, BuildPCs, Goroutines
<1>11. pc' \in [Goroutines -> CallerPCs \cup BuildPCs]
  BY DEF IInv, TypeOK, BuildPCs
<1>. QED
  BY <1>4, <1>5, <1>6, <1>7, <1>8, <1>9, <1>10, <1>11

LEMMA InspectKeeps == ASSUME IInv, NEW k \in Builds, Inspect(k) PROVE IInv'
<1>. USE DatabaseAssumption
<1>. DEFINE q == IF Final(target[k]) THEN "exit" ELSE "call"
<1>0. target[k] \in Ids
  BY DEF Inspect, IInv, TargetInv, TypeOK
<1>1. /\ TargetInv' /\ AttachedInv' /\ LiveInv' /\ StoppedInv' /\ WaiterInv'
      /\ WantedInv' /\ ArgInv' /\ WaitingCounts' /\ AnswersFinal'
      /\ pc' \in [Goroutines -> CallerPCs \cup BuildPCs]
      /\ \A c \in Callers : pc'[c] \in CallerPCs
      /\ \A l \in Builds : pc'[l] \in BuildPCs
  <2>1. q \in {"loop", "call", "resolve", "exit"} /\ q # "resolve"
    OBVIOUS
  <2>. QED
    BY <2>1, BuildMoves DEF Inspect
<1>2. TypeOK'
  BY <1>0, <1>1 DEF Inspect, IInv, TypeOK
<1>3. ErrInv'
  BY DEF Inspect, IInv, ErrInv
<1>4. FinalInv'
  BY DEF Inspect, IInv, FinalInv, Final, TypeOK, Goroutines
<1>. QED
  BY <1>1, <1>2, <1>3, <1>4 DEF IInv

LEMMA ResolveDependencyKeeps ==
  ASSUME IInv, NEW k \in Builds, NEW i \in Ids, ResolveDependency(k, i)
  PROVE  IInv'
<1>. USE DatabaseAssumption
<1>1. /\ TargetInv' /\ AttachedInv' /\ LiveInv' /\ StoppedInv' /\ WaiterInv'
      /\ WantedInv' /\ ArgInv' /\ WaitingCounts' /\ AnswersFinal'
      /\ pc' \in [Goroutines -> CallerPCs \cup BuildPCs]
      /\ \A c \in Callers : pc'[c] \in CallerPCs
      /\ \A l \in Builds : pc'[l] \in BuildPCs
  BY BuildMoves DEF ResolveDependency, IInv, TypeOK, Goroutines
<1>2. TypeOK'
  BY <1>1 DEF ResolveDependency, IInv, TypeOK
<1>3. ErrInv'
  BY DEF ResolveDependency, IInv, ErrInv
<1>4. FinalInv'
  BY DEF ResolveDependency, IInv, FinalInv, Final, TypeOK, Goroutines
<1>. QED
  BY <1>1, <1>2, <1>3, <1>4 DEF IInv

LEMMA SetObjectKeeps == ASSUME IInv, NEW k \in Builds, SetObject(k) PROVE IInv'
<1>. USE DatabaseAssumption
<1>1. /\ TargetInv' /\ AttachedInv' /\ LiveInv' /\ StoppedInv' /\ WaiterInv'
      /\ WantedInv' /\ ArgInv' /\ WaitingCounts' /\ AnswersFinal'
      /\ pc' \in [Goroutines -> CallerPCs \cup BuildPCs]
      /\ \A c \in Callers : pc'[c] \in CallerPCs
      /\ \A l \in Builds : pc'[l] \in BuildPCs
  BY BuildMoves DEF SetObject
<1>2. TypeOK'
  BY <1>1 DEF SetObject, IInv, TypeOK
<1>3. ErrInv'
  BY DEF SetObject, IInv, ErrInv
<1>4. FinalInv'
  <2>1. \A i \in Ids : Final(i) => Final(i)'
    BY DEF SetObject, IInv, TypeOK, Final
  <2>2. \A l \in Builds : pc'[l] \in {"exit", "done"} => pc[l] = pc'[l] /\ target[l] \in Ids
    BY DEF SetObject, IInv, TypeOK, TargetInv, Goroutines
  <2>. QED
    BY <2>1, <2>2 DEF SetObject, IInv, FinalInv
<1>. QED
  BY <1>1, <1>2, <1>3, <1>4 DEF IInv

LEMMA ResolvableFailsKeeps ==
  ASSUME IInv, NEW k \in Builds, ResolvableFails(k) PROVE IInv'
<1>. USE DatabaseAssumption
<1>0. PICK e \in {"failed", "cancelled"} :
        /\ outcome' = [outcome EXCEPT ![k] = e]
        /\ e = "cancelled" => k \in stopped
  BY DEF ResolvableFails, BuildCancelled
<1>1. /\ TargetInv' /\ AttachedInv' /\ LiveInv' /\ StoppedInv' /\ WaiterInv'
      /\ WantedInv' /\ ArgInv' /\ WaitingCounts' /\ AnswersFinal'
      /\ pc' \in [Goroutines -> CallerPCs \cup BuildPCs]
      /\ \A c \in Callers : pc'[c] \in CallerPCs
      /\ \A l \in Builds : pc'[l] \in BuildPCs
  BY BuildMoves DEF ResolvableFails
<1>2. TypeOK'
  BY <1>0, <1>1 DEF ResolvableFails, IInv, TypeOK, Errors
<1>3. ErrInv'
  BY <1>0 DEF ResolvableFails, IInv, ErrInv, TypeOK
<1>4. FinalInv'
  BY <1>0 DEF ResolvableFails, IInv, FinalInv, Final, TypeOK, Goroutines
<1>. QED
  BY <1>1, <1>2, <1>3, <1>4 DEF IInv

\* A build that was not cancelled publishes its outcome.
LEMMA PublishKeeps ==
  ASSUME IInv, NEW k \in Builds, Finish(k), k \notin stopped PROVE IInv'
<1>. USE DatabaseAssumption
<1>1. /\ pc[k] = "exit" /\ pc' = [pc EXCEPT ![k] = "done"]
      /\ err' = [err EXCEPT ![k] = outcome[k]]
      /\ outcome' = [outcome EXCEPT ![k] = "nil"]
      /\ todo' = [todo EXCEPT ![k] = {}]
      /\ UNCHANGED <<target, stopped, records, object, resolveState, waiting,
                     arg, on, background, ret, panicked>>
  BY DEF Finish, Conclude, Publish
<1>2. /\ pc'[k] = "done" /\ k \in Goroutines
      /\ \A g \in Goroutines : g # k => pc'[g] = pc[g]
  BY <1>1 DEF IInv, TypeOK, Goroutines
<1>3. TypeOK'
  BY <1>1, <1>2 DEF IInv, TypeOK, Goroutines, BuildPCs, Errors
<1>4. \A l \in Builds : (pc'[l] = "free" <=> pc[l] = "free") /\ (l # k => (Running(l)' <=> Running(l)))
  BY <1>1, <1>2 DEF Running, Goroutines
<1>5. TargetInv' /\ AttachedInv' /\ LiveInv'
  BY <1>1, <1>4 DEF IInv, TypeOK, TargetInv, AttachedInv, LiveInv
<1>6. StoppedInv'
  BY <1>1, <1>4 DEF IInv, StoppedInv
<1>7. WaiterInv'
  BY <1>1, <1>2, <1>4 DEF IInv, WaiterInv
<1>8. WantedInv'
  <2>. SUFFICES ASSUME NEW l \in Builds, Running(l)', l \notin stopped
       PROVE  \E g \in Goroutines : pc'[g] = "wait" /\ on[g] = l
    BY <1>1 DEF WantedInv
  <2>1. l # k /\ Running(l)
    BY <1>2, <1>4 DEF Running
  <2>2. PICK g \in Goroutines : pc[g] = "wait" /\ on[g] = l
    BY <2>1 DEF IInv, WantedInv
  <2>. QED
    BY <1>1, <1>2, <2>2
<1>9. ArgInv'
  BY <1>1, <1>2 DEF IInv, ArgInv
<1>10. WaitingCounts'
  BY <1>1, <1>2, SameWaiters
<1>11. ErrInv'
  BY <1>1 DEF IInv, ErrInv, TypeOK
<1>12. FinalInv'
  <2>. SUFFICES ASSUME NEW l \in Builds
       PROVE /\ pc'[l] = "exit" /\ outcome'[l] = "nil" => Final(target[l])
             /\ pc'[l] = "done" /\ err'[l] = "nil" => Final(target[l])
    BY <1>1 DEF FinalInv, Final
  <2>1. CASE l = k
    BY <1>1, <1>2, <2>1 DEF IInv, FinalInv, TypeOK
  <2>2. CASE l # k
    BY <1>1, <1>2, <2>2 DEF IInv, FinalInv, TypeOK, Goroutines
  <2>. QED
    BY <2>1, <2>2
<1>13. AnswersFinal'
  BY <1>1 DEF IInv, AnswersFinal
<1>. QED
  BY <1>3, <1>5, <1>6, <1>7, <1>8, <1>9, <1>10, <1>11, <1>12, <1>13 DEF IInv

\* A cancelled build is referenced by nobody and can be collected.
LEMMA CollectKeeps ==
  ASSUME IInv, NEW k \in Builds, Finish(k), k \in stopped PROVE IInv'
<1>. USE DatabaseAssumption
<1>1. /\ pc[k] = "exit" /\ pc' = [pc EXCEPT ![k] = "free"]
      /\ target' = [target EXCEPT ![k] = Nil]
      /\ stopped' = stopped \ {k}
      /\ outcome' = [outcome EXCEPT ![k] = "nil"]
      /\ todo' = [todo EXCEPT ![k] = {}]
      /\ UNCHANGED <<err, records, object, resolveState, waiting, arg, on,
                     background, ret, panicked>>
  BY DEF Finish, Conclude, Collect
<1>2. /\ pc'[k] = "free" /\ target'[k] = Nil /\ k \in Goroutines /\ k \notin stopped'
      /\ \A g \in Goroutines : g # k => pc'[g] = pc[g]
      /\ \A l \in Builds : l # k => target'[l] = target[l] /\ (l \in stopped' <=> l \in stopped)
  BY <1>1 DEF IInv, TypeOK, Goroutines
<1>3. TypeOK'
  BY <1>1, <1>2 DEF IInv, TypeOK, Goroutines, BuildPCs, Errors
<1>4. \A i \in Ids : resolveState[i] # k
  BY DEF IInv, AttachedInv
<1>5. \A g \in Goroutines : pc[g] = "wait" => on[g] # k /\ on[g] \in Builds
  BY DEF IInv, WaiterInv
<1>6. \A l \in Builds : l # k => pc'[l] = pc[l] /\ (Running(l)' <=> Running(l))
  BY <1>2 DEF Running, Goroutines
<1>7. TargetInv'
  BY <1>1, <1>2, <1>6 DEF IInv, TargetInv
<1>8. AttachedInv'
  <2>. SUFFICES ASSUME NEW i \in Ids, resolveState[i] # Nil
       PROVE /\ pc'[resolveState[i]] # "free" /\ target'[resolveState[i]] = i
             /\ resolveState[i] \notin stopped'
    BY <1>1 DEF AttachedInv
  <2>1. resolveState[i] \in Builds /\ resolveState[i] # k
    BY <1>4 DEF IInv, TypeOK
  <2>. QED
    BY <1>2, <1>6, <2>1 DEF IInv, AttachedInv
<1>9. LiveInv'
  <2>. SUFFICES ASSUME NEW l \in Builds, pc'[l] # "free", l \notin stopped'
       PROVE  resolveState[target'[l]] = l
    BY <1>1 DEF LiveInv
  <2>1. l # k
    BY <1>2
  <2>. QED
    BY <1>2, <1>6, <2>1 DEF IInv, LiveInv
<1>10. StoppedInv'
  BY <1>1, <1>6 DEF IInv, StoppedInv
<1>11. WaiterInv'
  BY <1>1, <1>2, <1>5, <1>6 DEF IInv, WaiterInv
<1>12. WantedInv'
  <2>. SUFFICES ASSUME NEW l \in Builds, Running(l)', l \notin stopped'
       PROVE  \E g \in Goroutines : pc'[g] = "wait" /\ on[g] = l
    BY <1>1 DEF WantedInv
  <2>1. l # k /\ Running(l) /\ l \notin stopped
    BY <1>2, <1>6 DEF Running
  <2>2. PICK g \in Goroutines : pc[g] = "wait" /\ on[g] = l
    BY <2>1 DEF IInv, WantedInv
  <2>. QED
    BY <1>1, <1>2, <2>2
<1>13. ArgInv'
  BY <1>1, <1>2 DEF IInv, ArgInv
<1>14. WaitingCounts'
  BY <1>1, <1>2, SameWaiters
<1>15. ErrInv'
  BY <1>1, <1>2 DEF IInv, ErrInv, TypeOK
<1>16. FinalInv'
  <2>. SUFFICES ASSUME NEW l \in Builds
       PROVE /\ pc'[l] = "exit" /\ outcome'[l] = "nil" => Final(target'[l])
             /\ pc'[l] = "done" /\ err[l] = "nil" => Final(target'[l])
    BY <1>1 DEF FinalInv, Final
  <2>1. CASE l = k
    BY <1>2, <2>1
  <2>2. CASE l # k
    BY <1>1, <1>2, <1>6, <2>2 DEF IInv, FinalInv, TypeOK
  <2>. QED
    BY <2>1, <2>2
<1>17. AnswersFinal'
  BY <1>1 DEF IInv, AnswersFinal
<1>. QED
  BY <1>3, <1>7, <1>8, <1>9, <1>10, <1>11, <1>12, <1>13, <1>14, <1>15, <1>16,
     <1>17 DEF IInv

(***************************************************************************)
(* The steps of a client.                                                  *)
(***************************************************************************)
\* A caller outside the select moves to another place outside it.
LEMMA CallerMoves ==
  ASSUME IInv, NEW c \in Callers, NEW q \in {"idle", "stored", "resolve"},
         pc[c] \in {"idle", "stored"}, pc' = [pc EXCEPT ![c] = q],
         arg' \in [Goroutines -> Ids \cup {Nil}],
         \A g \in Goroutines : g # c => arg'[g] = arg[g],
         q # "idle" => arg'[c] \in Ids,
         records \subseteq records', records' \subseteq Ids,
         \A k \in Builds : k \in stopped' <=> k \in stopped,
         stopped' \subseteq Goroutines, background' \subseteq Callers,
         ret' \in [Callers -> Answers], \A d \in Callers : ret'[d] # "raw",
         UNCHANGED <<object, resolveState, target, waiting, err, outcome, todo,
                     on, panicked>>
  PROVE  IInv'
<1>. USE DatabaseAssumption
<1>1. /\ c \in Goroutines /\ pc'[c] = q
      /\ \A g \in Goroutines : g # c => pc'[g] = pc[g]
      /\ \A k \in Builds : k # c /\ k \in Goroutines
  BY DEF IInv, TypeOK, Goroutines
<1>2. TypeOK'
  BY <1>1 DEF IInv, TypeOK, Goroutines, CallerPCs
<1>3. \A k \in Builds : pc'[k] = pc[k] /\ (Running(k)' <=> Running(k))
  BY <1>1 DEF Running
<1>4. TargetInv' /\ AttachedInv' /\ LiveInv' /\ StoppedInv'
  BY <1>3 DEF IInv, TypeOK, TargetInv, AttachedInv, LiveInv, StoppedInv
<1>5. WaiterInv'
  BY <1>1, <1>3 DEF IInv, WaiterInv
<1>6. WantedInv'
  BY <1>1, <1>3 DEF IInv, WantedInv
<1>7. ArgInv'
  BY <1>1 DEF IInv, ArgInv
<1>8. WaitingCounts'
  BY <1>1, SameWaiters
<1>9. ErrInv'
  BY DEF IInv, ErrInv
<1>10. FinalInv'
  BY <1>3 DEF IInv, FinalInv, Final
<1>11. AnswersFinal'
  BY DEF AnswersFinal
<1>. QED
  BY <1>2, <1>4, <1>5, <1>6, <1>7, <1>8, <1>9, <1>10, <1>11 DEF IInv

LEMMA StoreKeeps ==
  ASSUME IInv, NEW c \in Callers, NEW i \in Ids, Store(c, i) PROVE IInv'
<1>1. records \subseteq records' /\ records' \subseteq Ids
  BY DEF Store, IInv, TypeOK
<1>2. /\ arg' \in [Goroutines -> Ids \cup {Nil}] /\ arg'[c] \in Ids
      /\ \A g \in Goroutines : g # c => arg'[g] = arg[g]
  BY DEF Store, IInv, TypeOK, Goroutines
<1>3. ret' \in [Callers -> Answers] /\ \A d \in Callers : ret'[d] # "raw"
  BY DEF Store, IInv, TypeOK, AnswersFinal, Answers
<1>4. /\ pc[c] = "idle" /\ pc' = [pc EXCEPT ![c] = "stored"]
      /\ UNCHANGED <<object, resolveState, target, waiting, err, outcome, todo,
                     on, stopped, background, panicked>>
  BY DEF Store
<1>5. stopped' \subseteq Goroutines /\ background' \subseteq Callers
  BY <1>4 DEF IInv, TypeOK
<1>. QED
  BY <1>1, <1>2, <1>3, <1>4, <1>5, CallerMoves

LEMMA CallResolveKeeps ==
  ASSUME IInv, NEW c \in Callers, NEW i \in Ids, CallResolve(c, i) PROVE IInv'
  BY CallerMoves, DatabaseAssumption DEF CallResolve, IInv, TypeOK, AnswersFinal, Goroutines, Answers

LEMMA BuildKeeps == ASSUME IInv, NEW c \in Callers, Build(c) PROVE IInv'
  BY CallerMoves, DatabaseAssumption DEF Build, IInv, TypeOK, AnswersFinal, ArgInv, Goroutines

\* IInv says nothing of panicked but its type.
LEMMA PanicKeeps ==
  ASSUME IInv, panicked' \in BOOLEAN,
         UNCHANGED <<records, object, resolveState, target, waiting, err,
                     outcome, todo, pc, arg, on, stopped, background, ret>>
  PROVE  IInv'
<1>1. TypeOK'
  BY DEF IInv, TypeOK
<1>2. TargetInv' /\ AttachedInv' /\ LiveInv' /\ StoppedInv'
  BY DEF IInv, TargetInv, AttachedInv, LiveInv, StoppedInv, Running
<1>3. WaiterInv' /\ WantedInv' /\ ArgInv'
  BY DEF IInv, WaiterInv, WantedInv, ArgInv, Running
<1>4. WaitingCounts'
  BY SameWaiters
<1>5. ErrInv' /\ FinalInv' /\ AnswersFinal'
  BY DEF IInv, ErrInv, FinalInv, Final, AnswersFinal
<1>. QED
  BY <1>1, <1>2, <1>3, <1>4, <1>5 DEF IInv

LEMMA GetOrBuildKeeps == ASSUME IInv, NEW c \in Callers, GetOrBuild(c) PROVE IInv'
<1>. USE DatabaseAssumption
<1>1. CASE IsResolvedPanics(arg[c])
  BY <1>1, PanicKeeps DEF GetOrBuild
<1>2. CASE ~IsResolvedPanics(arg[c])
  <2>1. /\ pc[c] = "stored" /\ c \in Goroutines /\ c \notin Builds /\ arg[c] \in Ids
    BY DEF GetOrBuild, IInv, ArgInv, Goroutines
  <2>2. /\ pc' = [pc EXCEPT ![c] = "resolve"]
        /\ UNCHANGED <<records, object, resolveState, target, waiting, err,
                       outcome, todo, arg, on, panicked>>
    BY <1>2 DEF GetOrBuild
  <2>3. /\ stopped' \subseteq Goroutines /\ background' \subseteq Callers
        /\ \A k \in Builds : k \in stopped' <=> k \in stopped
        /\ ret' \in [Callers -> Answers] /\ \A d \in Callers : ret'[d] # "raw"
    BY <1>2, <2>1 DEF GetOrBuild, IInv, TypeOK, AnswersFinal, Answers
  <2>. QED
    BY <2>1, <2>2, <2>3, CallerMoves DEF IInv, TypeOK
<1>. QED
  BY <1>1, <1>2

LEMMA CancelKeeps == ASSUME IInv, NEW c \in Callers, Cancel(c) PROVE IInv'
<1>. USE DatabaseAssumption
<1>1. /\ stopped' = stopped \cup {c} /\ c \in Goroutines /\ c \notin Builds
      /\ UNCHANGED <<records, object, resolveState, target, waiting, err,
                     outcome, todo, pc, arg, on, background, ret, panicked>>
  BY DEF Cancel, Goroutines
<1>2. TypeOK'
  BY <1>1 DEF IInv, TypeOK
<1>3. \A k \in Builds : (k \in stopped' <=> k \in stopped) /\ (Running(k)' <=> Running(k))
  BY <1>1 DEF Running
<1>4. TargetInv' /\ AttachedInv' /\ LiveInv' /\ StoppedInv'
  BY <1>1, <1>3 DEF IInv, TypeOK, TargetInv, AttachedInv, LiveInv, StoppedInv
<1>5. WaiterInv' /\ WantedInv' /\ ArgInv'
  BY <1>1, <1>3 DEF IInv, WaiterInv, WantedInv, ArgInv
<1>6. WaitingCounts'
  BY <1>1, SameWaiters
<1>7. ErrInv' /\ FinalInv' /\ AnswersFinal'
  BY <1>1, <1>3 DEF IInv, ErrInv, FinalInv, Final, AnswersFinal
<1>. QED
  BY <1>2, <1>4, <1>5, <1>6, <1>7 DEF IInv

-----------------------------------------------------------------------------
LEMMA InitIInv == Init => IInv
<1>. SUFFICES ASSUME Init PROVE IInv
  OBVIOUS
<1>. USE DatabaseAssumption
<1>0. /\ \A c \in Callers : pc[c] = "idle"
      /\ \A k \in Builds : pc[k] = "free"
      /\ \A g \in Goroutines : pc[g] \in {"idle", "free"}
  BY DEF Init, Goroutines
<1>1. TypeOK
  BY <1>0 DEF Init, TypeOK, Goroutines, CallerPCs, BuildPCs, Errors, Answers
<1>2. TargetInv /\ AttachedInv /\ LiveInv /\ StoppedInv
  BY <1>0 DEF Init, TargetInv, AttachedInv, LiveInv, StoppedInv
<1>3. WaiterInv /\ WantedInv /\ ArgInv
  BY <1>0 DEF WaiterInv, WantedInv, ArgInv, Running
<1>4. WaitingCounts
  <2>1. \A k \in Builds : Waiters(k) = {}
    BY <1>0 DEF Waiters
  <2>. QED
    BY <2>1, FS_EmptySet DEF Init, WaitingCounts
<1>5. ErrInv /\ FinalInv /\ AnswersFinal
  BY <1>0 DEF Init, ErrInv, FinalInv, AnswersFinal
<1>. QED
  BY <1>1, <1>2, <1>3, <1>4, <1>5 DEF IInv

LEMMA NextIInv == IInv /\ [Next]_vars => IInv'
<1>. SUFFICES ASSUME IInv, [Next]_vars PROVE IInv'
  OBVIOUS
<1>1. ASSUME NEW g \in Goroutines, Step(g) PROVE IInv'
  <2>1. CASE Resolve(g)
    BY <2>1, NotFoundKeeps, StartBuildKeeps, JoinBuildKeeps, AlreadyBuiltKeeps DEF Resolve
  <2>. QED
    BY <1>1, <2>1, WakeKeeps, CallBlobFuncKeeps DEF Step
<1>2. ASSUME NEW k \in Builds, BuildStep(k) PROVE IInv'
  BY <1>2, InspectKeeps, ResolveDependencyKeeps, SetObjectKeeps, ResolvableFailsKeeps, PublishKeeps, CollectKeeps
     DEF BuildStep
<1>3. ASSUME NEW c \in Callers, CallerStep(c) PROVE IInv'
  BY <1>3, StoreReturnsKeeps, BuildKeeps, GetOrBuildKeeps DEF CallerStep
<1>4. ASSUME NEW c \in Callers, Client(c) PROVE IInv'
  BY <1>4, StoreKeeps, CallResolveKeeps, CancelKeeps DEF Client
<1>5. CASE UNCHANGED vars
  BY <1>5, PanicKeeps DEF vars, IInv, TypeOK
<1>. QED
  BY <1>1, <1>2, <1>3, <1>4, <1>5 DEF Next, Crashed

\* The inductive invariant holds in every reachable state.
THEOREM Invariance == Spec => []IInv
<1>. QED
  BY InitIInv, NextIInv, PTL DEF Spec

\* The state is well typed; in particular waiting never goes below zero, which
\* for the uint32 of the code would wrap.
THEOREM TypeCorrect == Spec => []TypeOK
<1>1. IInv => TypeOK
  BY DEF IInv
<1>. QED
  BY Invariance, <1>1, PTL

\* resolveState.waiting counts the goroutines in the select.
THEOREM WaitersAreCounted == Spec => []WaitingCounts
<1>1. IInv => WaitingCounts
  BY DEF IInv
<1>. QED
  BY Invariance, <1>1, PTL

\* A live build is attached and waited for, a cancelled one is neither.
THEOREM BuildsAreShared == Spec => []NoOrphanBuild
<1>1. IInv => NoOrphanBuild
  <2>. SUFFICES ASSUME IInv, NEW k \in Builds, Running(k)
       PROVE IF k \in stopped
               THEN Waiters(k) = {} /\ \A i \in Ids : resolveState[i] # k
               ELSE Waiters(k) # {} /\ resolveState[target[k]] = k
    BY DEF NoOrphanBuild
  <2>1. CASE k \in stopped
    BY <2>1, DatabaseAssumption DEF IInv, WaiterInv, AttachedInv, Waiters
  <2>2. CASE k \notin stopped
    BY <2>2 DEF IInv, WantedInv, LiveInv, Waiters, Running
  <2>. QED
    BY <2>1, <2>2
<1>. QED
  BY Invariance, <1>1, PTL

\* No record remembers a cancellation as its outcome.
THEOREM CancellationIsForgotten == Spec => []CancelNotRemembered
<1>1. IInv => CancelNotRemembered
  BY DatabaseAssumption DEF IInv, TypeOK, ErrInv, CancelNotRemembered, Settled
<1>. QED
  BY Invariance, <1>1, PTL

\* Resolve returns final objects only.
THEOREM ResolvedIsFinal == Spec => []AnswersFinal
<1>1. IInv => AnswersFinal
  BY DEF IInv
<1>. QED
  BY Invariance, <1>1, PTL

\* record.object is assigned by the building goroutine only.
LEMMA ObjectKept ==
  ASSUME [Next]_vars, \A k \in Builds : ~SetObject(k)
  PROVE  object' = object
<1>1. ASSUME NEW g \in Goroutines, Step(g) PROVE object' = object
  BY <1>1 DEF Step, Resolve, NotFound, StartBuild, JoinBuild, AlreadyBuilt, Wake, CallBlobFunc
<1>2. ASSUME NEW k \in Builds, BuildStep(k) PROVE object' = object
  BY <1>2 DEF BuildStep, Inspect, ResolveDependency, ResolvableFails, Finish
<1>3. ASSUME NEW c \in Callers, CallerStep(c) PROVE object' = object
  BY <1>3 DEF CallerStep, StoreReturns, Build, GetOrBuild
<1>4. ASSUME NEW c \in Callers, Client(c) PROVE object' = object
  BY <1>4 DEF Client, Store, CallResolve, Cancel
<1>5. CASE UNCHANGED vars
  BY <1>5 DEF vars
<1>. QED
  BY <1>1, <1>2, <1>3, <1>4, <1>5 DEF Next, Crashed

\* Once a record has its outcome, only a build that was given up replaces the
\* object: the build that settled it is the only live one.
THEOREM OnlyAbandonedReplace == Spec => ReplacedByAbandoned
<1>1. ASSUME IInv, [Next]_vars, NEW i \in Ids, Settled(i), object'[i] # object[i]
      PROVE  \E k \in stopped \cap Builds : target[k] = i /\ object'[i] = k
  <2>1. PICK k \in Builds : SetObject(k)
    BY <1>1, ObjectKept
  <2>2. pc[k] = "call" /\ object' = [object EXCEPT ![target[k]] = k] /\ object \in [Ids -> Builds \cup {Nil}]
    BY <1>1, <2>1 DEF SetObject, IInv, TypeOK
  <2>3. target[k] = i /\ object'[i] = k
    BY <1>1, <2>2
  <2>4. ASSUME k \notin stopped PROVE FALSE
    <3>1. resolveState[target[k]] = k
      BY <1>1, <2>2, <2>4 DEF IInv, LiveInv
    <3>2. QED
      BY <1>1, <2>2, <2>3, <3>1 DEF Settled
  <2>. QED
    BY <2>3, <2>4
<1>2. IInv /\ [Next]_vars
      => [\A i \in Ids : Settled(i) /\ object'[i] # object[i]
            => \E k \in stopped \cap Builds : target[k] = i /\ object'[i] = k]_vars
  BY <1>1
<1>. QED
  BY Invariance, <1>2, PTL DEF Spec, ReplacedByAbandoned

-----------------------------------------------------------------------------
(***************************************************************************)
(* Database implements Memo, on top of the invariant above: what the       *)
(* refinement needs to know in addition.                                   *)
(***************************************************************************)
\* A stored function is called for a record that was settled to a value.
FuncInv ==
  \A g \in Goroutines, i \in Ids : pc[g] = "func" /\ arg[g] = i =>
    i \in BlobFuncs \cap records /\ SettledTo(i) = "value"

\* Between Store and what follows it the record is there and the caller waits.
StoredInv ==
  \A c \in Callers :
    /\ pc[c] = "stored" => arg[c] \in records
    /\ c \in background => pc[c] \notin {"idle", "stored"}

RInv == IInv /\ FuncInv /\ StoredInv

-----------------------------------------------------------------------------
(***************************************************************************)
(* Settling.                                                               *)
(***************************************************************************)
\* A step that neither ends a build nor attaches or detaches a finished one
\* settles nothing.
LEMMA SameSettled ==
  ASSUME IInv, NEW i \in Ids, err' = err,
         \A k \in Builds : pc'[k] = "done" <=> pc[k] = "done",
         resolveState'[i] = resolveState[i] \/ (~Settled(i) /\ ~Settled(i)')
  PROVE  SettledTo(i)' = SettledTo(i)
<1>1. resolveState[i] \in Builds \cup {Nil}
  BY DEF IInv, TypeOK
<1>2. CASE resolveState'[i] = resolveState[i]
  BY <1>1, <1>2 DEF SettledTo, Settled
<1>3. CASE ~Settled(i) /\ ~Settled(i)'
  BY <1>3 DEF SettledTo
<1>. QED
  BY <1>2, <1>3

\* The outcome of a finished build that is not cancelled is the outcome of its
\* record.
LEMMA DoneIsSettled ==
  ASSUME IInv, NEW k \in Builds, pc[k] = "done"
  PROVE  /\ target[k] \in Ids /\ target[k] \in records
         /\ SettledTo(target[k]) = IF err[k] = "nil" THEN "value" ELSE "failed"
<1>1. k \notin stopped /\ k # Nil
  BY DatabaseAssumption DEF IInv, StoppedInv, Running
<1>2. target[k] \in records /\ target[k] \in Ids
  BY DEF IInv, TargetInv, TypeOK
<1>3. resolveState[target[k]] = k
  BY <1>1 DEF IInv, LiveInv
<1>. QED
  BY <1>1, <1>2, <1>3 DEF SettledTo, Settled

(***************************************************************************)
(* Steps that Memo does not see.                                           *)
(***************************************************************************)
LEMMA Stutters ==
  ASSUME \A i \in Ids : SettledTo(i)' = SettledTo(i),
         \A c \in Callers : /\ pc'[c] = "idle" <=> pc[c] = "idle"
                            /\ arg'[c] = arg[c]
                            /\ c \in stopped' <=> c \in stopped,
         UNCHANGED <<records, background, ret, panicked>>
  PROVE  UNCHANGED M!vars
<1>1. [i \in Ids |-> SettledTo(i)]' = [i \in Ids |-> SettledTo(i)]
  OBVIOUS
<1>2. {c \in Callers : pc[c] # "idle"}' = {c \in Callers : pc[c] # "idle"}
  OBVIOUS
<1>3. [c \in Callers |-> arg[c]]' = [c \in Callers |-> arg[c]]
  OBVIOUS
<1>4. (stopped \cap Callers)' = stopped \cap Callers
  OBVIOUS
<1>. QED
  BY <1>1, <1>2, <1>3, <1>4 DEF M!vars

\* A call of a client returns.
LEMMA Returns ==
  ASSUME IInv, NEW c \in Callers, pc[c] # "idle", NEW o,
         NEW dead \in SUBSET Builds, Deliver(c, o, dead), o \in M!Answer(c),
         \A i \in Ids : SettledTo(i)' = SettledTo(i),
         UNCHANGED <<records, panicked>>
  PROVE  M!Return(c)
<1>. USE DatabaseAssumption
<1>1. [i \in Ids |-> SettledTo(i)]' = [i \in Ids |-> SettledTo(i)]
  OBVIOUS
<1>2. {d \in Callers : pc[d] # "idle"}' = {d \in Callers : pc[d] # "idle"} \ {c}
  BY DEF Deliver, IInv, TypeOK, Goroutines
<1>3. [d \in Callers |-> arg[d]]' = [[d \in Callers |-> arg[d]] EXCEPT ![c] = Nil]
  BY DEF Deliver, IInv, TypeOK, Goroutines
<1>4. (stopped \cap Callers)' = (stopped \cap Callers) \ {c}
  BY DEF Deliver
<1>5. /\ ret' = [ret EXCEPT ![c] = IF c \in background THEN @ ELSE o]
      /\ background' = background \ {c}
  BY DEF Deliver
<1>. QED
  BY <1>1, <1>2, <1>3, <1>4, <1>5 DEF M!Return

\* A build's call of Resolve returns: nobody but the build sees it.
LEMMA DependencyReturns ==
  ASSUME IInv, NEW k \in Builds, NEW o, NEW dead \in SUBSET Builds,
         Deliver(k, o, dead), UNCHANGED <<records, panicked>>,
         \A i \in Ids : SettledTo(i)' = SettledTo(i)
  PROVE  UNCHANGED M!vars
<1>. USE DatabaseAssumption
<1>1. k \notin Callers
  OBVIOUS
<1>2. \A c \in Callers : /\ pc'[c] = pc[c] /\ arg'[c] = arg[c]
                         /\ c \in stopped' <=> c \in stopped
  BY <1>1 DEF Deliver, IInv, TypeOK, Goroutines
<1>3. UNCHANGED <<background, ret>>
  BY <1>1 DEF Deliver
<1>. QED
  BY <1>2, <1>3, Stutters

-----------------------------------------------------------------------------
(***************************************************************************)
(* One lemma per action: the step of Memo it is, and that the additional   *)
(* invariants are kept.                                                    *)
(***************************************************************************)
\* The additional invariants survive a step of goroutine g that settles
\* nothing.
LEMMA AuxKept ==
  ASSUME RInv, NEW g \in Goroutines,
         \A i \in Ids : SettledTo(i) # "no" => SettledTo(i)' = SettledTo(i),
         records \subseteq records',
         \A h \in Goroutines : h # g => pc'[h] = pc[h] /\ arg'[h] = arg[h],
         background' \subseteq background \cup {g},
         \A i \in Ids : pc'[g] = "func" /\ arg'[g] = i =>
                         i \in BlobFuncs \cap records' /\ SettledTo(i)' = "value",
         g \in Callers => /\ pc'[g] = "stored" => arg'[g] \in records'
                          /\ g \in background' => pc'[g] \notin {"idle", "stored"}
  PROVE  FuncInv' /\ StoredInv'
<1>. USE DatabaseAssumption
<1>1. FuncInv'
  <2>. SUFFICES ASSUME NEW h \in Goroutines, NEW i \in Ids,
                       pc'[h] = "func", arg'[h] = i
       PROVE  i \in BlobFuncs \cap records' /\ SettledTo(i)' = "value"
    BY DEF FuncInv
  <2>1. CASE h = g
    BY <2>1
  <2>2. CASE h # g
    <3>1. i \in BlobFuncs \cap records /\ SettledTo(i) = "value"
      BY <2>2 DEF RInv, FuncInv
    <3>. QED
      BY <3>1
  <2>. QED
    BY <2>1, <2>2
<1>2. StoredInv'
  <2>. SUFFICES ASSUME NEW c \in Callers
       PROVE  /\ pc'[c] = "stored" => arg'[c] \in records'
              /\ c \in background' => pc'[c] \notin {"idle", "stored"}
    BY DEF StoredInv
  <2>1. c \in Goroutines
    BY DEF Goroutines
  <2>. QED
    BY <2>1 DEF RInv, StoredInv
<1>. QED
  BY <1>1, <1>2

LEMMA StoreRefines ==
  ASSUME RInv, NEW c \in Callers, NEW i \in Ids, Store(c, i)
  PROVE  M!Store(c, i) /\ FuncInv' /\ StoredInv'
<1>. USE DatabaseAssumption
<1>0. /\ \A g \in Goroutines : g # c => pc'[g] = pc[g] /\ arg'[g] = arg[g]
      /\ c \in Goroutines /\ c \notin Builds
      /\ pc'[c] = "stored" /\ arg'[c] = i
      /\ pc[c] = "idle"
  BY DEF Store, RInv, IInv, TypeOK, Goroutines
<1>1. \A j \in Ids : SettledTo(j)' = SettledTo(j)
  <2>1. \A k \in Builds : pc'[k] = "done" <=> pc[k] = "done"
    BY <1>0 DEF Goroutines
  <2>. QED
    BY <2>1, SameSettled DEF RInv, Store
<1>2. M!Store(c, i)
  <2>1. [j \in Ids |-> SettledTo(j)]' = [j \in Ids |-> SettledTo(j)]
    BY <1>1
  <2>2. {d \in Callers : pc[d] # "idle"}' = {d \in Callers : pc[d] # "idle"} \cup {c}
    BY <1>0 DEF Goroutines
  <2>3. [d \in Callers |-> arg[d]]' = [[d \in Callers |-> arg[d]] EXCEPT ![c] = i]
    BY <1>0 DEF Goroutines
  <2>. QED
    BY <1>0, <2>1, <2>2, <2>3 DEF M!Store, Store
<1>3. FuncInv' /\ StoredInv'
  <2>1. c \notin background'
    BY <1>0 DEF Store, RInv, StoredInv
  <2>2. i \in records' /\ records \subseteq records' /\ background' \subseteq background \cup {c}
    BY DEF Store
  <2>. QED
    BY <1>0, <1>1, <2>1, <2>2, AuxKept
<1>. QED
  BY <1>2, <1>3

LEMMA CallResolveRefines ==
  ASSUME RInv, NEW c \in Callers, NEW i \in Ids, CallResolve(c, i)
  PROVE  M!Call(c, i) /\ FuncInv' /\ StoredInv'
<1>. USE DatabaseAssumption
<1>0. /\ \A g \in Goroutines : g # c => pc'[g] = pc[g] /\ arg'[g] = arg[g]
      /\ c \in Goroutines /\ c \notin Builds
      /\ pc'[c] = "resolve" /\ arg'[c] = i
      /\ pc[c] = "idle"
  BY DEF CallResolve, RInv, IInv, TypeOK, Goroutines
<1>1. \A j \in Ids : SettledTo(j)' = SettledTo(j)
  <2>1. \A k \in Builds : pc'[k] = "done" <=> pc[k] = "done"
    BY <1>0 DEF Goroutines
  <2>. QED
    BY <2>1, SameSettled DEF RInv, CallResolve
<1>2. M!Call(c, i)
  <2>1. [j \in Ids |-> SettledTo(j)]' = [j \in Ids |-> SettledTo(j)]
    BY <1>1
  <2>2. {d \in Callers : pc[d] # "idle"}' = {d \in Callers : pc[d] # "idle"} \cup {c}
    BY <1>0 DEF Goroutines
  <2>3. [d \in Callers |-> arg[d]]' = [[d \in Callers |-> arg[d]] EXCEPT ![c] = i]
    BY <1>0 DEF Goroutines
  <2>. QED
    BY <1>0, <2>1, <2>2, <2>3 DEF M!Call, CallResolve
<1>3. FuncInv' /\ StoredInv'
  <2>1. records \subseteq records' /\ background' \subseteq background \cup {c}
    BY DEF CallResolve
  <2>. QED
    BY <1>0, <1>1, <2>1, AuxKept
<1>. QED
  BY <1>2, <1>3

LEMMA CancelRefines ==
  ASSUME RInv, NEW c \in Callers, Cancel(c)
  PROVE  M!Cancel(c) /\ FuncInv' /\ StoredInv'
<1>. USE DatabaseAssumption
<1>1. \A j \in Ids : SettledTo(j)' = SettledTo(j)
  BY SameSettled DEF RInv, Cancel
<1>2. M!Cancel(c)
  <2>1. [j \in Ids |-> SettledTo(j)]' = [j \in Ids |-> SettledTo(j)]
    BY <1>1
  <2>2. (stopped \cap Callers)' = (stopped \cap Callers) \cup {c}
    BY DEF Cancel
  <2>. QED
    BY <2>1, <2>2 DEF M!Cancel, Cancel
<1>3. FuncInv' /\ StoredInv'
  <2>1. UNCHANGED <<pc, arg, records, background>> /\ c \in Goroutines
    BY DEF Cancel, Goroutines
  <2>. QED
    BY <1>1, <2>1 DEF RInv, FuncInv, StoredInv
<1>. QED
  BY <1>2, <1>3

LEMMA BuildRefines ==
  ASSUME RInv, NEW c \in Callers, Build(c)
  PROVE  UNCHANGED M!vars /\ FuncInv' /\ StoredInv'
<1>. USE DatabaseAssumption
<1>0. /\ \A g \in Goroutines : g # c => pc'[g] = pc[g]
      /\ c \in Goroutines /\ c \notin Builds
      /\ pc'[c] = "resolve" /\ pc[c] = "stored"
  BY DEF Build, RInv, IInv, TypeOK, Goroutines
<1>1. \A j \in Ids : SettledTo(j)' = SettledTo(j)
  <2>1. \A k \in Builds : pc'[k] = "done" <=> pc[k] = "done"
    BY <1>0 DEF Goroutines
  <2>. QED
    BY <2>1, SameSettled DEF RInv, Build
<1>2. UNCHANGED <<records, background, ret, panicked, arg, stopped>>
  BY DEF Build
<1>3. UNCHANGED M!vars
  BY <1>0, <1>1, <1>2, Stutters DEF Goroutines
<1>4. FuncInv' /\ StoredInv'
  BY <1>0, <1>1, <1>2, AuxKept
<1>. QED
  BY <1>3, <1>4

LEMMA GetOrBuildRefines ==
  ASSUME RInv, NEW c \in Callers, GetOrBuild(c)
  PROVE  /\ M!Panic \/ M!Postpone(c) \/ UNCHANGED M!vars
         /\ FuncInv' /\ StoredInv'
<1>. USE DatabaseAssumption
<1>0. /\ c \in Goroutines /\ c \notin Builds /\ pc[c] = "stored"
      /\ arg[c] \in Ids /\ arg[c] \in records /\ c \notin background
  BY DEF GetOrBuild, RInv, IInv, ArgInv, StoredInv, Goroutines
<1>1. CASE IsResolvedPanics(arg[c])
  <2>1. UNCHANGED <<records, object, resolveState, target, waiting, err,
                    outcome, todo, pc, arg, on, stopped, background, ret>>
    BY <1>1 DEF GetOrBuild
  <2>2. \A j \in Ids : SettledTo(j)' = SettledTo(j)
    BY <2>1 DEF SettledTo, Settled
  <2>3. [j \in Ids |-> SettledTo(j)]' = [j \in Ids |-> SettledTo(j)]
    BY <2>2
  <2>4. M!Panic
    BY <1>1, <2>1, <2>3 DEF M!Panic, GetOrBuild
  <2>. QED
    BY <2>1, <2>2, <2>4 DEF RInv, FuncInv, StoredInv
<1>2. CASE ~IsResolvedPanics(arg[c])
  <2>0. /\ pc' = [pc EXCEPT ![c] = "resolve"]
        /\ UNCHANGED <<records, resolveState, err, arg, panicked>>
    BY <1>2 DEF GetOrBuild
  <2>1. /\ \A g \in Goroutines : g # c => pc'[g] = pc[g]
        /\ pc'[c] = "resolve"
    BY <1>0, <2>0 DEF RInv, IInv, TypeOK
  <2>2. \A j \in Ids : SettledTo(j)' = SettledTo(j)
    <3>1. \A k \in Builds : pc'[k] = "done" <=> pc[k] = "done"
      BY <1>0, <2>1 DEF Goroutines
    <3>. QED
      BY <2>0, <3>1, SameSettled DEF RInv
  <2>3. background' \subseteq background \cup {c}
    BY <1>2 DEF GetOrBuild
  <2>4. FuncInv' /\ StoredInv'
    BY <1>0, <2>0, <2>1, <2>2, <2>3, AuxKept
  <2>5. CASE IsResolved(arg[c])
    <3>1. UNCHANGED <<background, ret, stopped>>
      BY <1>2, <2>5 DEF GetOrBuild
    <3>2. UNCHANGED M!vars
      BY <1>0, <2>0, <2>1, <2>2, <3>1, Stutters DEF Goroutines
    <3>. QED
      BY <2>4, <3>2
  <2>6. CASE ~IsResolved(arg[c])
    <3>1. SettledTo(arg[c]) = "no"
      BY <1>0, <2>6 DEF IsResolved, SettledTo, Settled, Running
    <3>2. [j \in Ids |-> SettledTo(j)]' = [j \in Ids |-> SettledTo(j)]
      BY <2>2
    <3>3. {d \in Callers : pc[d] # "idle"}' = {d \in Callers : pc[d] # "idle"}
      BY <1>0, <2>1 DEF Goroutines
    <3>4. /\ background' = background \cup {c}
          /\ ret' = [ret EXCEPT ![c] = "pending"]
          /\ (stopped \cap Callers)' = (stopped \cap Callers) \ {c}
      BY <1>2, <2>6 DEF GetOrBuild
    <3>5. M!Postpone(c)
      BY <1>0, <2>0, <3>1, <3>2, <3>3, <3>4 DEF M!Postpone
    <3>. QED
      BY <2>4, <3>5
  <2>. QED
    BY <2>5, <2>6
<1>. QED
  BY <1>1, <1>2

(***************************************************************************)
(* The ends of a call of Resolve.                                          *)
(***************************************************************************)
LEMMA DeliverRefines ==
  ASSUME RInv, NEW g \in Goroutines, pc[g] # "idle", NEW o,
         NEW dead \in SUBSET Builds, Deliver(g, o, dead),
         g \in Callers => o \in M!Answer(g),
         \A i \in Ids : SettledTo(i)' = SettledTo(i),
         UNCHANGED <<records, panicked>>
  PROVE  /\ (g \in Callers /\ M!Return(g)) \/ UNCHANGED M!vars
         /\ FuncInv' /\ StoredInv'
<1>. USE DatabaseAssumption
<1>1. (g \in Callers /\ M!Return(g)) \/ UNCHANGED M!vars
  <2>1. CASE g \in Callers
    BY <2>1, Returns DEF RInv
  <2>2. CASE g \in Builds
    BY <2>2, DependencyReturns DEF RInv
  <2>. QED
    BY <2>1, <2>2 DEF Goroutines
<1>2. FuncInv' /\ StoredInv'
  <2>1. pc'[g] \in {"idle", "call", "exit"}
    BY DEF Deliver, RInv, IInv, TypeOK
  <2>2. \A h \in Goroutines : h # g => pc'[h] = pc[h] /\ arg'[h] = arg[h]
    BY DEF Deliver, RInv, IInv, TypeOK
  <2>3. background' \subseteq background \cup {g} /\ (g \in Callers => g \notin background')
    BY DEF Deliver
  <2>. QED
    BY <2>1, <2>2, <2>3, AuxKept
<1>. QED
  BY <1>1, <1>2

LEMMA LeaveRefines ==
  ASSUME RInv, NEW g \in Goroutines, NEW k \in Builds, pc[g] \in {"resolve", "wait"},
         NEW dead \in SUBSET Builds, Leave(g, k, dead),
         arg[g] = target[k], target[k] \in records,
         pc[k] = "done" \/ g \in stopped,
         \A i \in Ids : SettledTo(i)' = SettledTo(i),
         UNCHANGED <<records, panicked>>
  PROVE  /\ (g \in Callers /\ M!Return(g)) \/ UNCHANGED M!vars
         /\ FuncInv' /\ StoredInv'
<1>. USE DatabaseAssumption
<1>. DEFINE i == target[k]
            o == Result(g, k, arg[g])
<1>1. i \in Ids
  BY DEF RInv, IInv, TypeOK
<1>2. \/ o = "cancelled" /\ g \in stopped
      \/ o \in {"value", "failed"} /\ SettledTo(i) = o /\ g \notin stopped
  <2>1. CASE g \in stopped
    BY <2>1 DEF Result
  <2>2. CASE g \notin stopped
    <3>1. SettledTo(i) = IF err[k] = "nil" THEN "value" ELSE "failed"
      BY <2>2, DoneIsSettled DEF RInv
    <3>2. err[k] \in {"nil", "failed"} /\ (err[k] = "nil" => Final(i))
      BY <2>2 DEF RInv, IInv, TypeOK, ErrInv, FinalInv, Errors
    <3>. QED
      BY <2>2, <3>1, <3>2 DEF Result
  <2>. QED
    BY <2>1, <2>2
<1>3. CASE o = "value" /\ arg[g] \in BlobFuncs
  <2>1. /\ pc' = [pc EXCEPT ![g] = "func"]
        /\ stopped' = stopped \cup dead
        /\ UNCHANGED <<arg, ret, background>>
    BY <1>3 DEF Leave
  <2>2. pc'[g] = "func" /\ \A h \in Goroutines : h # g => pc'[h] = pc[h]
    BY <2>1 DEF RInv, IInv, TypeOK
  <2>3. UNCHANGED M!vars
    BY <2>1, <2>2, Stutters DEF Goroutines
  <2>4. \A j \in Ids : pc'[g] = "func" /\ arg'[g] = j =>
          j \in BlobFuncs \cap records' /\ SettledTo(j)' = "value"
    <3>. SUFFICES ASSUME NEW j \in Ids, arg'[g] = j
         PROVE  j \in BlobFuncs \cap records' /\ SettledTo(j)' = "value"
      OBVIOUS
    <3>1. j = i
      BY <2>1
    <3>2. SettledTo(j)' = SettledTo(j) /\ SettledTo(j) = "value"
      BY <1>2, <1>3, <3>1
    <3>. QED
      BY <1>3, <3>1, <3>2
  <2>5. FuncInv' /\ StoredInv'
    BY <2>1, <2>2, <2>4, AuxKept DEF RInv, StoredInv
  <2>. QED
    BY <2>3, <2>5
<1>4. CASE ~(o = "value" /\ arg[g] \in BlobFuncs)
  <2>1. Deliver(g, o, dead)
    BY <1>4 DEF Leave
  <2>2. g \in Callers => o \in M!Answer(g)
    BY <1>1, <1>2 DEF M!Answer
  <2>. QED
    BY <2>1, <2>2, DeliverRefines
<1>. QED
  BY <1>3, <1>4

LEMMA ResolveRefines ==
  ASSUME RInv, NEW g \in Goroutines, Resolve(g)
  PROVE  /\ (g \in Callers /\ M!Return(g)) \/ UNCHANGED M!vars
         /\ FuncInv' /\ StoredInv'
<1>. USE DatabaseAssumption
<1>0. pc[g] = "resolve" /\ arg[g] \in Ids /\ panicked' = panicked
  BY DEF Resolve, RInv, IInv, ArgInv
<1>1. CASE NotFound(g)
  <2>1. UNCHANGED <<records, resolveState, err>> /\ Deliver(g, "notfound", {})
    BY <1>1 DEF NotFound
  <2>2. \A k \in Builds : pc'[k] = "done" <=> pc[k] = "done"
    BY <1>0, <2>1 DEF Deliver, RInv, IInv, TypeOK, Goroutines
  <2>3. \A i \in Ids : SettledTo(i)' = SettledTo(i)
    BY <2>1, <2>2, SameSettled DEF RInv
  <2>4. g \in Callers => "notfound" \in M!Answer(g)
    BY <1>1 DEF M!Answer, NotFound
  <2>. QED
    BY <1>0, <2>1, <2>3, <2>4, DeliverRefines
<1>2. ASSUME NEW k \in Builds, StartBuild(g, k) PROVE UNCHANGED M!vars /\ FuncInv' /\ StoredInv'
  <2>1. /\ resolveState[arg[g]] = Nil /\ pc[k] = "free"
        /\ resolveState' = [resolveState EXCEPT ![arg[g]] = k]
        /\ pc' = [pc EXCEPT ![g] = "wait", ![k] = "loop"]
        /\ UNCHANGED <<records, err, arg, stopped, background, ret>>
    BY <1>2 DEF StartBuild
  <2>2. /\ k # g /\ k \in Goroutines /\ pc'[g] = "wait" /\ pc'[k] = "loop"
        /\ \A h \in Goroutines : h # g /\ h # k => pc'[h] = pc[h]
    BY <1>0, <2>1 DEF RInv, IInv, TypeOK, Goroutines
  <2>3. \A h \in Goroutines :
          /\ (pc'[h] = "done" <=> pc[h] = "done") /\ (pc'[h] = "func" => pc[h] = "func")
    BY <1>0, <2>1, <2>2
  <2>4. \A i \in Ids : SettledTo(i)' = SettledTo(i)
    <3>. SUFFICES ASSUME NEW i \in Ids PROVE SettledTo(i)' = SettledTo(i)
      OBVIOUS
    <3>1. CASE i = arg[g]
      <4>1. resolveState'[i] = k /\ resolveState[i] = Nil
        BY <2>1, <3>1 DEF RInv, IInv, TypeOK
      <4>. QED
        BY <2>2, <4>1 DEF SettledTo, Settled
    <3>2. CASE i # arg[g]
      <4>1. resolveState'[i] = resolveState[i]
        BY <2>1, <3>2 DEF RInv, IInv, TypeOK
      <4>. QED
        BY <2>1, <2>3, <4>1, SameSettled DEF RInv, Goroutines
    <3>. QED
      BY <3>1, <3>2
  <2>5. \A c \in Callers : c \in Goroutines /\ c # k
    BY DEF Goroutines
  <2>6. UNCHANGED M!vars
    BY <1>0, <2>1, <2>2, <2>4, <2>5, Stutters
  <2>7. FuncInv'
    BY <2>1, <2>3, <2>4 DEF RInv, FuncInv
  <2>8. StoredInv'
    BY <2>1, <2>2, <2>5 DEF RInv, StoredInv
  <2>. QED
    BY <2>6, <2>7, <2>8
<1>3. CASE JoinBuild(g)
  <2>1. /\ pc' = [pc EXCEPT ![g] = "wait"]
        /\ UNCHANGED <<records, resolveState, err, arg, stopped, background, ret>>
    BY <1>3 DEF JoinBuild
  <2>2. pc'[g] = "wait" /\ \A h \in Goroutines : h # g => pc'[h] = pc[h]
    BY <2>1 DEF RInv, IInv, TypeOK
  <2>3. \A k \in Builds : pc'[k] = "done" <=> pc[k] = "done"
    BY <1>0, <2>2 DEF Goroutines
  <2>4. \A i \in Ids : SettledTo(i)' = SettledTo(i)
    BY <2>1, <2>3, SameSettled DEF RInv
  <2>5. UNCHANGED M!vars
    BY <1>0, <2>1, <2>2, <2>4, Stutters DEF Goroutines
  <2>6. FuncInv' /\ StoredInv'
    BY <2>1, <2>2, <2>4, AuxKept
  <2>. QED
    BY <2>5, <2>6
<1>4. CASE AlreadyBuilt(g)
  <2>. DEFINE k == resolveState[arg[g]]
  <2>1. k \in Builds /\ pc[k] = "done" /\ target[k] = arg[g] /\ target[k] \in records
    BY <1>0, <1>4 DEF AlreadyBuilt, HasFinished, Running, RInv, IInv, TypeOK, AttachedInv
  <2>2. UNCHANGED <<records, resolveState, err>> /\ Leave(g, k, {})
    BY <1>4 DEF AlreadyBuilt
  <2>3. \A b \in Builds : pc'[b] = "done" <=> pc[b] = "done"
    BY <1>0, <2>2 DEF Leave, Deliver, RInv, IInv, TypeOK, Goroutines
  <2>4. \A i \in Ids : SettledTo(i)' = SettledTo(i)
    BY <2>2, <2>3, SameSettled DEF RInv
  <2>. QED
    BY <1>0, <2>1, <2>2, <2>4, LeaveRefines
<1>. QED
  BY <1>1, <1>2, <1>3, <1>4 DEF Resolve

LEMMA WakeRefines ==
  ASSUME RInv, NEW g \in Goroutines, Wake(g)
  PROVE  /\ (g \in Callers /\ M!Return(g)) \/ UNCHANGED M!vars
         /\ FuncInv' /\ StoredInv'
<1>. USE DatabaseAssumption
<1>. DEFINE k    == on[g]
            dead == IF LastWaiter(k) THEN {k} ELSE {}
<1>1. /\ pc[g] = "wait" /\ k \in Builds /\ pc[k] # "free" /\ k \notin stopped
      /\ arg[g] = target[k] /\ dead \in SUBSET Builds
  BY DEF Wake, RInv, IInv, WaiterInv
<1>2. /\ target[k] \in records /\ target[k] \in Ids
      /\ resolveState[target[k]] = k
  BY <1>1 DEF RInv, IInv, TargetInv, LiveInv, TypeOK
<1>3. pc[k] = "done" \/ g \in stopped
  BY <1>1 DEF Wake, LeavesSelect, Running
<1>4. Leave(g, k, dead) /\ UNCHANGED <<records, err, panicked>>
  BY DEF Wake, Cancels
<1>5. \A b \in Builds : pc'[b] = "done" <=> pc[b] = "done"
  BY <1>1, <1>4 DEF Leave, Deliver, RInv, IInv, TypeOK, Goroutines
<1>6. \A i \in Ids : SettledTo(i)' = SettledTo(i)
  <2>. SUFFICES ASSUME NEW i \in Ids PROVE SettledTo(i)' = SettledTo(i)
    OBVIOUS
  <2>1. CASE LastWaiter(k) /\ i = target[k]
    <3>1. resolveState'[i] = Nil
      BY <1>2, <2>1 DEF Wake, RInv, IInv, TypeOK
    <3>2. ~Settled(i) /\ ~Settled(i)'
      BY <1>2, <2>1, <3>1 DEF Settled, LastWaiter, Running
    <3>. QED
      BY <1>4, <1>5, <3>2, SameSettled DEF RInv
  <2>2. CASE ~(LastWaiter(k) /\ i = target[k])
    <3>1. resolveState'[i] = resolveState[i]
      BY <1>2, <2>2 DEF Wake, RInv, IInv, TypeOK
    <3>. QED
      BY <1>4, <1>5, <3>1, SameSettled DEF RInv
  <2>. QED
    BY <2>1, <2>2
<1>. QED
  BY <1>1, <1>2, <1>3, <1>4, <1>6, LeaveRefines

LEMMA CallBlobFuncRefines ==
  ASSUME RInv, NEW g \in Goroutines, CallBlobFunc(g)
  PROVE  /\ (g \in Callers /\ M!Return(g)) \/ UNCHANGED M!vars
         /\ FuncInv' /\ StoredInv'
<1>. USE DatabaseAssumption
<1>1. PICK o \in {"value"} \cup (IF arg[g] \in MayFail THEN {"failed"} ELSE {}) :
        Deliver(g, o, {})
  BY DEF CallBlobFunc
<1>2. /\ pc[g] = "func" /\ arg[g] \in Ids
      /\ UNCHANGED <<records, resolveState, err, panicked>>
  BY DEF CallBlobFunc, RInv, IInv, ArgInv
<1>3. arg[g] \in BlobFuncs /\ arg[g] \in records /\ SettledTo(arg[g]) = "value"
  BY <1>2 DEF RInv, FuncInv
<1>4. \A k \in Builds : pc'[k] = "done" <=> pc[k] = "done"
  BY <1>1, <1>2 DEF Deliver, RInv, IInv, TypeOK, Goroutines
<1>5. \A i \in Ids : SettledTo(i)' = SettledTo(i)
  BY <1>2, <1>4, SameSettled DEF RInv
<1>6. g \in Callers => o \in M!Answer(g)
  BY <1>1, <1>2, <1>3 DEF M!Answer
<1>. QED
  BY <1>1, <1>2, <1>5, <1>6, DeliverRefines

LEMMA StoreReturnsRefines ==
  ASSUME RInv, NEW c \in Callers, StoreReturns(c)
  PROVE  /\ M!Return(c) \/ UNCHANGED M!vars
         /\ FuncInv' /\ StoredInv'
<1>. USE DatabaseAssumption
<1>1. /\ c \in Goroutines /\ pc[c] = "stored" /\ arg[c] \in records
      /\ Deliver(c, "ok", {}) /\ UNCHANGED <<records, resolveState, err, panicked>>
  BY DEF StoreReturns, RInv, StoredInv, Goroutines
<1>2. \A k \in Builds : pc'[k] = "done" <=> pc[k] = "done"
  BY <1>1 DEF Deliver, RInv, IInv, TypeOK, Goroutines
<1>3. \A i \in Ids : SettledTo(i)' = SettledTo(i)
  BY <1>1, <1>2, SameSettled DEF RInv
<1>4. "ok" \in M!Answer(c)
  BY <1>1 DEF M!Answer
<1>. QED
  BY <1>1, <1>3, <1>4, DeliverRefines

(***************************************************************************)
(* The building goroutine.                                                 *)
(***************************************************************************)
\* Callers see nothing of a build before it publishes its outcome.
LEMMA BuildStutters ==
  ASSUME RInv, NEW k \in Builds, pc[k] # "done",
         pc'[k] \notin {"done", "func"},
         \A h \in Goroutines : h # k => pc'[h] = pc[h] /\ arg'[h] = arg[h],
         \A c \in Callers : c \in stopped' <=> c \in stopped,
         UNCHANGED <<records, resolveState, err, background, ret, panicked>>
  PROVE  UNCHANGED M!vars /\ FuncInv' /\ StoredInv'
<1>. USE DatabaseAssumption
<1>0. k \in Goroutines /\ k \notin Callers /\ \A c \in Callers : c \in Goroutines /\ c # k
  BY DEF Goroutines
<1>1. \A i \in Ids : SettledTo(i)' = SettledTo(i)
  <2>1. \A b \in Builds : pc'[b] = "done" <=> pc[b] = "done"
    BY DEF Goroutines
  <2>. QED
    BY <2>1, SameSettled DEF RInv
<1>2. UNCHANGED M!vars
  BY <1>0, <1>1, Stutters
<1>3. FuncInv' /\ StoredInv'
  BY <1>0, <1>1, AuxKept
<1>. QED
  BY <1>2, <1>3

\* Publish settles the record of the build, and no other.
LEMMA PublishRefines ==
  ASSUME RInv, NEW k \in Builds, Finish(k), k \notin stopped
  PROVE  M!Settle(target[k]) /\ FuncInv' /\ StoredInv'
<1>. USE DatabaseAssumption
<1>1. /\ pc[k] = "exit" /\ pc' = [pc EXCEPT ![k] = "done"]
      /\ err' = [err EXCEPT ![k] = outcome[k]]
      /\ UNCHANGED <<records, resolveState, target, arg, stopped, background,
                     ret, panicked>>
  BY DEF Finish, Conclude, Publish
<1>2. /\ k \in Goroutines /\ pc'[k] = "done"
      /\ \A h \in Goroutines : h # k => pc'[h] = pc[h]
      /\ \A b \in Builds : b # k => err'[b] = err[b]
      /\ \A c \in Callers : c \in Goroutines /\ c # k
  BY <1>1 DEF RInv, IInv, TypeOK, Goroutines
<1>3. PICK i \in Ids : i = target[k] /\ i \in records /\ resolveState[i] = k
  BY <1>1 DEF RInv, IInv, TypeOK, TargetInv, LiveInv
<1>4. SettledTo(i) = "no" /\ k # Nil
  BY <1>1, <1>3 DEF SettledTo, Settled
<1>5. \A j \in Ids : j # i => SettledTo(j)' = SettledTo(j)
  <2>. SUFFICES ASSUME NEW j \in Ids, j # i PROVE SettledTo(j)' = SettledTo(j)
    OBVIOUS
  <2>1. resolveState[j] # k
    BY <1>3, <1>4 DEF RInv, IInv, AttachedInv
  <2>2. resolveState[j] = Nil \/ resolveState[j] \in Builds
    BY DEF RInv, IInv, TypeOK
  <2>3. CASE resolveState[j] = Nil
    BY <1>1, <2>3 DEF SettledTo, Settled
  <2>4. CASE resolveState[j] \in Builds
    BY <1>1, <1>2, <2>1, <2>4 DEF SettledTo, Settled, Goroutines
  <2>. QED
    BY <2>2, <2>3, <2>4
<1>6. PICK v \in {"value", "failed"} : SettledTo(i)' = v
  BY <1>1, <1>2, <1>3, <1>4 DEF SettledTo, Settled
<1>7. [j \in Ids |-> SettledTo(j)]' = [[j \in Ids |-> SettledTo(j)] EXCEPT ![i] = v]
  BY <1>5, <1>6
<1>8. {c \in Callers : pc[c] # "idle"}' = {c \in Callers : pc[c] # "idle"}
  BY <1>2
<1>9. M!Settle(i)
  BY <1>1, <1>3, <1>4, <1>7, <1>8 DEF M!Settle
<1>10. FuncInv' /\ StoredInv'
  BY <1>1, <1>2, <1>4, <1>5, AuxKept
<1>. QED
  BY <1>3, <1>9, <1>10

LEMMA BuildStepRefines ==
  ASSUME RInv, NEW k \in Builds, BuildStep(k)
  PROVE  /\ (target[k] \in Ids /\ M!Settle(target[k])) \/ UNCHANGED M!vars
         /\ FuncInv' /\ StoredInv'
<1>. USE DatabaseAssumption
<1>0. k \in Goroutines /\ k \notin Callers
  BY DEF Goroutines
<1>1. CASE Inspect(k)
  BY <1>0, <1>1, BuildStutters DEF Inspect, RInv, IInv, TypeOK
<1>2. ASSUME NEW i \in Ids, ResolveDependency(k, i)
      PROVE  UNCHANGED M!vars /\ FuncInv' /\ StoredInv'
  BY <1>0, <1>2, BuildStutters DEF ResolveDependency, RInv, IInv, TypeOK
<1>3. CASE SetObject(k)
  BY <1>0, <1>3, BuildStutters DEF SetObject, RInv, IInv, TypeOK
<1>4. CASE ResolvableFails(k)
  BY <1>0, <1>4, BuildStutters DEF ResolvableFails, RInv, IInv, TypeOK
<1>5. CASE Finish(k) /\ k \notin stopped
  <2>1. target[k] \in Ids
    BY <1>5 DEF Finish, RInv, IInv, TypeOK, TargetInv
  <2>. QED
    BY <1>5, <2>1, PublishRefines
<1>6. CASE Finish(k) /\ k \in stopped
  <2>1. /\ pc[k] = "exit" /\ pc' = [pc EXCEPT ![k] = "free"]
        /\ stopped' = stopped \ {k}
        /\ UNCHANGED <<records, resolveState, err, arg, background, ret, panicked>>
    BY <1>6 DEF Finish, Conclude, Collect
  <2>. QED
    BY <1>0, <2>1, BuildStutters DEF RInv, IInv, TypeOK
<1>. QED
  BY <1>1, <1>2, <1>3, <1>4, <1>5, <1>6 DEF BuildStep

-----------------------------------------------------------------------------
LEMMA InitRefines == Init => M!Init /\ RInv
<1>. SUFFICES ASSUME Init PROVE M!Init /\ RInv
  OBVIOUS
<1>. USE DatabaseAssumption
<1>1. IInv
  BY InitIInv
<1>2. \A g \in Goroutines : pc[g] \in {"idle", "free"}
  BY DEF Init
<1>3. \A c \in Callers : c \in Goroutines /\ pc[c] = "idle" /\ arg[c] = Nil
  BY DEF Init, Goroutines
<1>4. FuncInv /\ StoredInv
  BY <1>2, <1>3 DEF FuncInv, StoredInv, Init
<1>5. [i \in Ids |-> SettledTo(i)] = [i \in Ids |-> "no"]
  BY DEF Init, SettledTo, Settled
<1>6. {c \in Callers : pc[c] # "idle"} = {}
  BY <1>3
<1>7. [c \in Callers |-> arg[c]] = [c \in Callers |-> Nil]
  BY <1>3
<1>8. M!Init
  BY <1>5, <1>6, <1>7 DEF M!Init, Init
<1>. QED
  BY <1>1, <1>4, <1>8 DEF RInv

LEMMA NextRefines == RInv /\ [Next]_vars => [M!Next]_(M!vars) /\ RInv'
<1>. SUFFICES ASSUME RInv, [Next]_vars
     PROVE  [M!Next]_(M!vars) /\ FuncInv' /\ StoredInv'
  BY NextIInv DEF RInv
<1>1. ASSUME NEW g \in Goroutines, Step(g)
      PROVE  [M!Next]_(M!vars) /\ FuncInv' /\ StoredInv'
  <2>1. /\ (g \in Callers /\ M!Return(g)) \/ UNCHANGED M!vars
        /\ FuncInv' /\ StoredInv'
    BY <1>1, ResolveRefines, WakeRefines, CallBlobFuncRefines DEF Step
  <2>. QED
    BY <2>1 DEF M!Next
<1>2. ASSUME NEW k \in Builds, BuildStep(k)
      PROVE  [M!Next]_(M!vars) /\ FuncInv' /\ StoredInv'
  BY <1>2, BuildStepRefines DEF M!Next
<1>3. ASSUME NEW c \in Callers, CallerStep(c)
      PROVE  [M!Next]_(M!vars) /\ FuncInv' /\ StoredInv'
  <2>1. /\ M!Return(c) \/ M!Panic \/ M!Postpone(c) \/ UNCHANGED M!vars
        /\ FuncInv' /\ StoredInv'
    BY <1>3, StoreReturnsRefines, BuildRefines, GetOrBuildRefines DEF CallerStep
  <2>. QED
    BY <2>1 DEF M!Next
<1>4. ASSUME NEW c \in Callers, Client(c)
      PROVE  [M!Next]_(M!vars) /\ FuncInv' /\ StoredInv'
  <2>1. ASSUME NEW i \in Ids, Store(c, i) \/ CallResolve(c, i)
        PROVE  [M!Next]_(M!vars) /\ FuncInv' /\ StoredInv'
    BY <2>1, StoreRefines, CallResolveRefines DEF M!Next
  <2>2. CASE Cancel(c)
    BY <2>2, CancelRefines DEF M!Next
  <2>. QED
    BY <1>4, <2>1, <2>2 DEF Client
<1>5. CASE UNCHANGED vars
  <2>1. UNCHANGED M!vars
    BY <1>5 DEF vars, M!vars, SettledTo, Settled
  <2>2. FuncInv' /\ StoredInv'
    BY <1>5 DEF vars, RInv, FuncInv, StoredInv, SettledTo, Settled
  <2>. QED
    BY <2>1, <2>2
<1>. QED
  BY <1>1, <1>2, <1>3, <1>4, <1>5 DEF Next, Crashed

\* Whatever the identifiers, the callers, the builds and their dependencies,
\* the callers of memory.go's Store, Resolve, Build and GetOrBuild see the memo
\* table of Memo: a record's outcome is settled once, and a call returns it or
\* the caller's own cancellation.
THEOREM RefinesMemo == Spec => ImplementsMemo
<1>. QED
  BY InitRefines, NextRefines, PTL DEF Spec, ImplementsMemo, M!Spec
=============================================================================
