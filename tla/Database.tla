------------------------------ MODULE Database ------------------------------
(***************************************************************************)
(* The in-memory database of gapis (gapis/database): a content-addressed   *)
(* store in which an object may be a Resolvable, built on first use by a   *)
(* goroutine of its own and remembered from then on.                       *)
(*                                                                         *)
(* One mutex guards the records and the resolve states, and every action   *)
(* of a caller is one critical section of it.  Two things happen outside   *)
(* the mutex and are what the module is about: a caller waits for a build  *)
(* with the mutex released, and the building goroutine reads and writes    *)
(* record.object without holding it, also after it has been cancelled.     *)
(*                                                                         *)
(* A goroutine is a caller (a client of the database with a context of its *)
(* own) or a build (the goroutine of one resolveState, whose context is    *)
(* the one resolveState.cancel cancels).  Builds call Resolve too, for the *)
(* objects their Resolvable depends on.                                    *)
(***************************************************************************)
EXTENDS Naturals, FiniteSets

CONSTANTS
  Ids,           \* the identifiers objects are stored under
  Callers,       \* client goroutines
  Builds,        \* resolveStates; a collected one is used again
  Nil,
  Resolvables,   \* identifiers whose stored object implements Resolvable
  BlobFuncs,     \* identifiers stored as a func() ([]byte, error)
  Deps,          \* Deps[i]: what the Resolvable of i resolves while it builds
  MayFail,       \* identifiers whose Resolvable, or function, can fail
  MaxAbandoned   \* bound: callers stop cancelling while this many cancelled
                 \* builds have not ended yet

Goroutines == Callers \cup Builds

ASSUME DatabaseAssumption ==
  /\ Callers \cap Builds = {}
  /\ IsFiniteSet(Callers) /\ IsFiniteSet(Builds)
  /\ Nil \notin Ids \cup Builds
  /\ Resolvables \subseteq Ids
  /\ BlobFuncs \subseteq Ids \ Resolvables
  /\ Deps \in [Ids -> SUBSET Ids]
  /\ MayFail \subseteq Ids
  /\ MaxAbandoned \in Nat

VARIABLES
  records,       \* identifiers present in memory.records
  object,        \* record.object: Nil for the stored value, else the build
                 \* that made the object the stored value was replaced by
  resolveState,  \* record.resolveState
  target,        \* the record a build resolves
  waiting,       \* resolveState.waiting
  err,           \* resolveState.err
  outcome,       \* what record.resolve returned, not yet published
  todo,          \* dependencies a build has still to resolve
  pc,            \* where each goroutine is
  arg,           \* the identifier of the call a goroutine is in
  on,            \* the resolveState a goroutine waits for
  stopped,       \* goroutines whose context is cancelled
  background,    \* callers that run the background half of GetOrBuild
  ret,           \* what the caller's last call returned
  panicked       \* the process died of a nil dereference

vars == <<records, object, resolveState, target, waiting, err, outcome, todo,
          pc, arg, on, stopped, background, ret, panicked>>

CallerPCs == {"idle", "stored", "resolve", "wait", "func"}
BuildPCs  == {"free", "loop", "call", "resolve", "wait", "func", "exit", "done"}
Errors    == {"nil", "cancelled", "failed"}
Answers   == {"none", "ok", "pending", "value", "raw", "cancelled", "failed",
              "notfound"}

(***************************************************************************)
(* resolveState.finished is non-nil exactly while the build is Running.    *)
(***************************************************************************)
Running(k) == pc[k] \notin {"free", "done"}
Waiters(k) == {g \in Goroutines : pc[g] = "wait" /\ on[g] = k}
Final(i)   == i \notin Resolvables \/ object[i] # Nil

Init ==
  /\ records = {}
  /\ object = [i \in Ids |-> Nil]
  /\ resolveState = [i \in Ids |-> Nil]
  /\ target = [k \in Builds |-> Nil]
  /\ waiting = [k \in Builds |-> 0]
  /\ err = [k \in Builds |-> "nil"]
  /\ outcome = [k \in Builds |-> "nil"]
  /\ todo = [k \in Builds |-> {}]
  /\ pc = [g \in Goroutines |-> IF g \in Callers THEN "idle" ELSE "free"]
  /\ arg = [g \in Goroutines |-> Nil]
  /\ on = [g \in Goroutines |-> Nil]
  /\ stopped = {}
  /\ background = {}
  /\ ret = [c \in Callers |-> "none"]
  /\ panicked = FALSE

-----------------------------------------------------------------------------
(***************************************************************************)
(* How a call of Resolve ends.  A caller's call returns o and gives up the *)
(* context of the call; the background half of GetOrBuild drops the        *)
(* result.  A build goes on with its Resolvable when the dependency has a  *)
(* value and otherwise fails with the same error.  dead is the set of      *)
(* builds whose context this step cancels.                                 *)
(***************************************************************************)
Deliver(g, o, dead) ==
  /\ arg' = [arg EXCEPT ![g] = Nil]
  /\ IF g \in Callers
       THEN /\ pc' = [pc EXCEPT ![g] = "idle"]
            /\ ret' = [ret EXCEPT ![g] = IF g \in background THEN @ ELSE o]
            /\ stopped' = (stopped \cup dead) \ {g}
            /\ background' = background \ {g}
            /\ UNCHANGED <<todo, outcome>>
       ELSE /\ stopped' = stopped \cup dead
            /\ IF o \in {"value", "raw"}
                 THEN /\ pc' = [pc EXCEPT ![g] = "call"]
                      /\ todo' = [todo EXCEPT ![g] = @ \ {arg[g]}]
                      /\ UNCHANGED outcome
                 ELSE /\ pc' = [pc EXCEPT ![g] = "exit"]
                      /\ outcome' = [outcome EXCEPT ![g] =
                           IF o = "cancelled" THEN "cancelled" ELSE "failed"]
                      /\ UNCHANGED todo
            /\ UNCHANGED <<ret, background>>

(***************************************************************************)
(* The result of resolveLocked once it has stopped waiting: the caller's   *)
(* own cancellation first, then the error of the build, then the object.   *)
(***************************************************************************)
Result(g, k, i) ==
  IF g \in stopped THEN "cancelled"
  ELSE IF err[k] # "nil" THEN err[k]
  ELSE IF Final(i) THEN "value" ELSE "raw"

(***************************************************************************)
(* The stored function of a blobFunc record is called by every Resolve,    *)
(* with the mutex released.                                                *)
(***************************************************************************)
Leave(g, k, dead) ==
  LET o == Result(g, k, arg[g])
  IN IF o = "value" /\ arg[g] \in BlobFuncs
       THEN /\ pc' = [pc EXCEPT ![g] = "func"]
            /\ stopped' = stopped \cup dead
            /\ UNCHANGED <<todo, outcome, arg, ret, background>>
       ELSE Deliver(g, o, dead)

(***************************************************************************)
(* resolveLocked, up to the point where it waits.                          *)
(***************************************************************************)
NotFound(g) ==
  /\ arg[g] \notin records
  /\ Deliver(g, "notfound", {})
  /\ UNCHANGED <<records, object, resolveState, target, waiting, err, on>>

\* Mutant: only the goroutines that join a build are counted.
FirstCallerUncounted == 0

\* The waiting counter after the caller that started the build entered select.
FirstCaller == 1

StartBuild(g, k) ==
  LET i == arg[g]
  IN /\ i \in records
     /\ resolveState[i] = Nil
     /\ pc[k] = "free"
     /\ resolveState' = [resolveState EXCEPT ![i] = k]
     /\ target' = [target EXCEPT ![k] = i]
     /\ waiting' = [waiting EXCEPT ![k] = FirstCaller]
     /\ on' = [on EXCEPT ![g] = k]
     /\ pc' = [pc EXCEPT ![g] = "wait", ![k] = "loop"]
     /\ UNCHANGED <<records, object, err, outcome, todo, arg, stopped,
                    background, ret>>

\* Mutant: joining does not count.
JoinUncounted(g) ==
  LET k == resolveState[arg[g]]
  IN /\ arg[g] \in records
     /\ k # Nil
     /\ Running(k)
     /\ on' = [on EXCEPT ![g] = k]
     /\ pc' = [pc EXCEPT ![g] = "wait"]
     /\ UNCHANGED <<records, object, resolveState, target, waiting, err,
                    outcome, todo, arg, stopped, background, ret>>

JoinBuild(g) ==
  LET k == resolveState[arg[g]]
  IN /\ arg[g] \in records
     /\ k # Nil
     /\ Running(k)
     /\ waiting' = [waiting EXCEPT ![k] = @ + 1]
     /\ on' = [on EXCEPT ![g] = k]
     /\ pc' = [pc EXCEPT ![g] = "wait"]
     /\ UNCHANGED <<records, object, resolveState, target, err, outcome, todo,
                    arg, stopped, background, ret>>

\* Mutant: a record with a resolveState is taken for a resolved one.
HasState(k) == k # Nil

HasFinished(k) == k # Nil /\ ~Running(k)

AlreadyBuilt(g) ==
  LET k == resolveState[arg[g]]
  IN /\ arg[g] \in records
     /\ HasFinished(k)
     /\ Leave(g, k, {})
     /\ UNCHANGED <<records, object, resolveState, target, waiting, err, on>>

Resolve(g) ==
  /\ pc[g] = "resolve"
  /\ \/ NotFound(g)
     \/ \E k \in Builds : StartBuild(g, k)
     \/ JoinBuild(g)
     \/ AlreadyBuilt(g)
  /\ UNCHANGED panicked

(***************************************************************************)
(* The select of resolveLocked and all that follows it: the build has      *)
(* finished or the caller's context was cancelled.  Both are stable, so    *)
(* leaving the select and taking the mutex again is one step.  The last    *)
(* waiter of an unfinished build cancels it and detaches it.               *)
(***************************************************************************)
\* Mutant: the counter is compared before it is decremented.
ComparedTooEarly(k) == waiting[k] = 0 /\ Running(k)

\* Mutant: a finished build is given up as well.
FinishedToo(k) == waiting[k] = 1

LastWaiter(k) == waiting[k] = 1 /\ Running(k)

\* Mutant: the build is detached and runs on with its context.
CancelsNone(k) == {}

\* rs.cancel(), called by the last waiter.
Cancels(k) == IF LastWaiter(k) THEN {k} ELSE {}

\* Mutant: nobody closes finished.
OnlyCancelled(g) == g \in stopped

LeavesSelect(g) == ~Running(on[g]) \/ g \in stopped

Wake(g) ==
  LET k == on[g]
  IN /\ pc[g] = "wait"
     /\ LeavesSelect(g)
     /\ waiting' = [waiting EXCEPT ![k] = @ - 1]
     /\ resolveState' = IF LastWaiter(k)
                          THEN [resolveState EXCEPT ![target[k]] = Nil]
                          ELSE resolveState
     /\ Leave(g, k, Cancels(k))
     /\ on' = [on EXCEPT ![g] = Nil]
     /\ UNCHANGED <<records, object, target, err, panicked>>

CallBlobFunc(g) ==
  /\ pc[g] = "func"
  /\ \E o \in {"value"} \cup (IF arg[g] \in MayFail THEN {"failed"} ELSE {}) :
       Deliver(g, o, {})
  /\ UNCHANGED <<records, object, resolveState, target, waiting, err, on,
                 panicked>>

-----------------------------------------------------------------------------
(***************************************************************************)
(* The building goroutine.                                                 *)
(***************************************************************************)
\* The head of record.resolve's loop: stop when the object is final.
Inspect(k) ==
  /\ pc[k] = "loop"
  /\ pc' = [pc EXCEPT ![k] = IF Final(target[k]) THEN "exit" ELSE "call"]
  /\ todo' = [todo EXCEPT ![k] =
                IF Final(target[k]) THEN {} ELSE Deps[target[k]]]
  /\ UNCHANGED <<records, object, resolveState, target, waiting, err, outcome,
                 arg, on, stopped, background, ret, panicked>>

\* Resolvable.Resolve resolves a dependency with the context of the build.
ResolveDependency(k, i) ==
  /\ pc[k] = "call"
  /\ i \in todo[k]
  /\ pc' = [pc EXCEPT ![k] = "resolve"]
  /\ arg' = [arg EXCEPT ![k] = i]
  /\ UNCHANGED <<records, object, resolveState, target, waiting, err, outcome,
                 todo, on, stopped, background, ret, panicked>>

\* Resolvable.Resolve returns an object, which replaces the stored one.  No
\* lock is held, and the context may have been cancelled long ago.
SetObject(k) ==
  /\ pc[k] = "call"
  /\ todo[k] = {}
  /\ object' = [object EXCEPT ![target[k]] = k]
  /\ pc' = [pc EXCEPT ![k] = "loop"]
  /\ UNCHANGED <<records, resolveState, target, waiting, err, outcome, todo,
                 arg, on, stopped, background, ret, panicked>>

\* Mutant: the build's context is derived from the context of a caller.
CallerCancels(k) == (Waiters(k) \cup {k}) \cap stopped # {}

\* The build's context is cancelled by resolveState.cancel only.
BuildCancelled(k) == k \in stopped

\* Resolvable.Resolve returns an error of its own, or notices its context.
ResolvableFails(k) ==
  /\ pc[k] = "call"
  /\ \E e \in (IF target[k] \in MayFail THEN {"failed"} ELSE {})
              \cup (IF BuildCancelled(k) THEN {"cancelled"} ELSE {}) :
       outcome' = [outcome EXCEPT ![k] = e]
  /\ pc' = [pc EXCEPT ![k] = "exit"]
  /\ UNCHANGED <<records, object, resolveState, target, waiting, err, todo,
                 arg, on, stopped, background, ret, panicked>>

\* The last critical section of the goroutine publishes the error and closes
\* finished.  A cancelled resolveState is referenced by nobody any more and is
\* collected instead.
Publish(k) ==
  /\ pc' = [pc EXCEPT ![k] = "done"]
  /\ err' = [err EXCEPT ![k] = outcome[k]]
  /\ UNCHANGED <<target, stopped>>

Collect(k) ==
  /\ pc' = [pc EXCEPT ![k] = "free"]
  /\ target' = [target EXCEPT ![k] = Nil]
  /\ stopped' = stopped \ {k}
  /\ UNCHANGED err

\* Mutant: the error is handed to a waiter instead of closing a channel.
HandOver(k) ==
  IF k \in stopped THEN Waiters(k) # {} /\ Collect(k) ELSE Publish(k)

Conclude(k) == IF k \in stopped THEN Collect(k) ELSE Publish(k)

Finish(k) ==
  /\ pc[k] = "exit"
  /\ Conclude(k)
  /\ outcome' = [outcome EXCEPT ![k] = "nil"]
  /\ todo' = [todo EXCEPT ![k] = {}]
  /\ UNCHANGED <<records, object, resolveState, waiting, arg, on, background,
                 ret, panicked>>

BuildStep(k) ==
  \/ Inspect(k)
  \/ \E i \in Ids : ResolveDependency(k, i)
  \/ SetObject(k)
  \/ ResolvableFails(k)
  \/ Finish(k)

-----------------------------------------------------------------------------
(***************************************************************************)
(* The callers.                                                            *)
(***************************************************************************)
Store(c, i) ==
  /\ pc[c] = "idle"
  /\ records' = records \cup {i}
  /\ pc' = [pc EXCEPT ![c] = "stored"]
  /\ arg' = [arg EXCEPT ![c] = i]
  /\ ret' = [ret EXCEPT ![c] = "none"]
  /\ UNCHANGED <<object, resolveState, target, waiting, err, outcome, todo,
                 on, stopped, background, panicked>>

\* Store returns to its caller.
StoreReturns(c) ==
  /\ pc[c] = "stored"
  /\ Deliver(c, "ok", {})
  /\ UNCHANGED <<records, object, resolveState, target, waiting, err, on,
                 panicked>>

\* Build goes on to resolve what it has just stored.
Build(c) ==
  /\ pc[c] = "stored"
  /\ pc' = [pc EXCEPT ![c] = "resolve"]
  /\ UNCHANGED <<records, object, resolveState, target, waiting, err, outcome,
                 todo, arg, on, stopped, background, ret, panicked>>

\* A client resolves any identifier it was given.
CallResolve(c, i) ==
  /\ pc[c] = "idle"
  /\ pc' = [pc EXCEPT ![c] = "resolve"]
  /\ arg' = [arg EXCEPT ![c] = i]
  /\ ret' = [ret EXCEPT ![c] = "none"]
  /\ UNCHANGED <<records, object, resolveState, target, waiting, err, outcome,
                 todo, on, stopped, background, panicked>>

\* GetOrBuild after its Store: IsResolved reads resolveState.finished, whether
\* or not there is a resolveState.
IsResolvedPanics(i) == i \in records /\ resolveState[i] = Nil
IsResolved(i) ==
  i \in records /\ resolveState[i] # Nil /\ ~Running(resolveState[i])

GetOrBuild(c) ==
  /\ pc[c] = "stored"
  /\ IF IsResolvedPanics(arg[c])
       THEN panicked' = TRUE /\ UNCHANGED <<pc, background, ret, stopped>>
       ELSE /\ pc' = [pc EXCEPT ![c] = "resolve"]
            /\ IF IsResolved(arg[c])
                 THEN UNCHANGED <<background, ret, stopped>>
                 ELSE /\ background' = background \cup {c}
                      /\ ret' = [ret EXCEPT ![c] = "pending"]
                      /\ stopped' = stopped \ {c}
            /\ UNCHANGED panicked
  /\ UNCHANGED <<records, object, resolveState, target, waiting, err, outcome,
                 todo, arg, on>>

\* The client cancels the context of the call it is in.
Cancel(c) ==
  /\ pc[c] # "idle"
  /\ c \notin background
  /\ c \notin stopped
  /\ Cardinality(stopped \cap Builds) < MaxAbandoned
  /\ stopped' = stopped \cup {c}
  /\ UNCHANGED <<records, object, resolveState, target, waiting, err, outcome,
                 todo, pc, arg, on, background, ret, panicked>>

Step(g) == ~panicked /\ (Resolve(g) \/ Wake(g) \/ CallBlobFunc(g))

CallerStep(c) == ~panicked /\ (StoreReturns(c) \/ Build(c) \/ GetOrBuild(c))

Client(c) ==
  /\ ~panicked
  /\ \/ \E i \in Ids : Store(c, i) \/ CallResolve(c, i)
     \/ Cancel(c)

\* Nothing runs after a panic.
Crashed == panicked /\ UNCHANGED vars

Next ==
  \/ \E g \in Goroutines : Step(g)
  \/ \E k \in Builds : ~panicked /\ BuildStep(k)
  \/ \E c \in Callers : CallerStep(c) \/ Client(c)
  \/ Crashed

Spec == Init /\ [][Next]_vars

(***************************************************************************)
(* Every goroutine that can run is eventually run, and every Resolvable    *)
(* and every stored function returns.  Clients need not call or cancel.    *)
(***************************************************************************)
Fairness ==
  /\ \A g \in Goroutines : WF_vars(Step(g))
  /\ \A k \in Builds : WF_vars(~panicked /\ BuildStep(k))
  /\ \A c \in Callers : WF_vars(CallerStep(c))

FairSpec == Spec /\ Fairness

-----------------------------------------------------------------------------
(***************************************************************************)
(* Correctness.                                                            *)
(***************************************************************************)
\* Every variable holds a value of the kind its declaration in memory.go says.
TypeOK ==
  /\ records \subseteq Ids
  /\ object \in [Ids -> Builds \cup {Nil}]
  /\ resolveState \in [Ids -> Builds \cup {Nil}]
  /\ target \in [Builds -> Ids \cup {Nil}]
  /\ waiting \in [Builds -> Nat]
  /\ err \in [Builds -> Errors]
  /\ outcome \in [Builds -> Errors]
  /\ todo \in [Builds -> SUBSET Ids]
  /\ pc \in [Goroutines -> CallerPCs \cup BuildPCs]
  /\ \A c \in Callers : pc[c] \in CallerPCs
  /\ \A k \in Builds : pc[k] \in BuildPCs
  /\ arg \in [Goroutines -> Ids \cup {Nil}]
  /\ on \in [Goroutines -> Builds \cup {Nil}]
  /\ stopped \subseteq Goroutines
  /\ background \subseteq Callers
  /\ ret \in [Callers -> Answers]
  /\ panicked \in BOOLEAN

\* The waiting counter of a resolveState is the number of goroutines that are
\* inside its select, whatever mix of finishing, joining and cancelling there
\* was (memory.go 261 and 272): the decision to cancel a build rests on it.
WaitingCounts == \A k \in Builds : waiting[k] = Cardinality(Waiters(k))

\* A build that has not been cancelled is the resolveState of its record and
\* somebody waits for it; a cancelled one has no waiter left (memory.go
\* 273-280).  So a record never has two live builds, no build runs on for
\* nobody, and no waiter hangs on a build that was given up.
NoOrphanBuild ==
  \A k \in Builds : Running(k) =>
    IF k \in stopped
      THEN Waiters(k) = {} /\ \A i \in Ids : resolveState[i] # k
      ELSE Waiters(k) # {} /\ resolveState[target[k]] = k

Settled(i) == resolveState[i] # Nil /\ pc[resolveState[i]] = "done"

\* One caller's cancellation never becomes the remembered outcome of a record
\* (memory.go 221-223: the build's context is not the caller's), not even
\* through a chain of nested resolves.
CancelNotRemembered ==
  \A i \in Ids : Settled(i) => err[resolveState[i]] # "cancelled"

\* Resolve never hands out an object that is still a Resolvable.
AnswersFinal == \A c \in Callers : ret[c] # "raw"

\* Every call returns, unless the process panics.
CallsReturn ==
  \A c \in Callers : (pc[c] # "idle") ~> (pc[c] = "idle" \/ panicked)

\* A cancelled build ends: its goroutine is not leaked.
AbandonedBuildsEnd ==
  \A k \in Builds : (k \in stopped) ~> (k \notin stopped \/ panicked)

\* resolvable.go 27-28 promises that "all subsequent resolves will return the
\* same pre-built object".  Once the outcome of a record is settled, its object
\* is replaced in one case only: by a build of the record that was given up
\* before and has gone on without the mutex (memory.go 141).
ReplacedByAbandoned ==
  [][\A i \in Ids : Settled(i) /\ object'[i] # object[i]
       => \E k \in stopped \cap Builds : target[k] = i /\ object'[i] = k]_vars

(***************************************************************************)
(* The database implements Memo.                                           *)
(***************************************************************************)
SettledTo(i) ==
  IF Settled(i)
    THEN IF err[resolveState[i]] = "nil" THEN "value" ELSE "failed"
    ELSE "no"

M == INSTANCE Memo WITH
       settled   <- [i \in Ids |-> SettledTo(i)],
       busy      <- {c \in Callers : pc[c] # "idle"},
       want      <- [c \in Callers |-> arg[c]],
       cancelled <- stopped \cap Callers

\* Seen from its callers the database is a memo table: outcomes are settled
\* once and for good, a call returns the outcome of its identifier, and only a
\* caller's own cancellation makes it return anything else.
ImplementsMemo == M!Spec
=============================================================================
