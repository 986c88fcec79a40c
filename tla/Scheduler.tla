----------------------------- MODULE Scheduler ------------------------------
(***************************************************************************)
(* The replay scheduler of gapis (gapis/replay/scheduler): callers of      *)
(* Schedule hand jobs over a channel to the main loop, which files them in *)
(* bins, one per batch; an executing goroutine takes the ready bin of      *)
(* highest priority, deletes it and runs its jobs as one replay.           *)
(*                                                                         *)
(* The main loop selects on the pending channel and on the precondition    *)
(* channels of the bins.  The two goroutines share the bins under a        *)
(* readers-writer lock that both hold for reading while they test and      *)
(* mark bins, and the ready channel, whose values are never looked at: it  *)
(* only wakes the executing goroutine.                                     *)
(***************************************************************************)
EXTENDS Naturals, Sequences, FiniteSets

CONSTANTS
  Jobs,        \* calls of Schedule
  Batches,     \* Batch values: key, priority and precondition
  Gates,       \* channels that serve as preconditions, satisfied when closed
  None,
  BatchOf,     \* the batch of a job
  Priority,    \* Batch.Priority
  Kind,        \* Batch.Precondition: "nil", "timer" or a gate
  PendingCap,  \* capacity of Scheduler.pending, 32 in the code
  ReadyCap,    \* capacity of readyChan, 32 in the code
  Failure,     \* how a replay can fail: "never", "early" (before any result)
               \* or "late" (after some requests have had their result)
  Again,       \* jobs whose caller calls once more after the call returned
  CanCancel,   \* whether callers cancel
  CanStop      \* whether the scheduler's context can be cancelled

Channels == {"fired"} \cup Batches \cup Gates

ASSUME SchedulerAssumption ==
  /\ BatchOf \in [Jobs -> Batches]
  /\ Priority \in [Batches -> Nat]
  /\ Kind \in [Batches -> {"nil", "timer"} \cup Gates]
  /\ PendingCap \in Nat \ {0} /\ ReadyCap \in Nat \ {0}
  /\ Failure \in {"never", "early", "late"}
  /\ Again \subseteq Jobs
  /\ CanCancel \in BOOLEAN /\ CanStop \in BOOLEAN
  /\ None \notin Jobs \cup Batches \cup Gates
  /\ Batches \cap Gates = {} /\ "fired" \notin Batches \cup Gates
  /\ {"nil", "timer"} \cap Gates = {}
  /\ IsFiniteSet(Jobs) /\ IsFiniteSet(Batches)

VARIABLES
  \* the callers
  jpc,         \* where each call of Schedule is
  cancelled,   \* calls whose context is cancelled
  out,         \* number of results in the call's out channel (capacity 1)
  \* the channels and the clock
  pending,     \* Scheduler.pending
  ready,       \* number of values in readyChan
  closed,      \* gates that were closed
  timer,       \* the timer of the batch's bin: off, armed or ready
  stop,        \* the scheduler's context is cancelled
  \* the shared state
  bins,        \* bins[b]: the jobs of the bin of b; a bin never is empty
  interrupt,   \* bin.interrupt: the bin's own channel, or FiredSignal
  queueLen,    \* Scheduler.queueLen
  \* the main loop
  mpc, hand, event,
  interrupts,  \* the precondition channels it selects on
  visit,       \* bins its current loop has still to visit
  \* the executing goroutine
  epc, best, scan,
  taken,       \* the jobs of the deleted bin
  list,        \* the executables it passed to the executor
  sent,        \* those that were sent a result in this pass
  \* a history variable
  unanswered   \* calls that a replay without an error left without a result

callerVars == <<jpc, cancelled, out>>
mainVars   == <<mpc, hand, event, interrupts, visit>>
execVars   == <<epc, best, scan, taken, list, sent>>
vars == <<callerVars, pending, ready, closed, timer, stop, bins, interrupt,
          queueLen, mainVars, execVars, unanswered>>

Present == {b \in Batches : bins[b] # {}}

\* The channel bin.interrupt selects on.
Channel(b) ==
  IF interrupt[b] = "fired" THEN "fired"
  ELSE IF Kind[b] \in Gates THEN Kind[b] ELSE b

\* Mutant: every bin starts out ready.
AlwaysFired(b) == "fired"

\* preconditionChan: FiredSignal, a new timer or the gate.
NewInterrupt(b) == IF Kind[b] = "nil" THEN "fired" ELSE "own"
NewTimer(b)     == IF Kind[b] = "timer" THEN "armed" ELSE "off"
NewChannel(b)   == CASE Kind[b] = "nil"   -> "fired"
                     [] Kind[b] = "timer" -> b
                     [] OTHER             -> Kind[b]

\* A receive from channel x does not block.
Fires(x) ==
  \/ x = "fired"
  \/ x \in closed
  \/ x \in Batches /\ timer[x] = "ready"

Init ==
  /\ jpc = [j \in Jobs |-> "calling"]
  /\ cancelled = {}
  /\ out = [j \in Jobs |-> 0]
  /\ pending = <<>>
  /\ ready = 0
  /\ closed = {}
  /\ timer = [b \in Batches |-> "off"]
  /\ stop = FALSE
  /\ bins = [b \in Batches |-> {}]
  /\ interrupt = [b \in Batches |-> "own"]
  /\ queueLen = 0
  /\ mpc = "select" /\ hand = None /\ event = None
  /\ interrupts = {} /\ visit = {}
  /\ epc = "top" /\ best = None /\ scan = {}
  /\ taken = {} /\ list = {} /\ sent = {}
  /\ unanswered = {}

-----------------------------------------------------------------------------
(***************************************************************************)
(* The callers of Schedule.                                                *)
(***************************************************************************)
Submit(j) ==
  /\ jpc[j] = "calling"
  /\ Len(pending) < PendingCap
  /\ pending' = Append(pending, j)
  /\ jpc' = [jpc EXCEPT ![j] = "await"]
  /\ UNCHANGED <<cancelled, out, ready, closed, timer, stop, bins, interrupt,
                 queueLen, mainVars, execVars, unanswered>>

Receive(j) ==
  /\ jpc[j] = "await"
  /\ out[j] > 0
  /\ out' = [out EXCEPT ![j] = @ - 1]
  /\ jpc' = [jpc EXCEPT ![j] = "returned"]
  /\ UNCHANGED <<cancelled, pending, ready, closed, timer, stop, bins,
                 interrupt, queueLen, mainVars, execVars, unanswered>>

GiveUp(j) ==
  /\ jpc[j] \in {"calling", "await"}
  /\ j \in cancelled
  /\ jpc' = [jpc EXCEPT ![j] = "left"]
  /\ UNCHANGED <<cancelled, out, pending, ready, closed, timer, stop, bins,
                 interrupt, queueLen, mainVars, execVars, unanswered>>

Cancel(j) ==
  /\ CanCancel
  /\ jpc[j] \in {"calling", "await"}
  /\ j \notin cancelled
  /\ cancelled' = cancelled \cup {j}
  /\ UNCHANGED <<jpc, out, pending, ready, closed, timer, stop, bins,
                 interrupt, queueLen, mainVars, execVars, unanswered>>

\* Where a job is between Submit and the end of its replay.
InPending(j) == \E n \in 1..Len(pending) : pending[n] = j
Held(j) ==
  \/ InPending(j)
  \/ hand = j
  \/ \E b \in Batches : j \in bins[b]
  \/ j \in taken

\* A new call, once nothing in the scheduler refers to the old one.
CallAgain(j) ==
  /\ j \in Again
  /\ jpc[j] \in {"returned", "left"}
  /\ ~Held(j)
  /\ jpc' = [jpc EXCEPT ![j] = "calling"]
  /\ cancelled' = cancelled \ {j}
  /\ out' = [out EXCEPT ![j] = 0]
  /\ unanswered' = unanswered \ {j}
  /\ UNCHANGED <<pending, ready, closed, timer, stop, bins, interrupt,
                 queueLen, mainVars, execVars>>

-----------------------------------------------------------------------------
(***************************************************************************)
(* The environment: timers expire, gates are closed, the context of the    *)
(* scheduler is cancelled.                                                 *)
(***************************************************************************)
Expire(b) ==
  /\ timer[b] = "armed"
  /\ timer' = [timer EXCEPT ![b] = "ready"]
  /\ UNCHANGED <<callerVars, pending, ready, closed, stop, bins, interrupt,
                 queueLen, mainVars, execVars, unanswered>>

Close(x) ==
  /\ x \notin closed
  /\ closed' = closed \cup {x}
  /\ UNCHANGED <<callerVars, pending, ready, timer, stop, bins, interrupt,
                 queueLen, mainVars, execVars, unanswered>>

StopScheduler ==
  /\ CanStop
  /\ ~stop
  /\ stop' = TRUE
  /\ UNCHANGED <<callerVars, pending, ready, closed, timer, bins, interrupt,
                 queueLen, mainVars, execVars, unanswered>>

-----------------------------------------------------------------------------
(***************************************************************************)
(* bin.isReady(b): receives from the bin's channel if that does not block. *)
(* The value of a timer is gone then, and FiredSignal takes the place of   *)
(* the channel; an entry of interrupts for the drained timer never fires   *)
(* again and is dropped from the set.                                      *)
(***************************************************************************)
IsReady(b) == Fires(Channel(b))
Drains(b)  == Channel(b) = b /\ timer[b] = "ready"

Drain(b) ==
  IF Drains(b)
    THEN /\ timer' = [timer EXCEPT ![b] = "off"]
         /\ interrupt' = [interrupt EXCEPT ![b] = "fired"]
    ELSE UNCHANGED <<timer, interrupt>>

(***************************************************************************)
(* The main loop.                                                          *)
(***************************************************************************)
\* for !task.Stopped(ctx)
LoopTop == IF stop THEN "ended" ELSE "select"

TakePending ==
  /\ mpc = "select"
  /\ pending # <<>>
  /\ hand' = Head(pending)
  /\ pending' = Tail(pending)
  /\ mpc' = "add"
  /\ UNCHANGED <<callerVars, ready, closed, timer, stop, bins, interrupt,
                 queueLen, event, interrupts, visit, execVars, unanswered>>

\* Mutant: the bin of the batch is replaced.
Replaced(b) == {hand}

\* Mutant: the bin that is being executed is filled up again.
RunningToo(b) == bins[b] \cup {hand} \cup {j \in taken : BatchOf[j] = b}

\* The jobs of the bin of b with the one in hand.
Filed(b) == bins[b] \cup {hand}

\* Mutant: bins are counted instead of jobs.
BinsCounted(b) == IF bins[b] = {} THEN queueLen + 1 ELSE queueLen

Counted(b) == queueLen + 1

\* addJob, under the write lock.
AddJob ==
  LET b == BatchOf[hand]
  IN /\ mpc = "add"
     /\ epc # "scan"
     /\ bins' = [bins EXCEPT ![b] = Filed(b)]
     /\ IF bins[b] = {}
          THEN /\ interrupt' = [interrupt EXCEPT ![b] = NewInterrupt(b)]
               /\ timer' = [timer EXCEPT ![b] = NewTimer(b)]
               /\ interrupts' = interrupts \cup {NewChannel(b)}
          ELSE UNCHANGED <<interrupt, timer, interrupts>>
     /\ queueLen' = Counted(b)
     /\ hand' = None
     /\ mpc' = LoopTop
     /\ UNCHANGED <<callerVars, pending, ready, closed, stop, event, visit,
                    execVars, unanswered>>

\* A precondition channel fires; receiving from a timer drains it.
SelectEvent(x) ==
  /\ mpc = "select"
  /\ x \in interrupts
  /\ Fires(x)
  /\ event' = x
  /\ timer' = IF x \in Batches THEN [timer EXCEPT ![x] = "off"] ELSE timer
  /\ mpc' = "event"
  /\ UNCHANGED <<callerVars, pending, ready, closed, stop, bins, interrupt,
                 queueLen, hand, interrupts, visit, execVars, unanswered>>

\* binLock.RLock and the start of the first loop.
BeginMatch ==
  /\ mpc = "event"
  /\ mpc' = "match"
  /\ visit' = Present
  /\ UNCHANGED <<callerVars, pending, ready, closed, timer, stop, bins,
                 interrupt, queueLen, hand, event, interrupts, execVars, unanswered>>

\* Mutant: the event is taken for the event of every bin.
MatchesAll(b) == event # None

\* Mutant: no bin recognises its event.
MatchesNone(b) == event = None

Matches(b) == Channel(b) = event

\* readyChan <- b blocks while the channel is full, with the lock held.
Match(b) ==
  /\ mpc = "match"
  /\ b \in visit
  /\ visit' = visit \ {b}
  /\ IF Matches(b)
       THEN /\ ready < ReadyCap
            /\ ready' = ready + 1
            /\ interrupt' = IF event \in Batches
                              THEN [interrupt EXCEPT ![b] = "fired"]
                              ELSE interrupt
       ELSE UNCHANGED <<ready, interrupt>>
  /\ UNCHANGED <<callerVars, pending, closed, timer, stop, bins, queueLen, mpc,
                 hand, event, interrupts, execVars, unanswered>>

BeginRebuild ==
  /\ mpc = "match"
  /\ visit = {}
  /\ mpc' = "rebuild"
  /\ visit' = Present
  /\ interrupts' = {}
  /\ event' = None
  /\ UNCHANGED <<callerVars, pending, ready, closed, timer, stop, bins,
                 interrupt, queueLen, hand, execVars, unanswered>>

\* Mutant: the bins that are ready are listened to, not the others.
ListensToReady(b) == IsReady(b)

Listens(b) == ~IsReady(b)

Rebuild(b) ==
  /\ mpc = "rebuild"
  /\ b \in visit
  /\ visit' = visit \ {b}
  /\ interrupts' = IF Listens(b) THEN interrupts \cup {Channel(b)}
                                 ELSE interrupts
  /\ Drain(b)
  /\ UNCHANGED <<callerVars, pending, ready, closed, stop, bins, queueLen, mpc,
                 hand, event, execVars, unanswered>>

EndRebuild ==
  /\ mpc = "rebuild"
  /\ visit = {}
  /\ mpc' = LoopTop
  /\ UNCHANGED <<callerVars, pending, ready, closed, timer, stop, bins,
                 interrupt, queueLen, hand, event, interrupts, visit, execVars, unanswered>>

EndMain ==
  /\ mpc = "select"
  /\ stop
  /\ mpc' = "ended"
  /\ UNCHANGED <<callerVars, pending, ready, closed, timer, stop, bins,
                 interrupt, queueLen, hand, event, interrupts, visit, execVars, unanswered>>

-----------------------------------------------------------------------------
(***************************************************************************)
(* The executing goroutine.                                                *)
(***************************************************************************)
\* Drain one value of readyChan if there is one, then take the read lock.
BeginScan ==
  /\ epc = "top"
  /\ \/ ready > 0 /\ ready' = ready - 1
     \/ ready = 0 /\ ~stop /\ UNCHANGED ready
  /\ epc' = "scan"
  /\ scan' = Present
  /\ best' = None
  /\ UNCHANGED <<callerVars, pending, closed, timer, stop, bins, interrupt,
                 queueLen, mainVars, taken, list, sent, unanswered>>

Better(b) == best = None \/ Priority[best] < Priority[b]

Scan(b) ==
  /\ epc = "scan"
  /\ b \in scan
  /\ scan' = scan \ {b}
  /\ best' = IF IsReady(b) /\ Better(b) THEN b ELSE best
  /\ Drain(b)
  /\ interrupts' = IF Drains(b) THEN interrupts \ {b} ELSE interrupts
  /\ UNCHANGED <<callerVars, pending, ready, closed, stop, bins, queueLen, mpc,
                 hand, event, visit, epc, taken, list, sent, unanswered>>

EndScan ==
  /\ epc = "scan"
  /\ scan = {}
  /\ epc' = IF best = None THEN "wait" ELSE "lock"
  /\ UNCHANGED <<callerVars, pending, ready, closed, timer, stop, bins,
                 interrupt, queueLen, mainVars, best, scan, taken, list, sent, unanswered>>

WakeUp ==
  /\ epc = "wait"
  /\ ready > 0
  /\ ready' = ready - 1
  /\ epc' = "top"
  /\ UNCHANGED <<callerVars, pending, closed, timer, stop, bins, interrupt,
                 queueLen, mainVars, best, scan, taken, list, sent, unanswered>>

EndExec ==
  /\ epc \in {"top", "wait"}
  /\ stop
  /\ epc' = "ended"
  /\ UNCHANGED <<callerVars, pending, ready, closed, timer, stop, bins,
                 interrupt, queueLen, mainVars, best, scan, taken, list, sent, unanswered>>

\* The write lock is free when the main loop does not read the bins.
ReadLocked == mpc \in {"match", "rebuild"}

\* The list bin.exec passes on leaves out the jobs that were cancelled by then.
Executables(b) == bins[b] \ cancelled

\* delete(bins, best.batch), and the start of bin.exec.
Delete ==
  /\ epc = "lock"
  /\ ~ReadLocked
  /\ taken' = bins[best]
  /\ bins' = [bins EXCEPT ![best] = {}]
  /\ interrupt' = [interrupt EXCEPT ![best] = "own"]
  /\ list' = Executables(best)
  /\ sent' = {}
  /\ best' = None
  /\ epc' = "run"
  /\ UNCHANGED <<callerVars, pending, ready, closed, timer, stop, queueLen,
                 mainVars, scan, unanswered>>

(***************************************************************************)
(* The executor (manager.batch): the replay gives each request a result,   *)
(* unless it crashes; when it returns an error every request is sent that  *)
(* error, also the ones that have had their result.  Sending blocks while  *)
(* out is full.                                                            *)
(***************************************************************************)
SendResult(j) ==
  /\ epc \in {"run", "fail"}
  /\ j \in list \ sent
  /\ out[j] = 0
  /\ out' = [out EXCEPT ![j] = 1]
  /\ sent' = sent \cup {j}
  /\ UNCHANGED <<jpc, cancelled, pending, ready, closed, timer, stop, bins,
                 interrupt, queueLen, mainVars, epc, best, scan, taken, list, unanswered>>

ReplayFails ==
  /\ epc = "run"
  /\ \/ Failure = "early" /\ sent = {}
     \/ Failure = "late"
  /\ sent' = {}
  /\ epc' = "fail"
  /\ UNCHANGED <<callerVars, pending, ready, closed, timer, stop, bins,
                 interrupt, queueLen, mainVars, best, scan, taken, list, unanswered>>

\* Mutant: the cancelled jobs of the bin stay counted.
ExecutedJobs == Cardinality(list)

FinishedJobs == Cardinality(taken)

\* The executor returns: the error has been sent to everyone, or the replay
\* ended without one.  After a crash dump it ends like that with results still
\* missing, and then nobody sends them.
EndReplay ==
  /\ epc = "run" \/ (epc = "fail" /\ sent = list)
  /\ unanswered' = unanswered \cup (list \ sent)
  /\ queueLen' = queueLen - FinishedJobs
  /\ taken' = {} /\ list' = {} /\ sent' = {}
  /\ epc' = "top"
  /\ UNCHANGED <<callerVars, pending, ready, closed, timer, stop, bins,
                 interrupt, mainVars, best, scan>>

-----------------------------------------------------------------------------
Caller(j) == Receive(j) \/ GiveUp(j)
Client(j) == Submit(j) \/ Cancel(j) \/ CallAgain(j)

Environment ==
  \/ \E b \in Batches : Expire(b)
  \/ \E x \in Gates : Close(x)
  \/ StopScheduler

Main ==
  \/ TakePending \/ AddJob
  \/ \E x \in Channels : SelectEvent(x)
  \/ BeginMatch \/ BeginRebuild \/ EndRebuild \/ EndMain
  \/ \E b \in Batches : Match(b) \/ Rebuild(b)

Exec ==
  \/ BeginScan \/ EndScan \/ WakeUp \/ EndExec
  \/ \E b \in Batches : Scan(b)
  \/ Delete \/ ReplayFails \/ EndReplay
  \/ \E j \in Jobs : SendResult(j)

Next ==
  \/ \E j \in Jobs : Caller(j) \/ Client(j)
  \/ Environment
  \/ Main
  \/ Exec

Spec == Init /\ [][Next]_vars

(***************************************************************************)
(* The goroutines, the timers and the callers in the select of Schedule    *)
(* run when they can.  Select chooses among its ready cases at random, and *)
(* a waiting writer of a sync.RWMutex keeps new readers out: no case and   *)
(* no writer is passed over for ever.                                      *)
(***************************************************************************)
Fairness ==
  /\ WF_vars(Main) /\ WF_vars(Exec)
  /\ SF_vars(TakePending) /\ SF_vars(AddJob) /\ SF_vars(Delete)
  /\ \A x \in Channels : SF_vars(SelectEvent(x))
  /\ \A b \in Batches : WF_vars(Expire(b))
  /\ \A j \in Jobs : WF_vars(Caller(j))

FairSpec == Spec /\ Fairness

-----------------------------------------------------------------------------
(***************************************************************************)
(* Correctness.                                                            *)
(***************************************************************************)
\* Every variable holds a value of the kind its declaration says; out never
\* holds more than its capacity and the counters never go below zero.
TypeOK ==
  /\ jpc \in [Jobs -> {"calling", "await", "returned", "left"}]
  /\ cancelled \subseteq Jobs
  /\ out \in [Jobs -> 0..1]
  /\ pending \in Seq(Jobs) /\ Len(pending) <= PendingCap
  /\ ready \in 0..ReadyCap
  /\ closed \subseteq Gates
  /\ timer \in [Batches -> {"off", "armed", "ready"}]
  /\ stop \in BOOLEAN
  /\ bins \in [Batches -> SUBSET Jobs]
  /\ interrupt \in [Batches -> {"own", "fired"}]
  /\ queueLen \in Nat
  /\ mpc \in {"select", "add", "event", "match", "rebuild", "ended"}
  /\ hand \in Jobs \cup {None}
  /\ event \in Channels \cup {None}
  /\ interrupts \subseteq Channels
  /\ visit \subseteq Batches
  /\ epc \in {"top", "scan", "wait", "lock", "run", "fail", "ended"}
  /\ best \in Batches \cup {None}
  /\ scan \subseteq Batches
  /\ taken \subseteq Jobs /\ list \subseteq taken /\ sent \subseteq list
  /\ unanswered \subseteq Jobs

\* NumTasksQueued is the number of jobs filed and not yet replayed, although
\* the two goroutines update it at different times (lines 153 and 195).
QueueLenCounts ==
  queueLen = Cardinality((UNION {bins[b] : b \in Batches}) \cup taken)

\* A job that waits for its result is in exactly one place: in the pending
\* channel, in the main loop's hand, in the bin of its batch or in the replay
\* that runs; or that replay has ended without it.  No job is lost when a bin is
\* deleted while others are added to it, and none is executed twice.
NoJobLost ==
  \A j \in Jobs :
    /\ jpc[j] = "await" /\ out[j] = 0 /\ j \notin cancelled
         => Held(j) \/ j \in unanswered
    /\ \A b \in Batches : j \in bins[b] => b = BatchOf[j]
    /\ Cardinality({n \in 1..Len(pending) : pending[n] = j})
       + (IF hand = j THEN 1 ELSE 0)
       + Cardinality({b \in Batches : j \in bins[b]})
       + (IF j \in taken THEN 1 ELSE 0) <= 1

\* The first answer of a call finds room in its out channel: a replay blocks
\* on a caller that has gone only after it has failed and answers for the second
\* time (batch.go 92-94).
FirstAnswerFits == epc = "run" => \A j \in list \ sent : out[j] = 0

\* A bin that was chosen has its precondition satisfied: its own timer, not
\* that of an earlier bin of the batch, has expired (lines 212-221, 259-270).
NeverEarly ==
  epc = "lock" =>
    /\ bins[best] # {}
    /\ Kind[best] = "timer" => timer[best] = "off"
    /\ Kind[best] \in Gates => Kind[best] \in closed

\* Line 179: "If no bin is ready, wait for one on the ready channel."  While
\* the executing goroutine waits there and nothing is on its way, the main
\* loop listens to the channel of every bin.
WakeupArmed ==
  epc = "wait" /\ ready = 0 /\ mpc = "select" =>
    \A b \in Present : Channel(b) \in interrupts

\* Line 85: "Schedule schedules t to be executed on s."  A call whose
\* precondition is satisfied returns, unless its replay ended without an error
\* and without a result for it.
CallsAnswered ==
  \A j \in Jobs :
    (jpc[j] = "await" /\ (Kind[BatchOf[j]] \in Gates => Kind[BatchOf[j]] \in closed))
      ~> (jpc[j] # "await" \/ j \in unanswered)
=============================================================================
