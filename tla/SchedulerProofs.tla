-------------------------- MODULE SchedulerProofs ---------------------------
(***************************************************************************)
(* Proofs about Scheduler, for every set of jobs, of batches and of gates, *)
(* every priority and every capacity of the two channels.                  *)
(***************************************************************************)
EXTENDS Scheduler, FiniteSetTheorems, TLAPS

(***************************************************************************)
(* The inductive invariant.                                                *)
(***************************************************************************)
\* What the two program counters say of the local variables.
ControlInv ==
  /\ mpc = "add" <=> hand # None
  /\ event # None => mpc \in {"event", "match"}
  /\ epc \notin {"run", "fail"} => taken = {}
  /\ best # None => epc \in {"scan", "lock"}
  /\ epc = "lock" => best # None

\* A job is in at most one place, and in no bin but that of its batch; a job
\* that is about to be submitted is nowhere.
PlaceInv ==
  /\ \A m, n \in 1..Len(pending) : pending[m] = pending[n] => m = n
  /\ \A n \in 1..Len(pending) :
       /\ pending[n] # hand
       /\ pending[n] \notin taken
       /\ \A b \in Batches : pending[n] \notin bins[b]
  /\ hand \notin taken
  /\ \A b \in Batches : hand \notin bins[b]
  /\ \A b \in Batches : \A j \in bins[b] : BatchOf[j] = b /\ j \notin taken
  /\ \A j \in Jobs : jpc[j] = "calling" => ~Held(j)

\* Only jobs that were cancelled are left out of a replay, and who was sent a
\* result has it or is gone.
AnswerInv ==
  /\ \A j \in Jobs :
       jpc[j] = "await" /\ out[j] = 0 /\ j \notin cancelled => Held(j) \/ j \in unanswered
  /\ taken \ list \subseteq cancelled
  /\ \A j \in sent : out[j] = 1 \/ jpc[j] # "await"

\* A bin's channel is FiredSignal only when its timer has been received from,
\* and the best bin of a scan stays ready until it is deleted.
ReadyInv ==
  /\ \A b \in Batches :
       /\ Kind[b] # "timer" => timer[b] = "off"
       /\ interrupt[b] = "fired" => timer[b] = "off"
       /\ Kind[b] \in Gates => interrupt[b] = "own"
  /\ event \in Batches => timer[event] = "off"
  /\ epc = "scan" => scan \subseteq Present
  /\ best # None =>
       /\ bins[best] # {}
       /\ Kind[best] = "timer" => interrupt[best] = "fired"
       /\ Kind[best] \in Gates => Kind[best] \in closed

IInv == TypeOK /\ ControlInv /\ PlaceInv /\ AnswerInv /\ ReadyInv /\ QueueLenCounts


-----------------------------------------------------------------------------
(***************************************************************************)
(* Steps that leave a part of the invariant alone.                         *)
(***************************************************************************)
LEMMA PlaceSame ==
  ASSUME PlaceInv, UNCHANGED <<pending, hand, taken, bins, jpc>>
  PROVE  PlaceInv'
  BY DEF PlaceInv, Held, InPending

LEMMA AnswerSame ==
  ASSUME AnswerInv,
         UNCHANGED <<pending, hand, taken, bins, jpc, out, cancelled, list, sent, unanswered>>
  PROVE  AnswerInv'
  BY DEF AnswerInv, Held, InPending

LEMMA ReadySame ==
  ASSUME ReadyInv,
         UNCHANGED <<timer, interrupt, event, epc, scan, bins, best, closed>>
  PROVE  ReadyInv'
  BY DEF ReadyInv, Present

LEMMA CountSame ==
  ASSUME QueueLenCounts, UNCHANGED <<bins, taken, queueLen>>
  PROVE  QueueLenCounts'
  BY DEF QueueLenCounts

(***************************************************************************)
(* The callers.                                                            *)
(***************************************************************************)
LEMMA SubmitKeeps == ASSUME IInv, NEW j \in Jobs, Submit(j) PROVE IInv'
<1>. USE DEF IInv
<1>1. ~Held(j)
  BY DEF Submit, PlaceInv
<1>2. /\ Len(pending') = Len(pending) + 1
      /\ pending'[Len(pending) + 1] = j
      /\ \A n \in 1..Len(pending) : pending'[n] = pending[n]
      /\ pending' \in Seq(Jobs)
      /\ Len(pending) \in Nat
  BY DEF Submit, TypeOK
<1>3. TypeOK'
  BY <1>2, SchedulerAssumption DEF Submit, TypeOK, mainVars, execVars
<1>4. ControlInv'
  BY DEF Submit, ControlInv, mainVars, execVars
<1>5. PlaceInv'
  <2>1. \A i \in Jobs : Held(i)' <=> Held(i) \/ i = j
    BY <1>2 DEF Submit, Held, InPending, mainVars, execVars
  <2>2. \A n \in 1..Len(pending) : pending[n] # j
    BY <1>1 DEF Held, InPending
  <2>3. \A m, n \in 1..Len(pending') : pending'[m] = pending'[n] => m = n
    BY <1>2, <2>2 DEF PlaceInv
  <2>4. \A n \in 1..Len(pending') :
          /\ pending'[n] # hand
          /\ pending'[n] \notin taken
          /\ \A b \in Batches : pending'[n] \notin bins[b]
    BY <1>1, <1>2 DEF PlaceInv, Held
  <2>5. \A i \in Jobs : jpc'[i] = "calling" => ~Held(i)'
    BY <2>1 DEF Submit, PlaceInv, TypeOK
  <2>. QED
    BY <2>3, <2>4, <2>5 DEF Submit, PlaceInv, mainVars, execVars
<1>6. AnswerInv'
  <2>1. \A i \in Jobs : Held(i)' <=> Held(i) \/ i = j
    BY <1>2 DEF Submit, Held, InPending, mainVars, execVars
  <2>2. j \notin sent
    BY <1>1 DEF Held, TypeOK
  <2>. QED
    BY <2>1, <2>2 DEF Submit, AnswerInv, TypeOK, execVars
<1>7. ReadyInv' /\ QueueLenCounts'
  BY ReadySame, CountSame DEF Submit, mainVars, execVars
<1>. QED
  BY <1>3, <1>4, <1>5, <1>6, <1>7

LEMMA ReceiveKeeps == ASSUME IInv, NEW j \in Jobs, Receive(j) PROVE IInv'
<1>. USE DEF IInv
<1>1. TypeOK'
  BY DEF Receive, TypeOK, mainVars, execVars
<1>2. ControlInv' /\ ReadyInv' /\ QueueLenCounts'
  BY ReadySame, CountSame DEF Receive, ControlInv, mainVars, execVars
<1>3. \A i \in Jobs : Held(i)' <=> Held(i)
  BY DEF Receive, Held, InPending, mainVars, execVars
<1>4. PlaceInv'
  BY <1>3 DEF Receive, PlaceInv, TypeOK, mainVars, execVars
<1>5. AnswerInv'
  BY <1>3 DEF Receive, AnswerInv, TypeOK, mainVars, execVars
<1>. QED
  BY <1>1, <1>2, <1>4, <1>5

LEMMA GiveUpKeeps == ASSUME IInv, NEW j \in Jobs, GiveUp(j) PROVE IInv'
<1>. USE DEF IInv
<1>1. TypeOK'
  BY DEF GiveUp, TypeOK, mainVars, execVars
<1>2. ControlInv' /\ ReadyInv' /\ QueueLenCounts'
  BY ReadySame, CountSame DEF GiveUp, ControlInv, mainVars, execVars
<1>3. \A i \in Jobs : Held(i)' <=> Held(i)
  BY DEF GiveUp, Held, InPending, mainVars, execVars
<1>4. PlaceInv'
  BY <1>3 DEF GiveUp, PlaceInv, TypeOK, mainVars, execVars
<1>5. AnswerInv'
  BY <1>3 DEF GiveUp, AnswerInv, TypeOK, mainVars, execVars
<1>. QED
  BY <1>1, <1>2, <1>4, <1>5

LEMMA CancelKeeps == ASSUME IInv, NEW j \in Jobs, Cancel(j) PROVE IInv'
<1>. USE DEF IInv
<1>1. TypeOK'
  BY DEF Cancel, TypeOK, mainVars, execVars
<1>2. ControlInv' /\ ReadyInv' /\ QueueLenCounts' /\ PlaceInv'
  BY ReadySame, CountSame, PlaceSame DEF Cancel, ControlInv, mainVars, execVars
<1>3. \A i \in Jobs : Held(i)' <=> Held(i)
  BY DEF Cancel, Held, InPending, mainVars, execVars
<1>4. AnswerInv'
  BY <1>3 DEF Cancel, AnswerInv, TypeOK, mainVars, execVars
<1>. QED
  BY <1>1, <1>2, <1>4

LEMMA CallAgainKeeps == ASSUME IInv, NEW j \in Jobs, CallAgain(j) PROVE IInv'
<1>. USE DEF IInv
<1>1. TypeOK'
  BY DEF CallAgain, TypeOK, mainVars, execVars
<1>2. ControlInv' /\ ReadyInv' /\ QueueLenCounts'
  BY ReadySame, CountSame DEF CallAgain, ControlInv, mainVars, execVars
<1>3. \A i \in Jobs : Held(i)' <=> Held(i)
  BY DEF CallAgain, Held, InPending, mainVars, execVars
<1>4. PlaceInv'
  BY <1>3 DEF CallAgain, PlaceInv, TypeOK, mainVars, execVars
<1>5. AnswerInv'
  <2>1. j \notin taken
    BY DEF CallAgain, Held
  <2>. QED
    BY <1>3, <2>1 DEF CallAgain, AnswerInv, TypeOK, mainVars, execVars
<1>. QED
  BY <1>1, <1>2, <1>4, <1>5

(***************************************************************************)
(* The environment.                                                        *)
(***************************************************************************)
LEMMA ExpireKeeps == ASSUME IInv, NEW b \in Batches, Expire(b) PROVE IInv'
<1>. USE DEF IInv
<1>1. TypeOK'
  BY DEF Expire, TypeOK, callerVars, mainVars, execVars
<1>2. ControlInv' /\ QueueLenCounts' /\ PlaceInv' /\ AnswerInv'
  BY CountSame, PlaceSame, AnswerSame
  DEF Expire, ControlInv, callerVars, mainVars, execVars
<1>3. ReadyInv'
  BY DEF Expire, ReadyInv, TypeOK, Present, callerVars, mainVars, execVars
<1>. QED
  BY <1>1, <1>2, <1>3

LEMMA CloseKeeps == ASSUME IInv, NEW x \in Gates, Close(x) PROVE IInv'
<1>. USE DEF IInv
<1>1. TypeOK'
  BY DEF Close, TypeOK, callerVars, mainVars, execVars
<1>2. ControlInv' /\ QueueLenCounts' /\ PlaceInv' /\ AnswerInv'
  BY CountSame, PlaceSame, AnswerSame
  DEF Close, ControlInv, callerVars, mainVars, execVars
<1>3. ReadyInv'
  BY DEF Close, ReadyInv, Present, callerVars, mainVars, execVars
<1>. QED
  BY <1>1, <1>2, <1>3

LEMMA StopKeeps == ASSUME IInv, StopScheduler PROVE IInv'
<1>. USE DEF IInv
<1>1. TypeOK'
  BY DEF StopScheduler, TypeOK, callerVars, mainVars, execVars
<1>2. /\ ControlInv' /\ QueueLenCounts' /\ PlaceInv' /\ AnswerInv'
      /\ ReadyInv'
  BY CountSame, PlaceSame, AnswerSame, ReadySame
  DEF StopScheduler, ControlInv, callerVars, mainVars, execVars
<1>. QED
  BY <1>1, <1>2

(***************************************************************************)
(* The main loop.                                                          *)
(***************************************************************************)
LEMMA TakePendingKeeps == ASSUME IInv, TakePending PROVE IInv'
<1>. USE DEF IInv
<1>1. /\ Len(pending) \in Nat \ {0}
      /\ Len(pending') = Len(pending) - 1
      /\ \A n \in 1..Len(pending') : pending'[n] = pending[n + 1]
      /\ pending' \in Seq(Jobs)
      /\ hand' = pending[1]
      /\ hand' \in Jobs
  BY DEF TakePending, TypeOK
<1>2. hand = None /\ None \notin Jobs
  BY SchedulerAssumption DEF TakePending, ControlInv
<1>3. TypeOK'
  <2>1. PendingCap \in Nat
    BY SchedulerAssumption
  <2>. QED
    BY <1>1, <2>1 DEF TakePending, TypeOK, callerVars, execVars
<1>4. ControlInv'
  BY <1>1, <1>2 DEF TakePending, ControlInv, callerVars, execVars
<1>5. \A i \in Jobs : Held(i)' <=> Held(i)
  <2>1. \A i \in Jobs : InPending(i)' => InPending(i)
    BY <1>1 DEF InPending
  <2>2. \A i \in Jobs : InPending(i) => InPending(i)' \/ i = hand'
    <3>1. SUFFICES ASSUME NEW i \in Jobs, NEW n \in 1..Len(pending), pending[n] = i
                   PROVE  InPending(i)' \/ i = hand'
      BY DEF InPending
    <3>2. CASE n = 1
      BY <1>1, <3>1, <3>2
    <3>3. CASE n # 1
      <4>1. n - 1 \in 1..Len(pending') /\ pending'[n - 1] = i
        BY <1>1, <3>1, <3>3
      <4>. QED
        BY <4>1 DEF InPending
    <3>. QED
      BY <3>2, <3>3
  <2>3. InPending(hand')
    BY <1>1 DEF InPending
  <2>. QED
    BY <1>2, <2>1, <2>2, <2>3 DEF TakePending, Held, execVars
<1>6. PlaceInv'
  <2>1. \A m, n \in 1..Len(pending') : pending'[m] = pending'[n] => m = n
    BY <1>1 DEF PlaceInv
  <2>2. \A n \in 1..Len(pending') :
          /\ pending'[n] # hand'
          /\ pending'[n] \notin taken
          /\ \A b \in Batches : pending'[n] \notin bins[b]
    BY <1>1 DEF PlaceInv
  <2>3. hand' \notin taken /\ \A b \in Batches : hand' \notin bins[b]
    BY <1>1 DEF PlaceInv
  <2>. QED
    BY <1>5, <2>1, <2>2, <2>3 DEF TakePending, PlaceInv, callerVars, execVars
<1>7. AnswerInv'
  BY <1>5 DEF TakePending, AnswerInv, callerVars, execVars
<1>8. ReadyInv' /\ QueueLenCounts'
  BY ReadySame, CountSame DEF TakePending, execVars
<1>. QED
  BY <1>3, <1>4, <1>6, <1>7, <1>8

\* The jobs QueueLenCounts counts.
Accepted == (UNION {bins[b] : b \in Batches}) \cup taken

LEMMA InAccepted ==
  ASSUME NEW i PROVE i \in Accepted <=> i \in taken \/ \E b \in Batches : i \in bins[b]
  BY DEF Accepted

LEMMA InAccepted2 ==
  ASSUME NEW i
  PROVE  i \in Accepted' <=> i \in taken' \/ \E b \in Batches : i \in bins'[b]
  BY DEF Accepted

LEMMA AcceptedFinite == ASSUME TypeOK PROVE IsFiniteSet(Accepted)
<1>1. Accepted \subseteq Jobs
  BY InAccepted DEF TypeOK
<1>. QED
  BY <1>1, FS_Subset, SchedulerAssumption

LEMMA AddJobKeeps == ASSUME IInv, AddJob PROVE IInv'
<1>. USE DEF IInv
<1>. DEFINE b == BatchOf[hand]
<1>1. /\ hand \in Jobs /\ b \in Batches /\ hand # None
      /\ mpc' \in {"ended", "select"}
  BY SchedulerAssumption DEF AddJob, ControlInv, TypeOK, LoopTop
<1>2. bins' = [bins EXCEPT ![b] = bins[b] \cup {hand}]
  BY DEF AddJob, Filed
<1>3. TypeOK'
  <2>1. interrupt' \in [Batches -> {"own", "fired"}]
    BY <1>1 DEF AddJob, TypeOK, NewInterrupt
  <2>2. timer' \in [Batches -> {"off", "armed", "ready"}]
    BY <1>1 DEF AddJob, TypeOK, NewTimer
  <2>3. interrupts' \subseteq Channels
    <3>1. NewChannel(b) \in Channels
      BY <1>1, SchedulerAssumption DEF NewChannel, Channels
    <3>. QED
      BY <3>1 DEF AddJob, TypeOK
  <2>4. queueLen' \in Nat
    BY DEF AddJob, TypeOK, Counted
  <2>5. bins' \in [Batches -> SUBSET Jobs]
    BY <1>1, <1>2 DEF TypeOK
  <2>. QED
    BY <1>1, <2>1, <2>2, <2>3, <2>4, <2>5 DEF AddJob, TypeOK, callerVars, execVars
<1>4. ControlInv'
  BY <1>1 DEF AddJob, ControlInv, callerVars, execVars
<1>5. \A i \in Jobs : Held(i)' <=> Held(i)
  <2>1. hand' = None /\ None \notin Jobs
    BY SchedulerAssumption DEF AddJob
  <2>. QED
    BY <1>1, <1>2, <2>1 DEF AddJob, Held, InPending, TypeOK, execVars
<1>6. PlaceInv'
  <2>1. hand' = None /\ None \notin Jobs
    BY SchedulerAssumption DEF AddJob
  <2>2. \A n \in 1..Len(pending) :
          /\ pending[n] \in Jobs
          /\ \A c \in Batches : pending[n] \notin bins'[c]
    BY <1>1, <1>2 DEF PlaceInv, TypeOK
  <2>3. \A c \in Batches : \A i \in bins'[c] : BatchOf[i] = c /\ i \notin taken
    BY <1>1, <1>2 DEF PlaceInv, TypeOK
  <2>4. hand' \notin taken /\ \A c \in Batches : hand' \notin bins'[c]
    BY <1>3, <2>1 DEF TypeOK
  <2>5. \A i \in Jobs : jpc[i] = "calling" => ~Held(i)'
    BY <1>5 DEF PlaceInv
  <2>6. UNCHANGED <<pending, jpc, taken>>
    BY DEF AddJob, callerVars, execVars
  <2>. QED
    BY <2>1, <2>2, <2>3, <2>4, <2>5, <2>6 DEF PlaceInv
<1>7. AnswerInv'
  BY <1>5 DEF AddJob, AnswerInv, callerVars, execVars
<1>8. ReadyInv'
  <2>1. event = None /\ None \notin Batches
    BY SchedulerAssumption DEF AddJob, ControlInv
  <2>2. \A c \in Batches :
          /\ Kind[c] # "timer" => timer'[c] = "off"
          /\ interrupt'[c] = "fired" => timer'[c] = "off"
          /\ Kind[c] \in Gates => interrupt'[c] = "own"
    BY <1>1, SchedulerAssumption
    DEF AddJob, ReadyInv, TypeOK, NewTimer, NewInterrupt
  <2>3. best # None => best \in Batches /\ bins'[best] # {}
    BY <1>1, <1>2 DEF ReadyInv, TypeOK
  <2>4. best # None => interrupt'[best] = interrupt[best]
    BY <1>1 DEF AddJob, ReadyInv, TypeOK
  <2>5. epc # "scan"
    BY DEF AddJob
  <2>. QED
    BY <2>1, <2>2, <2>3, <2>4, <2>5 DEF AddJob, ReadyInv, execVars
<1>9. QueueLenCounts'
  <2>1. Accepted' = Accepted \cup {hand} /\ hand \notin Accepted
    <3>1. taken' = taken
      BY DEF AddJob, execVars
    <3>2. hand \notin Accepted
      BY InAccepted DEF PlaceInv
    <3>3. \A i : i \in Accepted' <=> i \in Accepted \/ i = hand
      BY <1>1, <1>2, <3>1, InAccepted, InAccepted2 DEF TypeOK
    <3>. QED
      BY <3>2, <3>3
  <2>2. Cardinality(Accepted \cup {hand}) = Cardinality(Accepted) + 1
    BY <2>1, AcceptedFinite, FS_AddElement
  <2>. QED
    BY <2>1, <2>2 DEF QueueLenCounts, Accepted, AddJob, Counted
<1>. QED
  BY <1>3, <1>4, <1>6, <1>7, <1>8, <1>9

LEMMA SelectEventKeeps ==
  ASSUME IInv, NEW x \in Channels, SelectEvent(x) PROVE IInv'
<1>. USE DEF IInv
<1>1. TypeOK'
  BY DEF SelectEvent, TypeOK, callerVars, execVars
<1>2. ControlInv' /\ QueueLenCounts' /\ PlaceInv' /\ AnswerInv'
  BY CountSame, PlaceSame, AnswerSame
  DEF SelectEvent, ControlInv, callerVars, execVars
<1>3. ReadyInv'
  BY DEF SelectEvent, ReadyInv, TypeOK, Present, callerVars, execVars
<1>. QED
  BY <1>1, <1>2, <1>3

LEMMA BeginMatchKeeps == ASSUME IInv, BeginMatch PROVE IInv'
<1>. USE DEF IInv
<1>1. TypeOK'
  BY DEF BeginMatch, TypeOK, Present, callerVars, execVars
<1>2. /\ ControlInv' /\ QueueLenCounts' /\ PlaceInv' /\ AnswerInv'
      /\ ReadyInv'
  BY CountSame, PlaceSame, AnswerSame, ReadySame
  DEF BeginMatch, ControlInv, callerVars, execVars
<1>. QED
  BY <1>1, <1>2

\* The event of a timer is the event of its own bin only, and was received.
LEMMA MatchKeeps == ASSUME IInv, NEW b \in Batches, Match(b) PROVE IInv'
<1>. USE DEF IInv
<1>1. TypeOK'
  <2>1. ready' \in 0..ReadyCap
    BY SchedulerAssumption DEF Match, TypeOK
  <2>2. interrupt' \in [Batches -> {"own", "fired"}]
    BY DEF Match, TypeOK
  <2>. QED
    BY <2>1, <2>2 DEF Match, TypeOK, callerVars, execVars
<1>2. ControlInv' /\ QueueLenCounts' /\ PlaceInv' /\ AnswerInv'
  BY CountSame, PlaceSame, AnswerSame
  DEF Match, ControlInv, callerVars, execVars
<1>3. ReadyInv'
  <2>1. ASSUME Matches(b), event \in Batches
        PROVE  event = b /\ Kind[b] \notin Gates
    BY <2>1, SchedulerAssumption DEF Matches, Channel
  <2>. QED
    BY <2>1 DEF Match, ReadyInv, TypeOK, Present, callerVars, execVars
<1>. QED
  BY <1>1, <1>2, <1>3

LEMMA BeginRebuildKeeps == ASSUME IInv, BeginRebuild PROVE IInv'
<1>. USE DEF IInv
<1>1. TypeOK'
  BY DEF BeginRebuild, TypeOK, Present, callerVars, execVars
<1>2. ControlInv' /\ QueueLenCounts' /\ PlaceInv' /\ AnswerInv'
  BY CountSame, PlaceSame, AnswerSame
  DEF BeginRebuild, ControlInv, callerVars, execVars
<1>3. ReadyInv'
  BY SchedulerAssumption DEF BeginRebuild, ReadyInv, Present, callerVars, execVars
<1>. QED
  BY <1>1, <1>2, <1>3

\* What isReady does to the channel of a bin.
LEMMA DrainKeeps ==
  ASSUME IInv, NEW b \in Batches, Drain(b)
  PROVE  /\ timer' \in [Batches -> {"off", "armed", "ready"}]
         /\ interrupt' \in [Batches -> {"own", "fired"}]
         /\ \A c \in Batches :
              /\ timer[c] = "off" => timer'[c] = "off"
              /\ interrupt[c] = "fired" => interrupt'[c] = "fired"
              /\ interrupt'[c] = "fired" => timer'[c] = "off"
              /\ Kind[c] \in Gates => interrupt'[c] = "own"
              /\ Kind[c] # "timer" => timer'[c] = "off"
<1>1. CASE Drains(b)
  <2>1. timer[b] = "ready" /\ Kind[b] \notin Gates
    BY <1>1, SchedulerAssumption DEF Drains, IInv, ReadyInv, TypeOK
  <2>. QED
    BY <1>1, <2>1 DEF Drain, IInv, ReadyInv, TypeOK
<1>2. CASE ~Drains(b)
  BY <1>2 DEF Drain, IInv, ReadyInv, TypeOK
<1>. QED
  BY <1>1, <1>2

LEMMA ChannelType ==
  ASSUME TypeOK, NEW b \in Batches PROVE Channel(b) \in Channels
  BY SchedulerAssumption DEF Channel, Channels, TypeOK

LEMMA RebuildKeeps == ASSUME IInv, NEW b \in Batches, Rebuild(b) PROVE IInv'
<1>. USE DEF IInv
<1>1. Drain(b)
  BY DEF Rebuild
<1>2. TypeOK'
  BY <1>1, DrainKeeps, ChannelType DEF Rebuild, TypeOK, callerVars, execVars
<1>3. ControlInv' /\ QueueLenCounts' /\ PlaceInv' /\ AnswerInv'
  BY CountSame, PlaceSame, AnswerSame
  DEF Rebuild, ControlInv, callerVars, execVars
<1>4. ReadyInv'
  BY <1>1, DrainKeeps DEF Rebuild, ReadyInv, TypeOK, Present, callerVars, execVars
<1>. QED
  BY <1>2, <1>3, <1>4

LEMMA EndRebuildKeeps == ASSUME IInv, EndRebuild PROVE IInv'
<1>. USE DEF IInv
<1>1. TypeOK'
  BY DEF EndRebuild, LoopTop, TypeOK, callerVars, execVars
<1>2. /\ ControlInv' /\ QueueLenCounts' /\ PlaceInv' /\ AnswerInv'
      /\ ReadyInv'
  BY CountSame, PlaceSame, AnswerSame, ReadySame
  DEF EndRebuild, LoopTop, ControlInv, callerVars, execVars
<1>. QED
  BY <1>1, <1>2

LEMMA EndMainKeeps == ASSUME IInv, EndMain PROVE IInv'
<1>. USE DEF IInv
<1>1. TypeOK'
  BY DEF EndMain, TypeOK, callerVars, execVars
<1>2. /\ ControlInv' /\ QueueLenCounts' /\ PlaceInv' /\ AnswerInv'
      /\ ReadyInv'
  BY CountSame, PlaceSame, AnswerSame, ReadySame
  DEF EndMain, ControlInv, callerVars, execVars
<1>. QED
  BY <1>1, <1>2

(***************************************************************************)
(* The executing goroutine.                                                *)
(***************************************************************************)
LEMMA BeginScanKeeps == ASSUME IInv, BeginScan PROVE IInv'
<1>. USE DEF IInv
<1>1. TypeOK'
  <2>1. ready' \in 0..ReadyCap
    BY SchedulerAssumption DEF BeginScan, TypeOK
  <2>. QED
    BY <2>1 DEF BeginScan, TypeOK, Present, callerVars, mainVars
<1>2. ControlInv' /\ QueueLenCounts' /\ PlaceInv' /\ AnswerInv'
  BY CountSame, PlaceSame, AnswerSame
  DEF BeginScan, ControlInv, callerVars, mainVars
<1>3. ReadyInv'
  BY DEF BeginScan, ReadyInv, Present, mainVars
<1>. QED
  BY <1>1, <1>2, <1>3

LEMMA ScanKeeps == ASSUME IInv, NEW b \in Batches, Scan(b) PROVE IInv'
<1>. USE DEF IInv
<1>1. Drain(b)
  BY DEF Scan
<1>2. TypeOK'
  BY <1>1, DrainKeeps DEF Scan, TypeOK, callerVars
<1>3. ControlInv' /\ QueueLenCounts' /\ PlaceInv' /\ AnswerInv'
  BY CountSame, PlaceSame, AnswerSame DEF Scan, ControlInv, callerVars
<1>4. ReadyInv'
  <2>1. bins[b] # {}
    BY DEF Scan, ReadyInv, Present
  <2>2. ASSUME IsReady(b), Kind[b] = "timer" PROVE interrupt'[b] = "fired"
    <3>1. CASE Drains(b)
      BY <1>1, <3>1 DEF Drain, TypeOK
    <3>2. CASE ~Drains(b)
      BY <1>1, <2>2, <3>2, SchedulerAssumption
      DEF Drain, Drains, IsReady, Fires, Channel, TypeOK
    <3>. QED
      BY <3>1, <3>2
  <2>3. ASSUME IsReady(b), Kind[b] \in Gates PROVE Kind[b] \in closed
    BY <2>3, SchedulerAssumption DEF IsReady, Fires, Channel, ReadyInv
  <2>4. ASSUME best' # None
        PROVE  /\ best' \in Batches /\ bins[best'] # {}
               /\ Kind[best'] = "timer" => interrupt'[best'] = "fired"
               /\ Kind[best'] \in Gates => Kind[best'] \in closed
    <3>1. CASE best' = b /\ IsReady(b)
      BY <2>1, <2>2, <2>3, <3>1
    <3>2. CASE best' = best
      BY <1>1, <2>4, <3>2, DrainKeeps DEF ReadyInv, TypeOK
    <3>. QED
      BY <3>1, <3>2 DEF Scan
  <2>5. UNCHANGED <<event, epc, bins, closed>>
    BY DEF Scan
  <2>6. scan' \subseteq Present'
    BY <2>5 DEF Scan, ReadyInv, Present
  <2>. QED
    BY <1>1, <2>4, <2>5, <2>6, DrainKeeps DEF ReadyInv, TypeOK
<1>. QED
  BY <1>2, <1>3, <1>4

LEMMA EndScanKeeps == ASSUME IInv, EndScan PROVE IInv'
<1>. USE DEF IInv
<1>1. TypeOK'
  BY DEF EndScan, TypeOK, callerVars, mainVars
<1>2. ControlInv' /\ QueueLenCounts' /\ PlaceInv' /\ AnswerInv'
  BY CountSame, PlaceSame, AnswerSame
  DEF EndScan, ControlInv, callerVars, mainVars
<1>3. ReadyInv'
  BY DEF EndScan, ReadyInv, mainVars
<1>. QED
  BY <1>1, <1>2, <1>3

LEMMA WakeUpKeeps == ASSUME IInv, WakeUp PROVE IInv'
<1>. USE DEF IInv
<1>1. TypeOK'
  <2>1. ready' \in 0..ReadyCap
    BY SchedulerAssumption DEF WakeUp, TypeOK
  <2>. QED
    BY <2>1 DEF WakeUp, TypeOK, callerVars, mainVars
<1>2. ControlInv' /\ QueueLenCounts' /\ PlaceInv' /\ AnswerInv'
  BY CountSame, PlaceSame, AnswerSame
  DEF WakeUp, ControlInv, callerVars, mainVars
<1>3. ReadyInv'
  BY DEF WakeUp, ReadyInv, mainVars
<1>. QED
  BY <1>1, <1>2, <1>3

LEMMA EndExecKeeps == ASSUME IInv, EndExec PROVE IInv'
<1>. USE DEF IInv
<1>1. TypeOK'
  BY DEF EndExec, TypeOK, callerVars, mainVars
<1>2. ControlInv' /\ QueueLenCounts' /\ PlaceInv' /\ AnswerInv'
  BY CountSame, PlaceSame, AnswerSame
  DEF EndExec, ControlInv, callerVars, mainVars
<1>3. ReadyInv'
  BY DEF EndExec, ReadyInv, mainVars
<1>. QED
  BY <1>1, <1>2, <1>3

\* The jobs of the deleted bin are all taken over: nothing is added to the bin
\* between its deletion and its execution.
LEMMA DeleteKeeps == ASSUME IInv, Delete PROVE IInv'
<1>. USE DEF IInv
<1>1. best \in Batches /\ taken = {} /\ taken' = bins[best]
  BY DEF Delete, ControlInv, TypeOK
<1>2. \A c \in Batches : bins'[c] = IF c = best THEN {} ELSE bins[c]
  BY <1>1 DEF Delete, TypeOK
<1>3. TypeOK'
  BY <1>1 DEF Delete, Executables, TypeOK, callerVars, mainVars
<1>4. ControlInv'
  BY DEF Delete, ControlInv, mainVars
<1>5. \A i \in Jobs : Held(i)' <=> Held(i)
  BY <1>1, <1>2 DEF Delete, Held, InPending, mainVars
<1>6. PlaceInv'
  <2>1. \A c \in Batches : \A i \in bins'[c] : BatchOf[i] = c /\ i \notin taken'
    BY <1>1, <1>2 DEF PlaceInv
  <2>2. hand \notin taken' /\ \A c \in Batches : hand \notin bins'[c]
    BY <1>1, <1>2 DEF PlaceInv
  <2>3. \A n \in 1..Len(pending) :
          /\ pending[n] \notin taken'
          /\ \A c \in Batches : pending[n] \notin bins'[c]
    BY <1>1, <1>2 DEF PlaceInv
  <2>. QED
    BY <1>5, <2>1, <2>2, <2>3 DEF Delete, PlaceInv, callerVars, mainVars
<1>7. AnswerInv'
  BY <1>5 DEF Delete, Executables, AnswerInv, callerVars, mainVars
<1>8. ReadyInv'
  BY <1>1, <1>2 DEF Delete, ReadyInv, TypeOK, callerVars, mainVars
<1>9. QueueLenCounts'
  <2>1. Accepted' = Accepted
    BY <1>1, <1>2, InAccepted, InAccepted2
  <2>. QED
    BY <2>1 DEF QueueLenCounts, Accepted, Delete
<1>. QED
  BY <1>3, <1>4, <1>6, <1>7, <1>8, <1>9

LEMMA SendResultKeeps == ASSUME IInv, NEW j \in Jobs, SendResult(j) PROVE IInv'
<1>. USE DEF IInv
<1>1. TypeOK'
  BY DEF SendResult, TypeOK, mainVars
<1>2. ControlInv' /\ QueueLenCounts' /\ PlaceInv' /\ ReadyInv'
  BY CountSame, PlaceSame, ReadySame DEF SendResult, ControlInv, mainVars
<1>3. \A i \in Jobs : Held(i)' <=> Held(i)
  BY DEF SendResult, Held, InPending, mainVars
<1>4. AnswerInv'
  BY <1>3 DEF SendResult, AnswerInv, TypeOK, mainVars
<1>. QED
  BY <1>1, <1>2, <1>4

LEMMA ReplayFailsKeeps == ASSUME IInv, ReplayFails PROVE IInv'
<1>. USE DEF IInv
<1>1. TypeOK'
  BY DEF ReplayFails, TypeOK, callerVars, mainVars
<1>2. ControlInv' /\ QueueLenCounts' /\ PlaceInv'
  BY CountSame, PlaceSame DEF ReplayFails, ControlInv, callerVars, mainVars
<1>3. ReadyInv'
  BY DEF ReplayFails, ReadyInv, mainVars
<1>4. \A i \in Jobs : Held(i)' <=> Held(i)
  BY DEF ReplayFails, Held, InPending, mainVars
<1>5. AnswerInv'
  BY <1>4 DEF ReplayFails, AnswerInv, callerVars, mainVars
<1>. QED
  BY <1>1, <1>2, <1>3, <1>5

\* Whoever is dropped from the scheduler has its result, was cancelled or was
\* left without an answer by the replay, and was counted.
LEMMA EndReplayKeeps == ASSUME IInv, EndReplay PROVE IInv'
<1>. USE DEF IInv
<1>1. taken' = {} /\ UNCHANGED <<bins, pending, hand>>
  BY DEF EndReplay, mainVars
<1>2. QueueLenCounts' /\ queueLen' \in Nat
  <2>1. taken \subseteq Accepted /\ Accepted' = Accepted \ taken
    BY <1>1, InAccepted, InAccepted2 DEF PlaceInv
  <2>2. IsFiniteSet(Accepted) /\ IsFiniteSet(taken) /\ IsFiniteSet(Accepted')
    BY <2>1, AcceptedFinite, FS_Subset, FS_Difference
  <2>3. Cardinality(Accepted') = Cardinality(Accepted) - Cardinality(Accepted \cap taken)
    BY <2>1, <2>2, FS_Difference
  <2>4. Accepted \cap taken = taken
    BY <2>1
  <2>5. /\ Cardinality(Accepted) \in Nat /\ Cardinality(taken) \in Nat
        /\ Cardinality(Accepted') \in Nat
    BY <2>2, FS_CardinalityType
  <2>6. queueLen' = Cardinality(Accepted')
    BY <2>3, <2>4 DEF EndReplay, FinishedJobs, QueueLenCounts, Accepted
  <2>. QED
    BY <2>5, <2>6 DEF QueueLenCounts, Accepted
<1>3. TypeOK'
  BY <1>2 DEF EndReplay, TypeOK, callerVars, mainVars
<1>4. ControlInv'
  BY DEF EndReplay, ControlInv, mainVars
<1>5. \A i \in Jobs : Held(i) => Held(i)' \/ i \in taken
  BY <1>1 DEF Held, InPending
<1>6. \A i \in Jobs : Held(i)' => Held(i)
  BY <1>1 DEF Held, InPending
<1>7. PlaceInv'
  BY <1>1, <1>6 DEF EndReplay, PlaceInv, callerVars
<1>8. AnswerInv'
  BY <1>5 DEF EndReplay, AnswerInv, TypeOK, callerVars
<1>9. ReadyInv'
  BY DEF EndReplay, ReadyInv, ControlInv, mainVars
<1>. QED
  BY <1>2, <1>3, <1>4, <1>7, <1>8, <1>9

-----------------------------------------------------------------------------
LEMMA InitIInv == Init => IInv
<1>. SUFFICES ASSUME Init PROVE IInv
  OBVIOUS
<1>1. TypeOK
  <2>1. pending \in Seq(Jobs) /\ Len(pending) <= PendingCap
    BY SchedulerAssumption DEF Init
  <2>2. ready \in 0..ReadyCap /\ out \in [Jobs -> 0..1]
    BY SchedulerAssumption DEF Init
  <2>3. /\ jpc \in [Jobs -> {"calling", "await", "returned", "left"}]
        /\ timer \in [Batches -> {"off", "armed", "ready"}]
        /\ bins \in [Batches -> SUBSET Jobs]
        /\ interrupt \in [Batches -> {"own", "fired"}]
    BY DEF Init
  <2>. QED
    BY <2>1, <2>2, <2>3 DEF Init, TypeOK
<1>2. ControlInv /\ ReadyInv
  BY SchedulerAssumption DEF Init, ControlInv, ReadyInv
<1>3. \A i \in Jobs : ~Held(i)
  BY SchedulerAssumption DEF Init, Held, InPending
<1>4. PlaceInv /\ AnswerInv
  BY <1>3 DEF Init, PlaceInv, AnswerInv
<1>5. QueueLenCounts
  <2>1. Accepted = {}
    BY InAccepted DEF Init
  <2>. QED
    BY <2>1, FS_EmptySet DEF Init, QueueLenCounts, Accepted
<1>. QED
  BY <1>1, <1>2, <1>4, <1>5 DEF IInv

LEMMA NextIInv == IInv /\ [Next]_vars => IInv'
<1>. SUFFICES ASSUME IInv, [Next]_vars PROVE IInv'
  OBVIOUS
<1>1. ASSUME NEW j \in Jobs, Caller(j) \/ Client(j) PROVE IInv'
  BY <1>1, SubmitKeeps, ReceiveKeeps, GiveUpKeeps, CancelKeeps, CallAgainKeeps
  DEF Caller, Client
<1>2. CASE Environment
  BY <1>2, ExpireKeeps, CloseKeeps, StopKeeps DEF Environment
<1>3. CASE Main
  BY <1>3, TakePendingKeeps, AddJobKeeps, SelectEventKeeps, BeginMatchKeeps,
     MatchKeeps, BeginRebuildKeeps, RebuildKeeps, EndRebuildKeeps, EndMainKeeps
  DEF Main
<1>4. CASE Exec
  BY <1>4, BeginScanKeeps, ScanKeeps, EndScanKeeps, WakeUpKeeps, EndExecKeeps,
     DeleteKeeps, SendResultKeeps, ReplayFailsKeeps, EndReplayKeeps
  DEF Exec
<1>5. CASE UNCHANGED vars
  <2>1. TypeOK'
    BY <1>5 DEF IInv, TypeOK, vars, callerVars, mainVars, execVars
  <2>2. /\ ControlInv' /\ QueueLenCounts' /\ PlaceInv' /\ AnswerInv'
        /\ ReadyInv'
    BY <1>5, CountSame, PlaceSame, AnswerSame, ReadySame
    DEF IInv, ControlInv, vars, callerVars, mainVars, execVars
  <2>. QED
    BY <2>1, <2>2 DEF IInv
<1>. QED
  BY <1>1, <1>2, <1>3, <1>4, <1>5 DEF Next

\* The inductive invariant holds throughout.
THEOREM Invariance == Spec => []IInv
<1>. QED
  BY InitIInv, NextIInv, PTL DEF Spec

\* Type correctness: out never holds more than the one result it has room for,
\* and queueLen, an unsigned integer in the code, never wraps below zero.
THEOREM TypeCorrect == Spec => []TypeOK
<1>1. IInv => TypeOK
  BY DEF IInv
<1>. QED
  BY <1>1, Invariance, PTL

\* NumTasksQueued is the number of jobs in the bins and in the running replay
\* (scheduler.go 83, 153, 195).
THEOREM QueueIsCounted == Spec => []QueueLenCounts
<1>1. IInv => QueueLenCounts
  BY DEF IInv
<1>. QED
  BY <1>1, Invariance, PTL

\* A bin is executed only once its own precondition is satisfied (scheduler.go
\* 170-176 and 258-270).
THEOREM BinsRunInTime == Spec => []NeverEarly
<1>1. IInv => NeverEarly
  BY DEF IInv, NeverEarly, ControlInv, ReadyInv, TypeOK
<1>. QED
  BY <1>1, Invariance, PTL

\* Counting the places of a job: at most one value of a one-to-one sequence.
LEMMA AtMostOne ==
  ASSUME NEW S, \A x, y \in S : x = y
  PROVE  /\ IsFiniteSet(S)
         /\ Cardinality(S) \in 0..1
         /\ Cardinality(S) = 1 => S # {}
<1>1. CASE S = {}
  BY <1>1, FS_EmptySet
<1>2. CASE S # {}
  <2>1. PICK x : x \in S
    BY <1>2
  <2>2. S = {x}
    BY <2>1
  <2>. QED
    BY <2>2, FS_Singleton
<1>. QED
  BY <1>1, <1>2

\* No job is lost and none is in two places, while bins are deleted by one
\* goroutine and filled by the other (scheduler.go 134-154 and 189-195).
THEOREM JobsAreKept == Spec => []NoJobLost
<1>1. ASSUME IInv, NEW j \in Jobs
      PROVE  /\ jpc[j] = "await" /\ out[j] = 0 /\ j \notin cancelled => Held(j) \/ j \in unanswered
             /\ \A b \in Batches : j \in bins[b] => b = BatchOf[j]
    BY <1>1 DEF IInv, AnswerInv, PlaceInv
<1>2. ASSUME IInv, NEW j \in Jobs
      PROVE  Cardinality({n \in 1..Len(pending) : pending[n] = j})
             + (IF hand = j THEN 1 ELSE 0)
             + Cardinality({b \in Batches : j \in bins[b]})
             + (IF j \in taken THEN 1 ELSE 0) <= 1
  <2>. DEFINE P == {n \in 1..Len(pending) : pending[n] = j}
              B == {b \in Batches : j \in bins[b]}
  <2>1. \A x, y \in P : x = y
    BY <1>2 DEF IInv, PlaceInv
  <2>2. \A x, y \in B : x = y
    BY <1>2 DEF IInv, PlaceInv
  <2>3. /\ Cardinality(P) \in 0..1 /\ (Cardinality(P) = 1 => P # {})
        /\ Cardinality(B) \in 0..1 /\ (Cardinality(B) = 1 => B # {})
    BY <2>1, <2>2, AtMostOne
  <2>4. P # {} => hand # j /\ j \notin taken /\ B = {}
    BY <1>2 DEF IInv, PlaceInv
  <2>5. hand = j => j \notin taken /\ B = {}
    BY <1>2 DEF IInv, PlaceInv
  <2>6. B # {} => j \notin taken
    BY <1>2 DEF IInv, PlaceInv
  <2>. HIDE DEF P, B
  <2>7. Cardinality(P) + (IF hand = j THEN 1 ELSE 0) + Cardinality(B)
        + (IF j \in taken THEN 1 ELSE 0) <= 1
    BY <2>3, <2>4, <2>5, <2>6
  <2>. QED
    BY <2>7 DEF P, B
<1>3. IInv => NoJobLost
  BY <1>1, <1>2 DEF NoJobLost
<1>. QED
  BY <1>3, Invariance, PTL

-----------------------------------------------------------------------------
(***************************************************************************)
(* The first answer of a call finds room: a call that has a result is in   *)
(* no place from which it could be executed.                               *)
(***************************************************************************)
Waiting(j) ==
  \/ jpc[j] = "calling"
  \/ InPending(j)
  \/ hand = j
  \/ \E b \in Batches : j \in bins[b]
  \/ epc = "run" /\ j \in taken \ sent

FreshInv == \A j \in Jobs : Waiting(j) => out[j] = 0

\* Steps that leave the calls, or the jobs, where they are.
LEMMA FreshSame ==
  ASSUME FreshInv, UNCHANGED <<pending, hand, bins, taken, out, sent, jpc>>, epc' = "run" => epc = "run"
  PROVE  FreshInv'
  BY DEF FreshInv, Waiting, InPending

LEMMA CallerFresh ==
  ASSUME IInv, FreshInv, NEW j \in Jobs, Caller(j) \/ Client(j)
  PROVE  FreshInv'
<1>. USE DEF IInv
<1>1. CASE Submit(j)
  <2>1. \A i \in Jobs : InPending(i)' => InPending(i) \/ i = j
    BY <1>1 DEF Submit, InPending, TypeOK
  <2>. QED
    BY <1>1, <2>1 DEF Submit, FreshInv, Waiting, TypeOK, mainVars, execVars
<1>2. CASE Receive(j)
  BY <1>2 DEF Receive, FreshInv, Waiting, InPending, TypeOK, mainVars, execVars
<1>3. CASE GiveUp(j)
  BY <1>3 DEF GiveUp, FreshInv, Waiting, InPending, TypeOK, mainVars, execVars
<1>4. CASE Cancel(j)
  BY <1>4, FreshSame DEF Cancel, mainVars, execVars
<1>5. CASE CallAgain(j)
  BY <1>5 DEF CallAgain, FreshInv, Waiting, InPending, TypeOK, mainVars, execVars
<1>. QED
  BY <1>1, <1>2, <1>3, <1>4, <1>5 DEF Caller, Client

LEMMA TakeFresh ==
  ASSUME IInv, FreshInv, TakePending
  PROVE  FreshInv'
<1>. USE DEF IInv
<1>1. /\ Len(pending) \in Nat \ {0}
      /\ Len(pending') = Len(pending) - 1
      /\ \A n \in 1..Len(pending') : pending'[n] = pending[n + 1]
      /\ hand' = pending[1]
  BY DEF TakePending, TypeOK
<1>2. \A i \in Jobs : InPending(i)' \/ hand' = i => InPending(i)
  BY <1>1 DEF InPending
<1>. QED
  BY <1>2 DEF TakePending, FreshInv, Waiting, callerVars, execVars

LEMMA AddFresh ==
  ASSUME IInv, FreshInv, AddJob
  PROVE  FreshInv'
<1>. USE DEF IInv
<1>1. hand \in Jobs /\ BatchOf[hand] \in Batches /\ None \notin Jobs /\ hand' = None
  BY SchedulerAssumption DEF AddJob, ControlInv, TypeOK
<1>2. bins' = [bins EXCEPT ![BatchOf[hand]] = bins[BatchOf[hand]] \cup {hand}]
  BY DEF AddJob, Filed
<1>3. \A i \in Jobs : (\E b \in Batches : i \in bins'[b]) => hand = i \/ \E b \in Batches : i \in bins[b]
  BY <1>1, <1>2 DEF TypeOK
<1>. QED
  BY <1>1, <1>3 DEF AddJob, FreshInv, Waiting, InPending, callerVars, execVars

LEMMA MainFresh ==
  ASSUME IInv, FreshInv, Main
  PROVE  FreshInv'
<1>1. CASE \E x \in Channels : SelectEvent(x)
  BY <1>1, FreshSame DEF SelectEvent, callerVars, execVars
<1>2. CASE BeginMatch \/ BeginRebuild \/ EndRebuild \/ EndMain
  BY <1>2, FreshSame DEF BeginMatch, BeginRebuild, EndRebuild, EndMain, callerVars, execVars
<1>3. CASE \E b \in Batches : Match(b) \/ Rebuild(b)
  BY <1>3, FreshSame DEF Match, Rebuild, callerVars, execVars
<1>. QED
  BY <1>1, <1>2, <1>3, TakeFresh, AddFresh DEF Main

LEMMA ExecFresh ==
  ASSUME IInv, FreshInv, Exec
  PROVE  FreshInv'
<1>. USE DEF IInv
<1>1. CASE BeginScan \/ EndScan \/ WakeUp \/ EndExec
  BY <1>1, FreshSame DEF BeginScan, EndScan, WakeUp, EndExec, callerVars, mainVars
<1>2. CASE \E b \in Batches : Scan(b)
  BY <1>2, FreshSame DEF Scan, callerVars
<1>3. CASE Delete
  <2>1. best \in Batches /\ taken' = bins[best]
    BY <1>3 DEF Delete, ControlInv, TypeOK
  <2>2. \A c \in Batches : bins'[c] \subseteq bins[c]
    BY <1>3, <2>1 DEF Delete, TypeOK
  <2>. QED
    BY <1>3, <2>1, <2>2 DEF Delete, FreshInv, Waiting, InPending, callerVars, mainVars
<1>4. CASE ReplayFails
  BY <1>4 DEF ReplayFails, FreshInv, Waiting, InPending, callerVars, mainVars
<1>5. CASE EndReplay
  BY <1>5 DEF EndReplay, FreshInv, Waiting, InPending, callerVars, mainVars
<1>6. CASE \E j \in Jobs : SendResult(j)
  <2>1. PICK j \in Jobs : SendResult(j)
    BY <1>6
  <2>2. j \in taken /\ j \in sent' /\ \A i \in Jobs \ {j} : out'[i] = out[i]
    BY <2>1 DEF SendResult, TypeOK
  <2>3. ~InPending(j) /\ hand # j /\ \A b \in Batches : j \notin bins[b]
    BY <2>2 DEF PlaceInv, InPending
  <2>4. jpc[j] # "calling"
    BY <2>2 DEF PlaceInv, Held
  <2>5. \A i \in Jobs : Waiting(i)' => Waiting(i) /\ i # j
    BY <2>1, <2>2, <2>3, <2>4 DEF SendResult, Waiting, InPending, mainVars
  <2>. QED
    BY <2>2, <2>5 DEF FreshInv
<1>. QED
  BY <1>1, <1>2, <1>3, <1>4, <1>5, <1>6 DEF Exec

\* The first answer never blocks, whatever callers cancel and call again
\* (scheduler.go 93 makes the out channel with room for one result).
THEOREM FirstAnswerNeverBlocks == Spec => []FirstAnswerFits
<1>1. Init => FreshInv
  BY DEF Init, FreshInv
<1>2. IInv /\ FreshInv /\ [Next]_vars => FreshInv'
  <2>. SUFFICES ASSUME IInv, FreshInv, [Next]_vars PROVE FreshInv'
    OBVIOUS
  <2>1. CASE Environment
    BY <2>1, FreshSame DEF Environment, Expire, Close, StopScheduler, callerVars, mainVars, execVars
  <2>2. CASE UNCHANGED vars
    BY <2>2, FreshSame DEF vars, callerVars, mainVars, execVars
  <2>. QED
    BY <2>1, <2>2, CallerFresh, MainFresh, ExecFresh DEF Next
<1>3. IInv /\ FreshInv => FirstAnswerFits
  BY DEF IInv, TypeOK, FreshInv, Waiting, FirstAnswerFits
<1>. QED
  BY <1>1, <1>2, <1>3, Invariance, PTL DEF Spec

-----------------------------------------------------------------------------
(***************************************************************************)
(* No wake-up is lost while every batch has a timer.  The main loop also   *)
(* takes expired timers while it rebuilds its list, and says so to nobody: *)
(* that is harmless because it has just matched an event, the matched bin  *)
(* is still there, and it has woken the executing goroutine for it.  With  *)
(* bins that have no precondition or a gate, the bin of the event may be   *)
(* gone by then, and the wake-up with it.                                  *)
(***************************************************************************)
AllTimers == \A b \in Batches : Kind[b] = "timer"

\* The executing goroutine has yet to look at the bins, or has found one.
Awake ==
  \/ ready > 0
  \/ epc \in {"top", "lock", "run", "fail", "ended"}
  \/ epc = "scan" /\ (best # None \/ \E b \in scan : interrupt[b] = "fired")

\* The main loop listens to the timer of every bin whose timer it has not seen.
ListenInv ==
  /\ interrupts \subseteq Batches
  /\ \A b \in Present :
       interrupt[b] = "own" => b \in interrupts \/ (mpc = "rebuild" /\ b \in visit)

\* Timers belong to bins; the bin whose event is handled stays until it was
\* matched, and a matched bin stays while the list is rebuilt.
EventInv ==
  /\ \A b \in Batches : timer[b] # "off" => b \in Present
  /\ mpc = "event" => event \in Present /\ interrupt[event] = "own"
  /\ mpc = "match" => event \in Present /\ (event \in visit \/ interrupt[event] = "fired")
  /\ mpc = "rebuild" => \E b \in Present : interrupt[b] = "fired"

\* The executing goroutine has been told of every bin that is ready.
SignalInv == (\E b \in Present : interrupt[b] = "fired") => Awake

WakeInv == ListenInv /\ EventInv /\ SignalInv

LEMMA WakeSame ==
  ASSUME WakeInv,
         UNCHANGED <<ready, epc, best, scan, interrupt, interrupts, bins, mpc, visit, timer, event>>
  PROVE  WakeInv'
  BY DEF WakeInv, ListenInv, EventInv, SignalInv, Awake, Present

\* With timers only, a bin's own channel is its timer.
LEMMA OwnChannel ==
  ASSUME AllTimers, TypeOK, NEW b \in Batches
  PROVE  /\ interrupt[b] = "own" => Channel(b) = b
         /\ interrupt[b] = "fired" => Channel(b) = "fired"
         /\ interrupt[b] \in {"own", "fired"}
         /\ b # "fired" /\ b \notin closed
  BY SchedulerAssumption DEF AllTimers, Channel, TypeOK

LEMMA ExpireWakes == ASSUME WakeInv, NEW b \in Batches, Expire(b) PROVE WakeInv'
<1>1. \A c \in Batches : timer'[c] # "off" => timer[c] # "off"
  BY DEF Expire
<1>2. UNCHANGED <<ready, epc, best, scan, interrupt, interrupts, bins, mpc, visit, event>>
  BY DEF Expire, mainVars, execVars
<1>. QED
  BY <1>1, <1>2 DEF WakeInv, ListenInv, EventInv, SignalInv, Awake, Present

LEMMA TakePendingWakes == ASSUME WakeInv, TakePending PROVE WakeInv'
  BY DEF TakePending, execVars, WakeInv, ListenInv, EventInv, SignalInv, Awake, Present

LEMMA AddJobWakes == ASSUME AllTimers, IInv, WakeInv, AddJob PROVE WakeInv'
<1>. DEFINE b == BatchOf[hand]
<1>1. /\ mpc = "add" /\ mpc' \in {"ended", "select"} /\ b \in Batches /\ hand \in Jobs
      /\ bins' = [bins EXCEPT ![b] = bins[b] \cup {hand}]
      /\ UNCHANGED <<ready, epc, best, scan, visit, event>>
  BY SchedulerAssumption DEF AddJob, Filed, LoopTop, execVars, IInv, TypeOK, ControlInv
<1>2. Present' = Present \cup {b}
  BY <1>1 DEF Present, IInv, TypeOK
<1>3. CASE bins[b] = {}
  <2>1. /\ interrupt' = [interrupt EXCEPT ![b] = "own"]
        /\ timer' = [timer EXCEPT ![b] = "armed"]
        /\ interrupts' = interrupts \cup {b}
    BY <1>1, <1>3 DEF AddJob, NewInterrupt, NewTimer, NewChannel, AllTimers
  <2>2. b \notin Present
    BY <1>3 DEF Present
  <2>3. ListenInv'
    BY <1>1, <1>2, <2>1, <2>2 DEF WakeInv, ListenInv, IInv, TypeOK, Present
  <2>4. EventInv'
    BY <1>1, <1>2, <2>1 DEF WakeInv, EventInv, IInv, TypeOK
  <2>5. \A c \in Present' : interrupt'[c] = "fired" => c \in Present /\ interrupt[c] = "fired"
    BY <1>2, <2>1 DEF IInv, TypeOK, Present
  <2>6. b \notin scan \/ epc # "scan"
    BY <2>2 DEF IInv, ReadyInv
  <2>7. SignalInv'
    BY <1>1, <2>1, <2>5, <2>6 DEF WakeInv, SignalInv, Awake, IInv, TypeOK
  <2>. QED
    BY <2>3, <2>4, <2>7 DEF WakeInv
<1>4. CASE bins[b] # {}
  <2>1. UNCHANGED <<interrupt, timer, interrupts>>
    BY <1>4 DEF AddJob
  <2>2. Present' = Present
    BY <1>1, <1>2, <1>4 DEF Present
  <2>. QED
    BY <1>1, <2>1, <2>2 DEF WakeInv, ListenInv, EventInv, SignalInv, Awake
<1>. QED
  BY <1>3, <1>4

LEMMA SelectEventWakes ==
  ASSUME AllTimers, IInv, WakeInv, NEW x \in Channels, SelectEvent(x) PROVE WakeInv'
<1>1. /\ x \in Batches /\ timer[x] = "ready"
      /\ mpc = "select" /\ mpc' = "event" /\ event' = x
      /\ timer' = [timer EXCEPT ![x] = "off"]
      /\ UNCHANGED <<ready, epc, best, scan, interrupt, interrupts, bins, visit>>
  BY OwnChannel DEF SelectEvent, Fires, execVars, IInv, WakeInv, ListenInv
<1>2. x \in Present /\ interrupt[x] = "own"
  BY <1>1 DEF WakeInv, EventInv, IInv, ReadyInv, TypeOK
<1>3. EventInv'
  BY <1>1, <1>2 DEF WakeInv, EventInv, Present, IInv, TypeOK
<1>. QED
  BY <1>1, <1>3 DEF WakeInv, ListenInv, SignalInv, Awake, Present

LEMMA BeginMatchWakes == ASSUME WakeInv, BeginMatch PROVE WakeInv'
  BY DEF BeginMatch, execVars, WakeInv, ListenInv, EventInv, SignalInv, Awake, Present

LEMMA MatchWakes ==
  ASSUME AllTimers, IInv, WakeInv, NEW b \in Batches, Match(b) PROVE WakeInv'
<1>1. /\ mpc = "match" /\ b \in visit /\ visit' = visit \ {b} /\ event \in Present
      /\ UNCHANGED <<epc, best, scan, interrupts, bins, mpc, timer, event>>
  BY DEF Match, execVars, WakeInv, EventInv
<1>2. event \in Batches /\ Present' = Present
  BY <1>1 DEF Present
<1>3. CASE Matches(b)
  <2>1. b = event
    BY <1>2, <1>3, OwnChannel DEF Matches, IInv
  <2>2. ready' = ready + 1 /\ interrupt' = [interrupt EXCEPT ![b] = "fired"]
    BY <1>2, <1>3 DEF Match
  <2>3. ready' > 0
    BY <2>2, SchedulerAssumption DEF IInv, TypeOK
  <2>4. \A c \in Batches : interrupt'[c] = "own" => interrupt[c] = "own"
    BY <2>2 DEF IInv, TypeOK
  <2>5. interrupt'[event] = "fired"
    BY <1>2, <2>1, <2>2 DEF IInv, TypeOK
  <2>6. ListenInv'
    BY <1>1, <1>2, <2>4 DEF WakeInv, ListenInv, Present
  <2>7. EventInv'
    BY <1>1, <1>2, <2>5 DEF WakeInv, EventInv
  <2>. QED
    BY <2>3, <2>6, <2>7 DEF WakeInv, SignalInv, Awake
<1>4. CASE ~Matches(b)
  <2>1. UNCHANGED <<ready, interrupt>>
    BY <1>4 DEF Match
  <2>2. b = event => interrupt[event] = "fired"
    BY <1>4, OwnChannel DEF Matches, IInv
  <2>3. EventInv'
    BY <1>1, <1>2, <2>1, <2>2 DEF WakeInv, EventInv
  <2>. QED
    BY <1>1, <1>2, <2>1, <2>3 DEF WakeInv, ListenInv, SignalInv, Awake
<1>. QED
  BY <1>3, <1>4

LEMMA BeginRebuildWakes == ASSUME WakeInv, BeginRebuild PROVE WakeInv'
<1>1. /\ mpc = "match" /\ visit = {} /\ mpc' = "rebuild" /\ visit' = Present
      /\ interrupts' = {}
      /\ UNCHANGED <<ready, epc, best, scan, interrupt, bins, timer>>
  BY DEF BeginRebuild, execVars
<1>. QED
  BY <1>1 DEF WakeInv, ListenInv, EventInv, SignalInv, Awake, Present

\* What isReady does to the bin of b, for both goroutines.
LEMMA DrainEffect ==
  ASSUME AllTimers, IInv, NEW b \in Batches, Drain(b)
  PROVE  /\ \A c \in Batches : timer'[c] # "off" => timer[c] # "off"
         /\ \A c \in Batches : interrupt[c] = "fired" => interrupt'[c] = "fired"
         /\ \A c \in Batches \ {b} : interrupt'[c] = interrupt[c]
         /\ Drains(b) => interrupt'[b] = "fired"
         /\ ~Drains(b) => interrupt'[b] = interrupt[b]
         /\ IsReady(b) <=> interrupt'[b] = "fired"
<1>1. interrupt[b] = "fired" => ~Drains(b)
  BY OwnChannel DEF Drains, IInv
<1>2. IsReady(b) <=> interrupt[b] = "fired" \/ Drains(b)
  BY OwnChannel DEF IsReady, Drains, Fires, IInv
<1>3. CASE Drains(b)
  <2>1. timer' = [timer EXCEPT ![b] = "off"] /\ interrupt' = [interrupt EXCEPT ![b] = "fired"]
    BY <1>3 DEF Drain
  <2>. QED
    BY <1>2, <1>3, <2>1 DEF IInv, TypeOK
<1>4. CASE ~Drains(b)
  BY <1>2, <1>4 DEF Drain
<1>. QED
  BY <1>3, <1>4

LEMMA RebuildWakes ==
  ASSUME AllTimers, IInv, WakeInv, NEW b \in Batches, Rebuild(b) PROVE WakeInv'
<1>1. /\ mpc = "rebuild" /\ b \in visit /\ visit' = visit \ {b} /\ Drain(b)
      /\ interrupts' = (IF ~IsReady(b) THEN interrupts \cup {Channel(b)} ELSE interrupts)
      /\ UNCHANGED <<ready, epc, best, scan, bins, mpc, event>>
  BY DEF Rebuild, Listens, execVars
<1>2. Present' = Present
  BY <1>1 DEF Present
<1>3. /\ \A c \in Batches : timer'[c] # "off" => timer[c] # "off"
      /\ \A c \in Batches : interrupt[c] = "fired" => interrupt'[c] = "fired"
      /\ \A c \in Batches \ {b} : interrupt'[c] = interrupt[c]
      /\ IsReady(b) <=> interrupt'[b] = "fired"
      /\ ~Drains(b) => interrupt'[b] = interrupt[b]
  BY <1>1, DrainEffect
<1>4. ~IsReady(b) => Channel(b) = b
  BY <1>3, OwnChannel DEF IInv
<1>5. ListenInv'
  BY <1>1, <1>2, <1>3, <1>4 DEF WakeInv, ListenInv, Present
<1>6. EventInv'
  BY <1>1, <1>2, <1>3 DEF WakeInv, EventInv, Present
<1>7. Awake
  BY <1>1 DEF WakeInv, EventInv, SignalInv
<1>8. Awake'
  <2>1. scan \subseteq Batches
    BY DEF IInv, TypeOK
  <2>. QED
    BY <1>1, <1>3, <1>7, <2>1 DEF Awake
<1>. QED
  BY <1>5, <1>6, <1>8 DEF WakeInv, SignalInv

LEMMA EndRebuildWakes == ASSUME WakeInv, EndRebuild PROVE WakeInv'
<1>1. /\ mpc = "rebuild" /\ visit = {} /\ mpc' \in {"select", "ended"}
      /\ UNCHANGED <<ready, epc, best, scan, interrupt, interrupts, bins, visit, timer, event>>
  BY DEF EndRebuild, LoopTop, execVars
<1>. QED
  BY <1>1 DEF WakeInv, ListenInv, EventInv, SignalInv, Awake, Present

LEMMA EndMainWakes == ASSUME WakeInv, EndMain PROVE WakeInv'
  BY DEF EndMain, execVars, WakeInv, ListenInv, EventInv, SignalInv, Awake, Present

LEMMA BeginScanWakes == ASSUME WakeInv, BeginScan PROVE WakeInv'
<1>1. /\ epc' = "scan" /\ scan' = Present
      /\ UNCHANGED <<interrupt, interrupts, bins, mpc, visit, timer, event>>
  BY DEF BeginScan, mainVars
<1>. QED
  BY <1>1 DEF WakeInv, ListenInv, EventInv, SignalInv, Awake, Present

LEMMA ScanWakes ==
  ASSUME AllTimers, IInv, WakeInv, NEW b \in Batches, Scan(b) PROVE WakeInv'
<1>1. /\ epc = "scan" /\ b \in scan /\ scan' = scan \ {b} /\ Drain(b)
      /\ best' = (IF IsReady(b) /\ Better(b) THEN b ELSE best)
      /\ interrupts' = (IF Drains(b) THEN interrupts \ {b} ELSE interrupts)
      /\ UNCHANGED <<ready, epc, bins, mpc, visit, event>>
  BY DEF Scan
<1>2. Present' = Present
  BY <1>1 DEF Present
<1>3. /\ \A c \in Batches : timer'[c] # "off" => timer[c] # "off"
      /\ \A c \in Batches : interrupt[c] = "fired" => interrupt'[c] = "fired"
      /\ \A c \in Batches \ {b} : interrupt'[c] = interrupt[c]
      /\ IsReady(b) <=> interrupt'[b] = "fired"
      /\ Drains(b) => interrupt'[b] = "fired"
      /\ ~Drains(b) => interrupt'[b] = interrupt[b]
  BY <1>1, DrainEffect
<1>4. ListenInv'
  BY <1>1, <1>2, <1>3 DEF WakeInv, ListenInv, Present
<1>5. mpc = "event" => interrupt'[event] = "own"
  <2>1. SUFFICES ASSUME mpc = "event" PROVE interrupt'[event] = "own"
    OBVIOUS
  <2>2. event \in Batches /\ interrupt[event] = "own" /\ timer[event] = "off"
    BY <2>1 DEF WakeInv, EventInv, Present, IInv, ReadyInv
  <2>3. event = b => ~Drains(b)
    BY <2>2 DEF Drains
  <2>. QED
    BY <1>3, <2>2, <2>3
<1>6. EventInv'
  BY <1>1, <1>2, <1>3, <1>5 DEF WakeInv, EventInv, Present
<1>7. interrupt'[b] = "fired" => best' # None
  BY <1>1, <1>3, SchedulerAssumption DEF Better
<1>8. best # None => best' # None
  BY <1>1, SchedulerAssumption
<1>9. SignalInv'
  <2>1. SUFFICES ASSUME NEW c \in Present, interrupt'[c] = "fired", best' = None, ~(ready > 0)
                 PROVE  \E d \in scan' : interrupt'[d] = "fired"
    BY <1>1, <1>2 DEF SignalInv, Awake
  <2>2. c # b /\ interrupt[c] = "fired" /\ c \in Batches
    BY <1>3, <1>7, <2>1 DEF Present
  <2>3. PICK d \in scan : interrupt[d] = "fired"
    BY <1>1, <1>8, <2>1, <2>2 DEF WakeInv, SignalInv, Awake
  <2>4. d # b /\ d \in Batches
    BY <1>3, <1>7, <2>1, <2>3 DEF IInv, TypeOK
  <2>. QED
    BY <1>1, <1>3, <2>3, <2>4
<1>. QED
  BY <1>4, <1>6, <1>9 DEF WakeInv

LEMMA EndScanWakes == ASSUME WakeInv, EndScan PROVE WakeInv'
<1>1. /\ epc = "scan" /\ scan = {} /\ epc' = (IF best = None THEN "wait" ELSE "lock")
      /\ UNCHANGED <<ready, best, scan, interrupt, interrupts, bins, mpc, visit, timer, event>>
  BY DEF EndScan, mainVars
<1>. QED
  BY <1>1 DEF WakeInv, ListenInv, EventInv, SignalInv, Awake, Present

\* Steps after which the executing goroutine is on its way to the next scan.
LEMMA OnTheWayWakes ==
  ASSUME WakeInv, epc' \in {"top", "run", "fail", "ended"},
         UNCHANGED <<interrupt, interrupts, bins, mpc, visit, timer, event>>
  PROVE  WakeInv'
  BY DEF WakeInv, ListenInv, EventInv, SignalInv, Awake, Present

LEMMA DeleteWakes == ASSUME AllTimers, IInv, WakeInv, Delete PROVE WakeInv'
<1>1. /\ epc = "lock" /\ mpc \notin {"match", "rebuild"} /\ epc' = "run"
      /\ bins' = [bins EXCEPT ![best] = {}]
      /\ interrupt' = [interrupt EXCEPT ![best] = "own"]
      /\ UNCHANGED <<interrupts, mpc, visit, timer, event>>
  BY DEF Delete, ReadLocked, mainVars
<1>2. best \in Batches /\ interrupt[best] = "fired" /\ timer[best] = "off"
  BY <1>1 DEF IInv, ControlInv, ReadyInv, TypeOK, AllTimers
<1>3. Present' = Present \ {best}
  BY <1>1, <1>2 DEF Present, IInv, TypeOK
<1>4. \A c \in Batches \ {best} : interrupt'[c] = interrupt[c]
  BY <1>1 DEF IInv, TypeOK
<1>5. ListenInv'
  BY <1>1, <1>3, <1>4 DEF WakeInv, ListenInv, Present
<1>6. mpc = "event" => event # best
  BY <1>2 DEF WakeInv, EventInv
<1>7. EventInv'
  BY <1>1, <1>2, <1>3, <1>4, <1>6 DEF WakeInv, EventInv, Present
<1>. QED
  BY <1>1, <1>5, <1>7 DEF WakeInv, SignalInv, Awake

LEMMA InitWakeInv == Init => WakeInv
  BY DEF Init, WakeInv, ListenInv, EventInv, SignalInv, Present

LEMMA NextWakeInv == ASSUME AllTimers, IInv, WakeInv, [Next]_vars PROVE WakeInv'
<1>1. ASSUME NEW j \in Jobs, Caller(j) \/ Client(j) PROVE WakeInv'
  BY <1>1, WakeSame
  DEF Caller, Client, Submit, Receive, GiveUp, Cancel, CallAgain, mainVars, execVars
<1>2. CASE Environment
  <2>1. CASE \E b \in Batches : Expire(b)
    BY <2>1, ExpireWakes
  <2>2. CASE StopScheduler \/ \E x \in Gates : Close(x)
    BY <2>2, WakeSame DEF StopScheduler, Close, mainVars, execVars
  <2>. QED
    BY <1>2, <2>1, <2>2 DEF Environment
<1>3. CASE Main
  BY <1>3, TakePendingWakes, AddJobWakes, SelectEventWakes, BeginMatchWakes,
     MatchWakes, BeginRebuildWakes, RebuildWakes, EndRebuildWakes, EndMainWakes
  DEF Main
<1>4. CASE Exec
  <2>1. CASE WakeUp \/ EndExec \/ ReplayFails \/ EndReplay
    BY <2>1, OnTheWayWakes DEF WakeUp, EndExec, ReplayFails, EndReplay, mainVars
  <2>2. CASE \E j \in Jobs : SendResult(j)
    BY <2>2, WakeSame DEF SendResult, mainVars
  <2>. QED
    BY <1>4, <2>1, <2>2, BeginScanWakes, EndScanWakes, ScanWakes, DeleteWakes DEF Exec
<1>5. CASE UNCHANGED vars
  BY <1>5, WakeSame DEF vars, mainVars, execVars
<1>. QED
  BY <1>1, <1>2, <1>3, <1>4, <1>5 DEF Next

\* "If no bin is ready, wait for one on the ready channel" (scheduler.go 179):
\* when every batch has a timer, the goroutine that waits there is always woken.
\* Whatever the other one was doing when the timers expired, either it listens
\* to every bin or it has already put a value into the ready channel.
THEOREM WakeupsAreKept == ASSUME AllTimers PROVE Spec => []WakeupArmed
<1>1. IInv /\ WakeInv /\ [Next]_vars => WakeInv'
  BY NextWakeInv
<1>2. IInv /\ WakeInv => WakeupArmed
  <2>1. SUFFICES ASSUME IInv, WakeInv, epc = "wait", ready = 0, mpc = "select",
                        NEW b \in Present
                 PROVE  Channel(b) \in interrupts
    BY DEF WakeupArmed
  <2>2. b \in Batches
    BY DEF Present
  <2>3. ~Awake
    BY <2>1 DEF Awake
  <2>4. interrupt[b] = "own"
    BY <2>1, <2>2, <2>3, OwnChannel DEF WakeInv, SignalInv, IInv
  <2>. QED
    BY <2>1, <2>2, <2>4, OwnChannel DEF WakeInv, ListenInv, IInv
<1>. QED
  BY <1>1, <1>2, InitWakeInv, Invariance, PTL DEF Spec
=============================================================================
