------------------------- MODULE GapirClientProofs --------------------------
(***************************************************************************)
(* Proofs about GapirClient, for every set of replayers, every number of   *)
(* replays, connections and faults, and both choices of the timing         *)
(* assumption SlowSetup; the theorem that needs it says so.                *)
(***************************************************************************)
EXTENDS GapirClient, SequenceTheorems, FiniteSetTheorems, TLAPS

(***************************************************************************)
(* The inductive invariant.                                                *)
(***************************************************************************)
\* The device's own messages carry the replay they belong to.
Work == {"request", "data", "finished"} \X Replays
Breaks == {"lost", "crash"} \X {0}

\* Types, with what TypeOK leaves open of the messages and of the places.
TypeInv ==
  /\ TypeOK
  /\ inbox \in [Conns -> Seq(Work \cup Breaks)]
  /\ \A h \in Conns : at[h] \notin {"idle", "keyed", "failed", "begin", "running", "clean"}
  /\ \A p \in Replayers : at[p] \notin {"none", "waiting", "blind", "reconnect", "done"}

\* After a nil dereference nothing is left that could take a step.
DeadInv ==
  /\ \A a \in Actors : at[a] = "gone"
  /\ \A c \in Conns : handler[c] = "gone"
  /\ mutex = 0 /\ info = 0 /\ shut /\ open = {} /\ stream = {}

\* client.mutex is held by the Connect that is setting a connection up, and
\* while it is held no connection is registered.
ConnectInv ==
  /\ \A a \in Actors : at[a] \in {"setup", "wait", "register"} <=> mutex = a
  /\ \A a \in Actors : mine[a] # 0 <=> at[a] \in {"wait", "register"}
  /\ mutex # 0 => info = 0 /\ ~shut
  /\ shut => info = 0
  /\ \A c \in open : c = info \/ \E a \in Actors : c = mine[a]
  /\ \A a \in Actors : mine[a] <= dialled
  /\ info <= dialled

\* A connection that was not dialled yet has no heartbeat and no stream.
FreshInv ==
  \A c \in Conns :
    /\ c > dialled <=> handler[c] = "none"
    /\ c > dialled => at[c] = "none"
    /\ handler[c] \in {"none", "start"} => c \notin stream /\ inbox[c] = <<>>

\* A replayer that has a connection is its executor, and only replayers are.
ReplayInv ==
  /\ \A p \in Replayers : replay[p] <= begun
  /\ \A p, q \in Replayers : replay[p] = replay[q] /\ replay[p] # 0 => p = q
  /\ \A p \in Replayers : replay[p] = 0 <=> at[p] = "idle"
  /\ \A p \in Replayers : on[p] # 0 <=> at[p] \in {"begin", "running", "clean"}
  /\ \A p \in Replayers : on[p] # 0 => executor[on[p]] = replay[p]
  /\ \A c \in Conns : executor[c] # 0 => \E p \in Replayers : on[p] = c

\* The heartbeats that run.  With a set-up that is shorter than a heartbeat
\* interval the only one is that of the connection.
Beating(h) == at[h] \in {"waiting", "blind", "reconnect"}
HeartInv ==
  /\ info # 0 => \A h \in Conns : Beating(h) <=> h = info
  /\ \A a \in Actors : mine[a] # 0 =>
       \A h \in Conns : IF h = mine[a] THEN at[h] = "waiting" ELSE ~Beating(h)
  /\ info = 0 /\ ~shut /\ (\A a \in Actors : mine[a] = 0) => \A h \in Conns : ~Beating(h)

\* The executor of a connection runs its replay: it waits for the answer.
Runs(c) == executor[c] # 0 /\ \A p \in Replayers : on[p] = c => at[p] = "running"

\* What is in a stream belongs to the replay that runs on it, and nothing but
\* the end of the stream follows a replay's last message.
StreamOf(c) ==
  /\ c \in stream => handler[c] \in {"recv", "sending"}
  /\ handler[c] \in {"recv", "sending"} =>
       \A i \in DOMAIN inbox[c] :
         /\ inbox[c][i][1] # "lost" => handler[c] = "recv" /\ Runs(c)
         /\ inbox[c][i] \in Work => inbox[c][i][2] = executor[c]
  /\ \A i, j \in DOMAIN inbox[c] :
       inbox[c][i][1] = "finished" /\ i < j => inbox[c][j][1] = "lost"

\* An answer that is being sent is that of the replay that runs on the
\* connection or, when the stream ended under a replay that has its answer, of
\* a replay that no replayer executes any more; it is "ok" only if the device
\* has ended the replay.
AnswerOf(c) ==
  /\ handler[c] = "sending" => Runs(c) /\ held[c][1] = executor[c]
  /\ handler[c] = "sendingEnd" =>
       /\ held[c][1] <= begun
       /\ \A p \in Replayers : replay[p] = held[c][1] => on[p] = c
  /\ handler[c] = "ending" /\ held[c][2] = "ok" => Runs(c) /\ executor[c] \in ended
  /\ handler[c] \in {"sending", "sendingEnd"} /\ held[c][2] = "ok" => held[c][1] \in ended

StreamInv == \A c \in Conns : StreamOf(c) /\ AnswerOf(c)

AliveInv ==
  /\ ConnectInv /\ FreshInv /\ ReplayInv
  /\ ~SlowSetup => HeartInv
  /\ ~apart => StreamInv

IInv ==
  /\ TypeInv
  /\ panicked => DeadInv
  /\ ~panicked => AliveInv
  /\ NoCrossTalk
-----------------------------------------------------------------------------
(***************************************************************************)
(* Constants, and steps that leave a part of the invariant alone.          *)
(***************************************************************************)
\* Replayers and connections are different actors, and 0 is none of them.
LEMMA Sorts ==
  /\ Conns \subseteq Actors /\ Replayers \subseteq Actors
  /\ \A c \in Conns : c \in Nat /\ c # 0 /\ c \notin Replayers
  /\ \A a \in Actors : a # 0 /\ (a \in Conns \/ a \in Replayers)
  /\ \A n \in Replays : n \in Nat /\ n # 0
  BY ClientAssumption DEF Actors, Conns, Replays

Locked == {"setup", "wait", "register"}

LEMMA ConnectSame ==
  ASSUME ConnectInv, UNCHANGED <<mutex, info, shut, mine, open, dialled>>,
         \A a \in Actors : at'[a] = at[a] \/ (at[a] \notin Locked /\ at'[a] \notin Locked)
  PROVE  ConnectInv'
<1>1. \A a \in Actors : at'[a] \in Locked <=> mutex' = a
  BY DEF ConnectInv, Locked
<1>2. \A a \in Actors : mine'[a] # 0 <=> at'[a] \in {"wait", "register"}
  BY DEF ConnectInv, Locked
<1>. QED
  BY <1>1, <1>2 DEF ConnectInv, Locked

\* Who sets a connection up is alone in it.
LEMMA Alone ==
  ASSUME ConnectInv, NEW a \in Actors, at[a] \in Locked
  PROVE  /\ mutex = a /\ info = 0 /\ ~shut
         /\ \A b \in Actors : b # a => mine[b] = 0
         /\ at[a] = "setup" => mine[a] = 0
<1>1. mutex = a
  BY DEF ConnectInv, Locked
<1>2. info = 0 /\ ~shut
  BY <1>1, Sorts DEF ConnectInv
<1>3. \A b \in Actors : b # a => at[b] \notin Locked
  BY <1>1 DEF ConnectInv, Locked
<1>4. \A b \in Actors : b # a => mine[b] = 0
  BY <1>3 DEF ConnectInv, Locked
<1>5. at[a] = "setup" => mine[a] = 0
  BY DEF ConnectInv
<1>. QED
  BY <1>1, <1>2, <1>4, <1>5

\* TypeOK asks less of the messages than TypeInv.
LEMMA InboxTypes ==
  ASSUME inbox' \in [Conns -> Seq(Work \cup Breaks)]
  PROVE  \A c \in Conns : \A i \in DOMAIN inbox'[c] :
           inbox'[c][i] \in {"request", "data", "finished", "lost", "crash"} \X (Replays \cup {0})
<1>1. Work \cup Breaks
        \subseteq {"request", "data", "finished", "lost", "crash"} \X (Replays \cup {0})
  BY DEF Work, Breaks
<1>2. \A c \in Conns : \A i \in DOMAIN inbox'[c] : inbox'[c][i] \in Work \cup Breaks
  OBVIOUS
<1>. QED
  BY <1>1, <1>2

LEMMA FaultCounts ==
  ASSUME TypeInv, NEW kind, Fault(kind)
  PROVE  faults' \in (0 .. MaxFaults) \X BOOLEAN
<1>1. faults[1] + 1 \in 0 .. MaxFaults
  BY ClientAssumption DEF Fault, TypeInv, TypeOK
<1>2. (faults[2] \/ kind \in {"open", "stream", "crash"}) \in BOOLEAN
  OBVIOUS
<1>. QED
  BY <1>1, <1>2 DEF Fault

LEMMA FreshSame ==
  ASSUME FreshInv, UNCHANGED <<dialled, handler, stream, inbox>>,
         \A c \in Conns : at[c] = "none" => at'[c] = "none"
  PROVE  FreshInv'
  BY DEF FreshInv

LEMMA ReplaySame ==
  ASSUME ReplayInv, UNCHANGED <<replay, begun, on, executor>>,
         \A p \in Replayers :
           /\ at'[p] = "idle" <=> at[p] = "idle"
           /\ at'[p] \in {"begin", "running", "clean"} <=> at[p] \in {"begin", "running", "clean"}
  PROVE  ReplayInv'
  BY DEF ReplayInv

LEMMA HeartSame ==
  ASSUME ~SlowSetup => HeartInv, UNCHANGED <<info, shut, mine>>,
         \A h \in Conns : at'[h] = at[h]
  PROVE  ~SlowSetup => HeartInv'
  BY DEF HeartInv, Beating

\* A connection that a step does not touch, although its executor may have
\* begun to run.
LEMMA StreamOfSame ==
  ASSUME NEW c \in Conns, StreamOf(c), c \in stream' => c \in stream, Runs(c) => Runs(c)',
         UNCHANGED <<handler[c], inbox[c], executor[c]>>
  PROVE  StreamOf(c)'
  BY DEF StreamOf

LEMMA AnswerOfSame ==
  ASSUME NEW c \in Conns, AnswerOf(c), Runs(c) => Runs(c)', ended \subseteq ended',
         UNCHANGED <<handler[c], held[c], executor[c], begun, replay, on>>
  PROVE  AnswerOf(c)'
  BY DEF AnswerOf

LEMMA RunsSame ==
  ASSUME UNCHANGED <<executor, on>>,
         \A p \in Replayers : at[p] = "running" => at'[p] = "running"
  PROVE  \A c \in Conns : Runs(c) => Runs(c)'
  BY DEF Runs

LEMMA StreamSame ==
  ASSUME ~apart => StreamInv,
         UNCHANGED <<stream, handler, inbox, held, executor, on, begun, apart, replay, ended>>,
         \A p \in Replayers : at[p] = "running" => at'[p] = "running"
  PROVE  ~apart' => StreamInv'
<1>. SUFFICES ASSUME ~apart' PROVE StreamInv'
  OBVIOUS
<1>1. \A c \in Conns : StreamOf(c)' /\ AnswerOf(c)'
  BY RunsSame, StreamOfSame, AnswerOfSame DEF StreamInv
<1>. QED
  BY <1>1 DEF StreamInv

LEMMA CrossSame ==
  ASSUME NoCrossTalk, UNCHANGED <<posted, answer, ended, apart>>
  PROVE  NoCrossTalk'
  BY DEF NoCrossTalk

\* The parts of the invariant make it up.
LEMMA Alive ==
  ASSUME TypeInv', ConnectInv', FreshInv', ReplayInv', ~panicked',
         ~SlowSetup => HeartInv', ~apart' => StreamInv', NoCrossTalk'
  PROVE  IInv'
  BY DEF IInv, AliveInv

-----------------------------------------------------------------------------
(***************************************************************************)
(* A nil dereference, and the end of everything.                           *)
(***************************************************************************)
LEMMA PanicKeeps == ASSUME IInv, Panic PROVE IInv'
<1>. USE DEF IInv
<1>1. TypeInv'
  BY Sorts DEF Panic, TypeInv, TypeOK, replayVars
<1>2. DeadInv' /\ panicked'
  BY DEF Panic, DeadInv
<1>3. NoCrossTalk'
  BY CrossSame DEF Panic, replayVars
<1>. QED
  BY <1>1, <1>2, <1>3

\* A process that has panicked takes no step.
LEMMA DeadStops == ASSUME IInv, panicked, Next PROVE FALSE
<1>1. DeadInv
  BY DEF IInv
<1>2. \A a \in Actors : ~ConnectLock(a) /\ ~ConnectDial(a) /\ ~ConnectFail(a) /\ ~ConnectRegister(a)
  BY <1>1 DEF DeadInv, ConnectLock, ConnectDial, ConnectFail, ConnectRegister
<1>3. \A c \in Conns : /\ ~StreamOpen(c) /\ ~StreamOpenFail(c) /\ ~PingFail(c)
                       /\ ~HeartbeatStop(c) /\ ~Remove(c) /\ ~RemoveBlind(c)
  BY <1>1, Sorts DEF DeadInv, StreamOpen, StreamOpenFail, PingFail, HeartbeatStop, Remove, RemoveBlind
<1>4. ~Shutdown
  BY <1>1 DEF DeadInv, Shutdown
<1>5. \A p \in Replayers : /\ ~Execute(p) /\ ~Prewarm(p) /\ ~SetReplayExecutor(p)
                           /\ ~BeginReplay(p) /\ ~ReplayFailed(p) /\ ~Clean(p)
  BY <1>1, Sorts DEF DeadInv, Execute, Prewarm, SetReplayExecutor, BeginReplay, ReplayFailed, Clean
<1>6. \A c \in Conns : /\ ~HandleRequest(c) /\ ~HandleData(c) /\ ~HandleFinished(c)
                       /\ ~RecvEnd(c) /\ ~HandlerEnd(c) /\ ~StreamBreak(c)
                       /\ \A p \in Replayers : ~Deliver(c, p)
  BY <1>1 DEF DeadInv, HandleRequest, HandleData, HandleFinished, RecvEnd, HandlerEnd, StreamBreak, Deliver
<1>. QED
  BY <1>2, <1>3, <1>4, <1>5, <1>6 DEF Next

-----------------------------------------------------------------------------
(***************************************************************************)
(* Connect.                                                                *)
(***************************************************************************)
LEMMA ConnectLockKeeps ==
  ASSUME IInv, ~panicked, NEW a \in Actors, ConnectLock(a) PROVE IInv'
<1>. USE DEF IInv, AliveInv
<1>1. /\ at[a] = "connect" /\ mutex = 0
      /\ at' = [at EXCEPT ![a] = IF shut \/ info # 0 THEN Return(a, ~shut) ELSE "setup"]
      /\ \A b \in Actors : b # a => at'[b] = at[b]
      /\ mutex' = IF shut \/ info # 0 THEN mutex ELSE a
      /\ UNCHANGED <<info, shut, open, mine, dialled, stream, executor, inbox, handler, held,
                     posted, ended, replay, on, begun, apart, answer, faults, panicked>>
  BY DEF ConnectLock, TypeInv, TypeOK, streamVars, replayVars
<1>2. at'[a] \in {"setup", "done", "keyed", "failed"} /\ (a \in Conns => at'[a] \in {"setup", "done"})
         /\ (a \in Replayers => at'[a] # "done")
         /\ (at'[a] = "setup" <=> ~(shut \/ info # 0))
  BY <1>1, Sorts DEF Return, TypeInv, TypeOK
<1>3. TypeInv'
  BY <1>1, <1>2, Sorts, SMTT(30) DEF TypeInv, TypeOK
<1>4. ConnectInv'
  BY <1>1, <1>2, Sorts DEF ConnectInv
<1>5. FreshInv'
  BY <1>1, Sorts, FreshSame
<1>6. ReplayInv'
  BY <1>1, <1>2, Sorts, ReplaySame
<1>7. ~SlowSetup => HeartInv'
  BY <1>1, <1>2, Sorts DEF HeartInv, Beating
<1>8. ~apart' => StreamInv'
  BY <1>1, <1>2, Sorts, StreamSame
<1>9. NoCrossTalk'
  BY <1>1, CrossSame
<1>. QED
  BY <1>1, <1>3, <1>4, <1>5, <1>6, <1>7, <1>8, <1>9, Alive

LEMMA ConnectDialKeeps ==
  ASSUME IInv, ~panicked, NEW a \in Actors, ConnectDial(a) PROVE IInv'
<1>. USE DEF IInv, AliveInv
<1>0. dialled \in Nat /\ dialled + 1 \in Conns /\ dialled + 1 \in 0 .. MaxConns
  BY ClientAssumption DEF ConnectDial, TypeInv, TypeOK, Conns
<1>. PICK c \in Conns : c = dialled + 1
  BY <1>0
<1>1. /\ at[a] = "setup" /\ at[c] = "none" /\ handler[c] = "none" /\ c # a
      /\ c \notin stream /\ inbox[c] = <<>>
  BY <1>0 DEF ConnectDial, FreshInv
<1>2. /\ dialled' = c /\ open' = open \cup {c}
      /\ mine' = [mine EXCEPT ![a] = c]
      /\ handler' = [handler EXCEPT ![c] = "start"]
      /\ at' = [at EXCEPT ![a] = "wait", ![c] = "waiting"]
      /\ UNCHANGED <<mutex, info, shut, stream, executor, inbox, held, posted, ended,
                     replay, on, begun, apart, answer, faults, panicked>>
  BY DEF ConnectDial, replayVars
<1>3. /\ at'[a] = "wait" /\ at'[c] = "waiting"
      /\ \A b \in Actors : b # a /\ b # c => at'[b] = at[b]
      /\ mine'[a] = c /\ \A b \in Actors : b # a => mine'[b] = mine[b]
      /\ handler'[c] = "start" /\ \A d \in Conns : d # c => handler'[d] = handler[d]
  BY <1>1, <1>2, Sorts DEF TypeInv, TypeOK
<1>4. mutex = a /\ info = 0 /\ ~shut /\ \A b \in Actors : mine[b] = 0
  BY <1>1, Alone DEF Locked
<1>5. TypeInv'
  <2>1. dialled' \in 0 .. MaxConns
    BY <1>0, <1>2
  <2>2. open' \subseteq Conns /\ mine' \in [Actors -> Conns \cup {0}]
    BY <1>2 DEF TypeInv, TypeOK
  <2>3. \A d \in Conns : handler'[d] \in {"sending", "sendingEnd"} => held'[d][1] \in Replays
    BY <1>2, <1>3 DEF TypeInv, TypeOK
  <2>. QED
    BY <1>2, <1>3, <2>1, <2>2, <2>3, Sorts, SMTT(30) DEF TypeInv, TypeOK
<1>6. ConnectInv'
  <2>1. open = {}
    BY <1>4, Sorts DEF ConnectInv, TypeInv, TypeOK
  <2>2. \A b \in Actors : at'[b] \in Locked <=> mutex' = b
    BY <1>1, <1>2, <1>3, <1>4 DEF ConnectInv, Locked
  <2>3. \A b \in Actors : at[b] \notin {"wait", "register"}
    BY <1>4 DEF ConnectInv
  <2>4. \A b \in Actors : mine'[b] # 0 <=> at'[b] \in {"wait", "register"}
    BY <1>1, <1>3, <1>4, <2>3, Sorts
  <2>5. (\A b \in Actors : mine'[b] <= dialled') /\ info' <= dialled'
    BY <1>2, <1>3, <1>4, Sorts
  <2>6. \A d \in open' : \E b \in Actors : d = mine'[b]
    BY <1>2, <1>3, <2>1
  <2>. QED
    BY <1>2, <1>4, <2>2, <2>4, <2>5, <2>6 DEF ConnectInv, Locked
<1>7. FreshInv'
  <2>1. \A d \in Conns : d > dialled' <=> handler'[d] = "none"
    BY <1>0, <1>2, <1>3, Sorts DEF FreshInv
  <2>2. \A d \in Conns : d > dialled' => at'[d] = "none"
    <3>. SUFFICES ASSUME NEW d \in Conns, d > dialled' PROVE at'[d] = "none"
      OBVIOUS
    <3>1. d > dialled /\ d # c
      BY <1>0, <1>2, Sorts
    <3>2. at[d] = "none"
      BY <3>1 DEF FreshInv
    <3>. QED
      BY <1>1, <1>3, <3>1, <3>2, Sorts
  <2>3. \A d \in Conns : handler'[d] \in {"none", "start"} => d \notin stream' /\ inbox'[d] = <<>>
    BY <1>1, <1>2, <1>3 DEF FreshInv
  <2>. QED
    BY <2>1, <2>2, <2>3 DEF FreshInv
<1>8. ReplayInv'
  BY <1>1, <1>2, <1>3, Sorts, ReplaySame
<1>9. ~SlowSetup => HeartInv'
  <2>1. ~SlowSetup => \A h \in Conns : ~Beating(h)
    BY <1>4 DEF HeartInv
  <2>2. ~SlowSetup => \A h \in Conns : h # c => at'[h] \notin {"waiting", "blind", "reconnect"}
    BY <1>3, <2>1, Sorts DEF Beating
  <2>3. \A b \in Actors : mine'[b] # 0 => mine'[b] = c
    BY <1>3, <1>4
  <2>4. ~SlowSetup => \A b \in Actors : mine'[b] # 0 =>
          \A h \in Conns : IF h = mine'[b] THEN at'[h] = "waiting"
                           ELSE at'[h] \notin {"waiting", "blind", "reconnect"}
    BY <1>3, <2>2, <2>3
  <2>5. info' = 0 /\ mine'[a] # 0
    BY <1>2, <1>3, <1>4, Sorts
  <2>. QED
    BY <2>4, <2>5 DEF HeartInv, Beating
<1>10. ASSUME ~apart PROVE StreamInv'
  <2>1. \A d \in Conns : Runs(d) => Runs(d)'
    BY <1>1, <1>2, <1>3, Sorts, RunsSame
  <2>2. \A d \in Conns : d # c => StreamOf(d)' /\ AnswerOf(d)'
    BY <1>2, <1>3, <1>10, <2>1, StreamOfSame, AnswerOfSame DEF StreamInv
  <2>3. StreamOf(c)' /\ AnswerOf(c)'
    BY <1>1, <1>2, <1>3 DEF StreamOf, AnswerOf
  <2>. QED
    BY <2>2, <2>3 DEF StreamInv
<1>11. NoCrossTalk'
  BY <1>2, CrossSame
<1>. QED
  BY <1>2, <1>5, <1>6, <1>7, <1>8, <1>9, <1>10, <1>11, Alive

LEMMA ConnectFailKeeps ==
  ASSUME IInv, ~panicked, NEW a \in Actors, ConnectFail(a) PROVE IInv'
<1>. USE DEF IInv, AliveInv
<1>1. /\ at[a] = "setup" /\ mutex' = 0
      /\ at' = [at EXCEPT ![a] = Return(a, FALSE)]
      /\ \A b \in Actors : b # a => at'[b] = at[b]
      /\ UNCHANGED <<info, shut, open, mine, dialled, stream, executor, inbox, handler, held,
                     posted, ended, replay, on, begun, apart, answer, panicked>>
  BY DEF ConnectFail, TypeInv, TypeOK, streamVars, replayVars
<1>2. faults' \in (0 .. MaxFaults) \X BOOLEAN
  BY FaultCounts DEF ConnectFail
<1>3. /\ at'[a] \in {"done", "failed"}
      /\ a \in Conns => at'[a] = "done"
      /\ a \in Replayers => at'[a] = "failed"
  BY <1>1, Sorts DEF Return, TypeInv, TypeOK
<1>4. mutex = a /\ info = 0 /\ ~shut /\ \A b \in Actors : mine[b] = 0
  BY <1>1, Alone DEF Locked
<1>5. TypeInv'
  BY <1>1, <1>2, <1>3, Sorts DEF TypeInv, TypeOK
<1>6. ConnectInv'
  BY <1>1, <1>3, <1>4, Sorts DEF ConnectInv
<1>7. FreshInv'
  BY <1>1, Sorts, FreshSame
<1>8. ReplayInv'
  BY <1>1, <1>3, Sorts, ReplaySame
<1>9. ~SlowSetup => HeartInv'
  BY <1>1, <1>3, <1>4, Sorts DEF HeartInv, Beating
<1>10. ~apart' => StreamInv'
  BY <1>1, <1>3, Sorts, StreamSame
<1>11. NoCrossTalk'
  BY <1>1, CrossSame
<1>. QED
  BY <1>1, <1>5, <1>6, <1>7, <1>8, <1>9, <1>10, <1>11, Alive

LEMMA ConnectRegisterKeeps ==
  ASSUME IInv, ~panicked, NEW a \in Actors, ConnectRegister(a) PROVE IInv'
<1>. USE DEF IInv, AliveInv
<1>1. /\ at[a] = "register" /\ info' = mine[a] /\ mutex' = 0
      /\ mine' = [mine EXCEPT ![a] = 0]
      /\ at' = [at EXCEPT ![a] = Return(a, TRUE)]
      /\ \A b \in Actors : b # a => at'[b] = at[b] /\ mine'[b] = mine[b]
      /\ mine'[a] = 0
      /\ UNCHANGED <<shut, open, dialled, stream, executor, inbox, handler, held,
                     posted, ended, replay, on, begun, apart, answer, faults, panicked>>
  BY DEF ConnectRegister, TypeInv, TypeOK, streamVars, replayVars
<1>2. /\ at'[a] \in {"done", "keyed"}
      /\ a \in Conns => at'[a] = "done"
      /\ a \in Replayers => at'[a] = "keyed"
  BY <1>1, Sorts DEF Return, TypeInv, TypeOK
<1>3. /\ mutex = a /\ info = 0 /\ ~shut /\ mine[a] # 0 /\ mine[a] \in Conns
      /\ \A b \in Actors : b # a => mine[b] = 0
  BY <1>1, Alone DEF Locked, ConnectInv, TypeInv, TypeOK
<1>4. TypeInv'
  BY <1>1, <1>2, <1>3, Sorts DEF TypeInv, TypeOK
<1>5. ConnectInv'
  <2>1. \A c \in open' : c = info'
    BY <1>1, <1>3, Sorts DEF ConnectInv, TypeInv, TypeOK
  <2>2. \A b \in Actors : at'[b] \notin Locked
    BY <1>1, <1>2, <1>3 DEF ConnectInv, Locked
  <2>3. \A b \in Actors : mine'[b] = 0
    BY <1>1, <1>3
  <2>4. 0 <= dialled' /\ info' <= dialled'
    BY <1>1 DEF ConnectInv, TypeInv, TypeOK
  <2>. QED
    BY <1>1, <1>3, <2>1, <2>2, <2>3, <2>4, Sorts DEF ConnectInv, Locked
<1>6. FreshInv'
  BY <1>1, Sorts, FreshSame
<1>7. ReplayInv'
  BY <1>1, <1>2, Sorts, ReplaySame
<1>8. ~SlowSetup => HeartInv'
  BY <1>1, <1>2, <1>3, Sorts DEF HeartInv, Beating
<1>9. ASSUME ~apart PROVE StreamInv'
  <2>1. \A c \in Conns : Runs(c) => Runs(c)'
    BY <1>1, <1>2, Sorts, RunsSame
  <2>. QED
    BY <1>1, <1>9, <2>1, StreamOfSame, AnswerOfSame DEF StreamInv
<1>10. NoCrossTalk'
  BY <1>1, CrossSame
<1>. QED
  BY <1>1, <1>4, <1>5, <1>6, <1>7, <1>8, <1>9, <1>10, Alive

-----------------------------------------------------------------------------
(***************************************************************************)
(* The start of a handler.                                                 *)
(***************************************************************************)
LEMMA StreamOpenKeeps ==
  ASSUME IInv, ~panicked, NEW c \in Conns, StreamOpen(c) PROVE IInv'
<1>. USE DEF IInv, AliveInv
<1>1. /\ handler[c] = "start" /\ c \in open
      /\ stream' = stream \cup {c}
      /\ handler' = [handler EXCEPT ![c] = "recv"]
      /\ handler'[c] = "recv" /\ \A d \in Conns : d # c => handler'[d] = handler[d]
      /\ at' = [a \in Actors |-> IF mine[a] = c THEN "register" ELSE at[a]]
      /\ UNCHANGED <<mutex, info, shut, open, mine, dialled, executor, inbox, held,
                     posted, ended, replay, on, begun, apart, answer, faults, panicked>>
  BY DEF StreamOpen, TypeInv, TypeOK, connVars, replayVars
<1>2. \A a \in Actors :
        at'[a] = at[a] \/ (at[a] \in {"wait", "register"} /\ at'[a] = "register")
  BY <1>1, Sorts DEF ConnectInv
<1>3. TypeInv'
  BY <1>1, <1>2, Sorts DEF TypeInv, TypeOK
<1>4. ConnectInv'
  BY <1>1, <1>2, Sorts DEF ConnectInv
<1>5. FreshInv'
  BY <1>1, <1>2, Sorts DEF FreshInv
<1>6. ReplayInv'
  BY <1>1, <1>2, Sorts, ReplaySame
<1>7. ~SlowSetup => HeartInv'
  BY <1>1, <1>2, Sorts DEF HeartInv, Beating
<1>8. ASSUME ~apart PROVE StreamInv'
  <2>1. \A d \in Conns : Runs(d) => Runs(d)'
    BY <1>1, <1>2, Sorts, RunsSame
  <2>2. \A d \in Conns : d # c => StreamOf(d)' /\ AnswerOf(d)'
    BY <1>1, <1>8, <2>1, StreamOfSame, AnswerOfSame DEF StreamInv
  <2>3. inbox[c] = <<>>
    BY <1>1 DEF FreshInv
  <2>4. StreamOf(c)' /\ AnswerOf(c)'
    BY <1>1, <2>3 DEF StreamOf, AnswerOf
  <2>. QED
    BY <2>2, <2>4 DEF StreamInv
<1>9. NoCrossTalk'
  BY <1>1, CrossSame
<1>. QED
  BY <1>1, <1>3, <1>4, <1>5, <1>6, <1>7, <1>8, <1>9, Alive

LEMMA StreamOpenFailKeeps ==
  ASSUME IInv, ~panicked, NEW c \in Conns, StreamOpenFail(c) PROVE IInv'
<1>. USE DEF IInv, AliveInv
<1>1. /\ handler[c] = "start"
      /\ handler' = [handler EXCEPT ![c] = "ending"]
      /\ held' = [held EXCEPT ![c] = <<0, "error">>]
      /\ handler'[c] = "ending" /\ held'[c] = <<0, "error">>
      /\ \A d \in Conns : d # c => handler'[d] = handler[d] /\ held'[d] = held[d]
      /\ UNCHANGED <<mutex, info, shut, open, mine, dialled, stream, executor, inbox,
                     posted, ended, replay, on, begun, apart, answer, at, panicked>>
  BY DEF StreamOpenFail, TypeInv, TypeOK, connVars, replayVars
<1>2. faults' \in (0 .. MaxFaults) \X BOOLEAN
  BY FaultCounts DEF StreamOpenFail, TypeInv, TypeOK
<1>3. TypeInv'
  <2>1. held' \in [Conns -> (Replays \cup {0}) \X {"none", "ok", "error"}]
    BY <1>1 DEF TypeInv, TypeOK
  <2>2. \A d \in Conns : handler'[d] \in {"sending", "sendingEnd"} => held'[d][1] \in Replays
    BY <1>1 DEF TypeInv, TypeOK
  <2>. QED
    BY <1>1, <1>2, <2>1, <2>2 DEF TypeInv, TypeOK
<1>4. ConnectInv' /\ ReplayInv' /\ (~SlowSetup => HeartInv')
  BY <1>1, ConnectSame, ReplaySame, HeartSame
<1>5. FreshInv'
  BY <1>1, Sorts DEF FreshInv
<1>6. ASSUME ~apart PROVE StreamInv'
  <2>1. \A d \in Conns : Runs(d) => Runs(d)'
    BY <1>1, RunsSame
  <2>2. \A d \in Conns : d # c => StreamOf(d)' /\ AnswerOf(d)'
    BY <1>1, <1>6, <2>1, StreamOfSame, AnswerOfSame DEF StreamInv
  <2>3. c \notin stream /\ inbox[c] = <<>>
    BY <1>1 DEF FreshInv
  <2>4. StreamOf(c)' /\ AnswerOf(c)'
    BY <1>1, <2>3 DEF StreamOf, AnswerOf
  <2>. QED
    BY <2>2, <2>4 DEF StreamInv
<1>7. NoCrossTalk'
  BY <1>1, CrossSame
<1>. QED
  BY <1>1, <1>3, <1>4, <1>5, <1>6, <1>7, Alive

-----------------------------------------------------------------------------
(***************************************************************************)
(* Heartbeats, removeConnection and shutdown.                              *)
(***************************************************************************)
LEMMA PingFailKeeps ==
  ASSUME IInv, ~panicked, NEW h \in Conns, PingFail(h) PROVE IInv'
<1>. USE DEF IInv, AliveInv
<1>1. /\ at[h] = "waiting" /\ (SlowSetup \/ \A a \in Actors : mine[a] # h)
      /\ at' = [at EXCEPT ![h] = IF info = 0 THEN "blind" ELSE "reconnect"]
      /\ \A a \in Actors : a # h => at'[a] = at[a]
      /\ UNCHANGED <<mutex, info, shut, open, mine, dialled, stream, executor, inbox, handler,
                     held, posted, ended, replay, on, begun, apart, answer, panicked>>
  BY DEF PingFail, TypeInv, TypeOK, connVars, streamVars, replayVars
<1>2. at'[h] \in {"blind", "reconnect"}
  BY <1>1, Sorts DEF TypeInv, TypeOK
<1>3. faults' \in (0 .. MaxFaults) \X BOOLEAN
  BY FaultCounts DEF PingFail, TypeInv, TypeOK
<1>4. TypeInv'
  BY <1>1, <1>2, <1>3, Sorts DEF TypeInv, TypeOK
<1>5. ConnectInv' /\ FreshInv' /\ ReplayInv'
  BY <1>1, <1>2, Sorts, ConnectSame, FreshSame, ReplaySame DEF Locked
<1>6. ~SlowSetup => HeartInv'
  <2>1. \A g \in Conns : at'[g] \in {"waiting", "blind", "reconnect"} <=> Beating(g)
    BY <1>1, <1>2, Sorts DEF Beating
  <2>2. ~SlowSetup => \A a \in Actors : mine[a] # h
    BY <1>1
  <2>. QED
    BY <1>1, <2>1, <2>2, Sorts DEF HeartInv, Beating
<1>7. ~apart' => StreamInv'
  BY <1>1, Sorts, StreamSame
<1>8. NoCrossTalk'
  BY <1>1, CrossSame
<1>. QED
  BY <1>1, <1>4, <1>5, <1>6, <1>7, <1>8, Alive

LEMMA HeartbeatStopKeeps ==
  ASSUME IInv, ~panicked, NEW h \in Conns, HeartbeatStop(h) PROVE IInv'
<1>. USE DEF IInv, AliveInv
<1>1. /\ at[h] = "waiting" /\ shut
      /\ at' = [at EXCEPT ![h] = "done"]
      /\ at'[h] = "done"
      /\ \A a \in Actors : a # h => at'[a] = at[a]
      /\ UNCHANGED <<mutex, info, shut, open, mine, dialled, stream, executor, inbox, handler,
                     held, posted, ended, replay, on, begun, apart, answer, faults, panicked>>
  BY Sorts DEF HeartbeatStop, TypeInv, TypeOK, connVars, streamVars, replayVars
<1>2. TypeInv'
  BY <1>1, Sorts DEF TypeInv, TypeOK
<1>3. ConnectInv' /\ FreshInv' /\ ReplayInv'
  BY <1>1, Sorts, ConnectSame, FreshSame, ReplaySame DEF Locked
<1>4. ~SlowSetup => HeartInv'
  <2>1. info = 0 /\ \A a \in Actors : mine[a] = 0
    BY <1>1, Alone DEF ConnectInv, Locked
  <2>. QED
    BY <1>1, <2>1 DEF HeartInv
<1>5. ~apart' => StreamInv'
  BY <1>1, Sorts, StreamSame
<1>6. NoCrossTalk'
  BY <1>1, CrossSame
<1>. QED
  BY <1>1, <1>2, <1>3, <1>4, <1>5, <1>6, Alive

\* What Close does to the stream of a connection: it leaves nothing to receive.
LEMMA ClosedStreams ==
  ASSUME TypeInv, FreshInv, NEW k \in Conns, Closed(k),
         UNCHANGED <<dialled, handler, executor, held, on, begun, apart, replay, ended>>,
         \A p \in Replayers : at[p] = "running" => at'[p] = "running",
         \A c \in Conns : at[c] = "none" => at'[c] = "none"
  PROVE  /\ open' = open \ {k} /\ stream' \subseteq stream
         /\ inbox' \in [Conns -> Seq(Work \cup Breaks)]
         /\ FreshInv'
         /\ (\A c \in Conns : StreamOf(c) /\ AnswerOf(c)) =>
               \A c \in Conns : StreamOf(c)' /\ AnswerOf(c)'
<1>1. /\ open' = open \ {k} /\ stream' \subseteq stream
      /\ inbox' = [inbox EXCEPT ![k] = <<>>]
      /\ inbox'[k] = <<>> /\ \A c \in Conns : c # k => inbox'[c] = inbox[c]
  BY DEF Closed, TypeInv
<1>2. inbox' \in [Conns -> Seq(Work \cup Breaks)]
  BY <1>1 DEF TypeInv
<1>3. FreshInv'
  BY <1>1 DEF FreshInv
<1>4. \A c \in Conns : Runs(c) => Runs(c)'
  BY RunsSame
<1>5. \A c \in Conns : c # k => (StreamOf(c) => StreamOf(c)')
  BY <1>1, <1>4, StreamOfSame
<1>6. StreamOf(k) => StreamOf(k)'
  BY <1>1 DEF StreamOf
<1>7. \A c \in Conns : AnswerOf(c) => AnswerOf(c)'
  BY <1>4, AnswerOfSame
<1>. QED
  BY <1>1, <1>2, <1>3, <1>5, <1>6, <1>7

LEMMA RemoveKeeps ==
  ASSUME IInv, ~panicked, NEW h \in Conns, Remove(h), info # 0 PROVE IInv'
<1>. USE DEF IInv, AliveInv
<1>1. /\ at[h] = "reconnect" /\ mutex = 0 /\ Closed(info) /\ info' = 0 /\ info \in Conns
      /\ at' = [at EXCEPT ![h] = "connect"]
      /\ at'[h] = "connect"
      /\ \A a \in Actors : a # h => at'[a] = at[a]
      /\ UNCHANGED <<mutex, shut, mine, dialled, executor, handler, held, posted, ended,
                     replay, on, begun, apart, answer, faults, panicked>>
  BY Sorts DEF Remove, TypeInv, TypeOK, replayVars
<1>2. /\ open' = open \ {info} /\ stream' \subseteq stream
      /\ inbox' \in [Conns -> Seq(Work \cup Breaks)]
      /\ FreshInv'
      /\ (\A c \in Conns : StreamOf(c) /\ AnswerOf(c)) =>
            \A c \in Conns : StreamOf(c)' /\ AnswerOf(c)'
  BY <1>1, Sorts, ClosedStreams
<1>3. \A a \in Actors : mine[a] = 0
  BY <1>1, Sorts DEF ConnectInv
<1>4. TypeInv'
  BY <1>1, <1>2, Sorts, InboxTypes DEF TypeInv, TypeOK
<1>5. ConnectInv'
  BY <1>1, <1>2, <1>3, Sorts DEF ConnectInv
<1>6. ReplayInv'
  BY <1>1, Sorts, ReplaySame
<1>7. ~SlowSetup => HeartInv'
  BY <1>1, <1>3, Sorts DEF HeartInv, Beating
<1>8. ~apart' => StreamInv'
  BY <1>1, <1>2, Sorts DEF StreamInv
<1>9. NoCrossTalk'
  BY <1>1, CrossSame
<1>. QED
  BY <1>1, <1>2, <1>4, <1>5, <1>6, <1>7, <1>8, <1>9, Alive

LEMMA ShutdownKeeps ==
  ASSUME IInv, ~panicked, Shutdown PROVE IInv'
<1>. USE DEF IInv, AliveInv
<1>1. /\ mutex = 0 /\ ~shut /\ shut' = TRUE /\ info' = 0
      /\ UNCHANGED <<mutex, mine, dialled, executor, handler, held, posted, ended, at,
                     replay, on, begun, apart, answer, faults, panicked>>
  BY DEF Shutdown, replayVars
<1>2. /\ open' = open \ {info} /\ stream' \subseteq stream
      /\ inbox' \in [Conns -> Seq(Work \cup Breaks)]
      /\ FreshInv'
      /\ (\A c \in Conns : StreamOf(c) /\ AnswerOf(c)) =>
            \A c \in Conns : StreamOf(c)' /\ AnswerOf(c)'
  <2>1. CASE info # 0
    <3>1. info \in Conns /\ Closed(info)
      BY <2>1 DEF Shutdown, TypeInv, TypeOK
    <3>. QED
      BY <1>1, <3>1, ClosedStreams
  <2>2. CASE info = 0
    <3>1. UNCHANGED <<open, stream, inbox>> /\ 0 \notin open
      BY <2>2, Sorts DEF Shutdown, TypeInv, TypeOK
    <3>2. FreshInv'
      BY <1>1, <3>1, FreshSame
    <3>3. \A c \in Conns : Runs(c) => Runs(c)'
      BY <1>1, RunsSame
    <3>4. \A c \in Conns : (StreamOf(c) => StreamOf(c)') /\ (AnswerOf(c) => AnswerOf(c)')
      BY <1>1, <3>1, <3>3, StreamOfSame, AnswerOfSame
    <3>. QED
      BY <2>2, <3>1, <3>2, <3>4 DEF TypeInv
  <2>. QED
    BY <2>1, <2>2
<1>3. \A a \in Actors : mine[a] = 0
  BY <1>1, Sorts DEF ConnectInv
<1>4. TypeInv'
  BY <1>1, <1>2, InboxTypes DEF TypeInv, TypeOK
<1>5. ConnectInv'
  <2>1. 0 <= dialled'
    BY <1>1 DEF TypeInv, TypeOK
  <2>. QED
    BY <1>1, <1>2, <1>3, <2>1, Sorts DEF ConnectInv
<1>6. ReplayInv'
  BY <1>1, ReplaySame
<1>7. ~SlowSetup => HeartInv'
  BY <1>1, <1>3 DEF HeartInv
<1>8. ~apart' => StreamInv'
  BY <1>1, <1>2 DEF StreamInv
<1>9. NoCrossTalk'
  BY <1>1, CrossSame
<1>. QED
  BY <1>1, <1>2, <1>4, <1>5, <1>6, <1>7, <1>8, <1>9, Alive

-----------------------------------------------------------------------------
(***************************************************************************)
(* Replayers.                                                              *)
(***************************************************************************)
\* A connection has one executor.
LEMMA OneOwner ==
  ASSUME TypeInv, ReplayInv, NEW p \in Replayers, NEW q \in Replayers, on[p] # 0, on[q] = on[p]
  PROVE  p = q
<1>1. replay[p] = replay[q] /\ replay[p] # 0
  BY DEF ReplayInv
<1>. QED
  BY <1>1 DEF ReplayInv

LEMMA ExecuteKeeps ==
  ASSUME IInv, ~panicked, NEW p \in Replayers, Execute(p) PROVE IInv'
<1>. USE DEF IInv, AliveInv
<1>1. begun \in Nat /\ begun + 1 \in Replays /\ begun + 1 \in 0 .. MaxReplays
  BY ClientAssumption DEF Execute, TypeInv, TypeOK, Replays
<1>2. /\ at[p] = "idle" /\ begun' = begun + 1
      /\ replay' = [replay EXCEPT ![p] = begun + 1]
      /\ at' = [at EXCEPT ![p] = "connect"]
      /\ replay'[p] = begun + 1 /\ at'[p] = "connect"
      /\ \A a \in Actors : a # p => at'[a] = at[a]
      /\ \A q \in Replayers : q # p => replay'[q] = replay[q]
      /\ UNCHANGED <<mutex, info, shut, open, mine, dialled, stream, executor, inbox, handler,
                     held, posted, ended, on, answer, apart, faults, panicked>>
  BY Sorts DEF Execute, TypeInv, TypeOK, connVars, streamVars
<1>3. TypeInv'
  BY <1>1, <1>2, Sorts DEF TypeInv, TypeOK
<1>4. ConnectInv' /\ FreshInv' /\ (~SlowSetup => HeartInv')
  BY <1>2, Sorts, ConnectSame, FreshSame, HeartSame DEF Locked
<1>5. \A q \in Replayers : replay[q] \in Nat /\ replay[q] < begun + 1
  <2>1. \A q \in Replayers : replay[q] \in Nat
    BY Sorts DEF TypeInv, TypeOK
  <2>. QED
    BY <1>1, <2>1 DEF ReplayInv
<1>6. ReplayInv'
  <2>1. \A q \in Replayers : replay'[q] <= begun'
    BY <1>1, <1>2, <1>5
  <2>2. \A q, r \in Replayers : replay'[q] = replay'[r] /\ replay'[q] # 0 => q = r
    BY <1>1, <1>2, <1>5 DEF ReplayInv
  <2>3. \A q \in Replayers : replay'[q] = 0 <=> at'[q] = "idle"
    BY <1>1, <1>2, Sorts DEF ReplayInv
  <2>4. on[p] = 0
    BY <1>2 DEF ReplayInv
  <2>. QED
    BY <1>2, <2>1, <2>2, <2>3, <2>4, Sorts DEF ReplayInv
<1>7. ASSUME ~apart PROVE StreamInv'
  <2>1. \A c \in Conns : Runs(c) => Runs(c)'
    BY <1>2, Sorts, RunsSame
  <2>2. \A c \in Conns : StreamOf(c)'
    BY <1>2, <1>7, <2>1, StreamOfSame DEF StreamInv
  <2>3. ASSUME NEW c \in Conns PROVE AnswerOf(c)'
    <3>1. handler[c] = "sendingEnd" =>
            /\ held[c][1] <= begun + 1
            /\ \A q \in Replayers : replay'[q] = held[c][1] => on[q] = c
      <4>1. handler[c] = "sendingEnd" => held[c][1] \in Nat /\ held[c][1] <= begun
        BY <1>7, Sorts DEF StreamInv, AnswerOf, TypeInv, TypeOK
      <4>2. handler[c] = "sendingEnd" => \A q \in Replayers : replay[q] = held[c][1] => on[q] = c
        BY <1>7 DEF StreamInv, AnswerOf
      <4>. QED
        BY <1>1, <1>2, <4>1, <4>2
    <3>. QED
      BY <1>2, <1>7, <2>1, <3>1 DEF StreamInv, AnswerOf
  <2>. QED
    BY <2>2, <2>3 DEF StreamInv
<1>8. NoCrossTalk'
  BY <1>2, CrossSame
<1>. QED
  BY <1>2, <1>3, <1>4, <1>6, <1>7, <1>8, Alive

\* PrewarmReplay, and SetReplayExecutor on a connection that has an executor.
LEMMA RefusedKeeps ==
  ASSUME IInv, ~panicked, NEW p \in Replayers, at[p] = "keyed",
         at' = [at EXCEPT ![p] = "failed"],
         UNCHANGED <<connVars, streamVars, replayVars, faults, panicked>>
  PROVE  IInv'
<1>. USE DEF IInv, AliveInv
<1>1. /\ at'[p] = "failed"
      /\ \A a \in Actors : a # p => at'[a] = at[a]
      /\ UNCHANGED <<mutex, info, shut, open, mine, dialled, stream, executor, inbox, handler,
                     held, posted, ended, replay, on, begun, apart, answer, faults, panicked>>
  BY Sorts DEF TypeInv, TypeOK, connVars, streamVars, replayVars
<1>2. TypeInv'
  BY <1>1, Sorts DEF TypeInv, TypeOK
<1>3. ConnectInv' /\ FreshInv' /\ ReplayInv' /\ (~SlowSetup => HeartInv')
  BY <1>1, Sorts, ConnectSame, FreshSame, ReplaySame, HeartSame DEF Locked
<1>4. ~apart' => StreamInv'
  BY <1>1, Sorts, StreamSame
<1>5. NoCrossTalk'
  BY <1>1, CrossSame
<1>. QED
  BY <1>1, <1>2, <1>3, <1>4, <1>5, Alive

LEMMA PrewarmKeeps ==
  ASSUME IInv, ~panicked, NEW p \in Replayers, Prewarm(p), info # 0 PROVE IInv'
  BY RefusedKeeps DEF Prewarm

LEMMA SetReplayExecutorKeeps ==
  ASSUME IInv, ~panicked, NEW p \in Replayers, SetReplayExecutor(p), info # 0 PROVE IInv'
<1>. USE DEF IInv, AliveInv
<1>1. CASE executor[info] # 0
  BY <1>1, RefusedKeeps DEF SetReplayExecutor
<1>2. CASE executor[info] = 0
  <2>1. /\ at[p] = "keyed" /\ info \in Conns
        /\ executor' = [executor EXCEPT ![info] = replay[p]]
        /\ on' = [on EXCEPT ![p] = info]
        /\ at' = [at EXCEPT ![p] = "begin"]
        /\ UNCHANGED <<mutex, info, shut, open, mine, dialled, stream, inbox, handler, held,
                       posted, ended, replay, begun, apart, answer, faults, panicked>>
    BY <1>2 DEF SetReplayExecutor, TypeInv, TypeOK, connVars
  <2>2. /\ at'[p] = "begin" /\ \A a \in Actors : a # p => at'[a] = at[a]
        /\ executor'[info] = replay[p] /\ \A c \in Conns : c # info => executor'[c] = executor[c]
        /\ on'[p] = info /\ \A q \in Replayers : q # p => on'[q] = on[q]
    BY <2>1, Sorts DEF TypeInv, TypeOK
  <2>3. replay[p] # 0 /\ on[p] = 0 /\ \A q \in Replayers : on[q] # info
    BY <1>2, <2>1, Sorts DEF ReplayInv
  <2>4. TypeInv'
    BY <2>1, <2>2, Sorts DEF TypeInv, TypeOK
  <2>5. ConnectInv' /\ FreshInv' /\ (~SlowSetup => HeartInv')
    BY <2>1, <2>2, Sorts, ConnectSame, FreshSame, HeartSame DEF Locked
  <2>6. ReplayInv'
    <3>1. \A q \in Replayers : replay'[q] = 0 <=> at'[q] = "idle"
      BY <2>1, <2>2, Sorts DEF ReplayInv
    <3>2. \A q \in Replayers : on'[q] # 0 <=> at'[q] \in {"begin", "running", "clean"}
      BY <2>1, <2>2, Sorts DEF ReplayInv
    <3>3. \A q \in Replayers : on'[q] # 0 => executor'[on'[q]] = replay'[q]
      BY <2>1, <2>2, <2>3 DEF ReplayInv, TypeInv, TypeOK
    <3>4. \A c \in Conns : executor'[c] # 0 => \E q \in Replayers : on'[q] = c
      <4>. SUFFICES ASSUME NEW c \in Conns, executor'[c] # 0, c # info
                    PROVE  \E q \in Replayers : on'[q] = c
        BY <2>2
      <4>1. PICK q \in Replayers : on[q] = c
        BY <2>2 DEF ReplayInv
      <4>. QED
        BY <2>2, <2>3, <4>1, Sorts
    <3>. QED
      BY <2>1, <3>1, <3>2, <3>3, <3>4 DEF ReplayInv
  <2>7. ASSUME ~apart PROVE StreamInv'
    <3>. PICK k \in Conns : k = info
      BY <2>1
    <3>1. ~Runs(k)
      BY <1>2 DEF Runs
    <3>2. \A c \in Conns : Runs(c) => Runs(c)'
      BY <2>1, <2>2, <3>1, Sorts DEF Runs
    <3>3. \A c \in Conns : c # k => StreamOf(c)'
      BY <2>1, <2>2, <2>7, <3>2, StreamOfSame DEF StreamInv
    <3>4. StreamOf(k)'
      <4>1. handler[k] \in {"recv", "sending"} =>
              \A i \in DOMAIN inbox[k] : inbox[k][i][1] = "lost"
        BY <2>7, <3>1 DEF StreamInv, StreamOf
      <4>. QED
        BY <2>1, <2>7, <4>1 DEF StreamInv, StreamOf, Work
    <3>5. \A c \in Conns : handler[c] = "sendingEnd" =>
            \A q \in Replayers : replay[q] = held[c][1] => on'[q] = c
      BY <2>1, <2>2, <2>3, <2>7, Sorts DEF StreamInv, AnswerOf
    <3>6. \A c \in Conns : c # k => AnswerOf(c)'
      BY <2>1, <2>2, <2>7, <3>2, <3>5 DEF StreamInv, AnswerOf
    <3>7. AnswerOf(k)'
      BY <2>1, <2>7, <3>1, <3>5 DEF StreamInv, AnswerOf
    <3>. QED
      BY <3>3, <3>4, <3>6, <3>7 DEF StreamInv
  <2>8. NoCrossTalk'
    BY <2>1, CrossSame
  <2>. QED
    BY <2>1, <2>4, <2>5, <2>6, <2>7, <2>8, Alive
<1>. QED
  BY <1>1, <1>2

\* A replay that finds its own connection in place finds it empty: the replays
\* that ran on it before have received their last message.
LEMMA BeginReplayKeeps ==
  ASSUME IInv, ~panicked, NEW p \in Replayers, BeginReplay(p), info # 0 PROVE IInv'
<1>. USE DEF IInv, AliveInv
<1>. PICK k \in Conns : k = info
  BY DEF TypeInv, TypeOK
<1>. DEFINE msgs == <<<<"request", replay[p]>>, <<"data", replay[p]>>, <<"finished", replay[p]>>>>
<1>1. /\ at[p] = "begin"
      /\ inbox' = [inbox EXCEPT ![k] = Sent(k, replay[p])]
      /\ at' = [at EXCEPT ![p] = "running"]
      /\ apart' = (apart \/ k # on[p])
      /\ UNCHANGED <<mutex, info, shut, open, mine, dialled, stream, executor, handler, held,
                     posted, ended, replay, on, begun, answer, faults, panicked>>
  BY DEF BeginReplay, connVars
<1>2. /\ at'[p] = "running" /\ \A a \in Actors : a # p => at'[a] = at[a]
      /\ inbox'[k] = Sent(k, replay[p]) /\ \A c \in Conns : c # k => inbox'[c] = inbox[c]
      /\ inbox[k] \in Seq(Work \cup Breaks)
  BY <1>1, Sorts DEF TypeInv, TypeOK
<1>3. replay[p] \in Replays /\ on[p] \in Conns /\ executor[on[p]] = replay[p]
  BY <1>1 DEF ReplayInv, TypeInv, TypeOK
<1>4. msgs \in Seq(Work \cup Breaks) /\ Len(msgs) = 3
  <2>1. /\ <<"request", replay[p]>> \in Work /\ <<"data", replay[p]>> \in Work
        /\ <<"finished", replay[p]>> \in Work
    BY <1>3 DEF Work
  <2>. QED
    BY <2>1
<1>5. inbox' \in [Conns -> Seq(Work \cup Breaks)]
  <2>1. inbox[k] \o msgs \in Seq(Work \cup Breaks)
    <3>. HIDE DEF msgs
    <3>. QED
      BY <1>2, <1>4, ConcatProperties
  <2>2. Sent(k, replay[p]) \in Seq(Work \cup Breaks)
    BY <1>2, <2>1 DEF Sent
  <2>. QED
    BY <1>1, <2>2 DEF TypeInv
<1>6. TypeInv'
  <2>1. apart' \in BOOLEAN
    BY <1>1, Zenon
  <2>. QED
    BY <1>1, <1>2, <1>5, <2>1, Sorts, InboxTypes DEF TypeInv, TypeOK
<1>7. ConnectInv' /\ ReplayInv' /\ (~SlowSetup => HeartInv')
  BY <1>1, <1>2, Sorts, ConnectSame, ReplaySame, HeartSame DEF Locked
<1>8. FreshInv'
  BY <1>1, <1>2, Sorts DEF FreshInv, Sent
<1>9. ASSUME ~apart' PROVE StreamInv'
  <2>0. ~apart /\ on[p] = k
    BY <1>1, <1>9, Zenon
  <2>1. on[p] = k /\ executor[k] = replay[p] /\ replay[p] # 0
    BY <1>3, <2>0, Sorts
  <2>2. ~Runs(k) /\ \A c \in Conns : Runs(c) => Runs(c)'
    BY <1>1, <1>2, <2>1, Sorts DEF Runs
  <2>3. \A c \in Conns : AnswerOf(c)'
    BY <1>1, <2>0, <2>2, AnswerOfSame DEF StreamInv
  <2>4. \A c \in Conns : c # k => StreamOf(c)'
    BY <1>1, <1>2, <2>0, <2>2, StreamOfSame DEF StreamInv
  <2>5. StreamOf(k)'
    <3>1. CASE k \in stream /\ ~Broken(k)
      <4>1. handler[k] = "recv"
        BY <2>0, <2>2, <3>1 DEF StreamInv, StreamOf, AnswerOf
      <4>2. \A i \in DOMAIN inbox[k] : inbox[k][i][1] = "lost"
        BY <2>0, <2>2, <4>1 DEF StreamInv, StreamOf
      <4>3. \A i \in DOMAIN inbox[k] : FALSE
        BY <3>1, <4>2 DEF Broken
      <4>4. inbox[k] = <<>>
        <5>1. Len(inbox[k]) \in Nat /\ DOMAIN inbox[k] = 1 .. Len(inbox[k])
          BY <1>2
        <5>2. Len(inbox[k]) # 0 => 1 \in DOMAIN inbox[k]
          BY <5>1
        <5>3. Len(inbox[k]) = 0
          BY <4>3, <5>2
        <5>. QED
          BY <1>2, <5>3, EmptySeq
      <4>5. inbox'[k] = msgs
        BY <1>2, <3>1, <4>4 DEF Sent
      <4>6. Runs(k)'
        <5>1. \A q \in Replayers : on[q] = k => q = p
          BY <2>1, OneOwner, Sorts
        <5>. QED
          BY <1>1, <1>2, <2>1, <5>1 DEF Runs
      <4>7. \A i \in DOMAIN msgs : i \in 1 .. 3 /\ msgs[i][2] = replay[p]
        OBVIOUS
      <4>8. \A i, j \in DOMAIN msgs : msgs[i][1] = "finished" => ~(i < j)
        OBVIOUS
      <4>. QED
        BY <1>1, <2>1, <4>1, <4>5, <4>6, <4>7, <4>8 DEF StreamOf
    <3>2. CASE ~(k \in stream /\ ~Broken(k))
      BY <1>1, <1>2, <2>0, <2>2, <3>2, StreamOfSame DEF StreamInv, Sent
    <3>. QED
      BY <3>1, <3>2
  <2>. QED
    BY <2>3, <2>4, <2>5 DEF StreamInv
<1>10. NoCrossTalk'
  BY <1>1 DEF NoCrossTalk
<1>. QED
  BY <1>1, <1>6, <1>7, <1>8, <1>9, <1>10, Alive

LEMMA ReplayFailedKeeps ==
  ASSUME IInv, ~panicked, NEW p \in Replayers, ReplayFailed(p) PROVE IInv'
<1>. USE DEF IInv, AliveInv
<1>1. /\ at[p] = "failed"
      /\ answer' = [answer EXCEPT ![replay[p]] = "error"]
      /\ replay' = [replay EXCEPT ![p] = 0]
      /\ at' = [at EXCEPT ![p] = "idle"]
      /\ UNCHANGED <<mutex, info, shut, open, mine, dialled, stream, executor, inbox, handler,
                     held, posted, ended, on, begun, apart, faults, panicked>>
  BY DEF ReplayFailed, connVars, streamVars
<1>2. /\ at'[p] = "idle" /\ \A a \in Actors : a # p => at'[a] = at[a]
      /\ replay'[p] = 0 /\ \A q \in Replayers : q # p => replay'[q] = replay[q]
  BY <1>1, Sorts DEF TypeInv, TypeOK
<1>3. TypeInv'
  BY <1>1, <1>2, Sorts DEF TypeInv, TypeOK
<1>4. ConnectInv' /\ FreshInv' /\ (~SlowSetup => HeartInv')
  BY <1>1, <1>2, Sorts, ConnectSame, FreshSame, HeartSame DEF Locked
<1>5. ReplayInv'
  <2>1. 0 <= begun
    BY DEF TypeInv, TypeOK
  <2>2. on[p] = 0
    BY <1>1 DEF ReplayInv
  <2>. QED
    BY <1>1, <1>2, <2>1, <2>2, Sorts DEF ReplayInv
<1>6. ASSUME ~apart PROVE StreamInv'
  <2>1. \A c \in Conns : Runs(c) => Runs(c)'
    BY <1>1, <1>2, Sorts, RunsSame
  <2>2. \A c \in Conns : StreamOf(c)'
    BY <1>1, <1>6, <2>1, StreamOfSame DEF StreamInv
  <2>3. ASSUME NEW c \in Conns PROVE AnswerOf(c)'
    <3>1. handler[c] = "sendingEnd" => \A q \in Replayers : replay'[q] = held[c][1] => on[q] = c
      BY <1>1, <1>2, <1>6, Sorts DEF StreamInv, AnswerOf, TypeInv, TypeOK
    <3>. QED
      BY <1>1, <1>6, <2>1, <3>1 DEF StreamInv, AnswerOf
  <2>. QED
    BY <2>2, <2>3 DEF StreamInv
<1>7. NoCrossTalk'
  <2>1. \A n \in Replays : answer'[n] = "ok" => answer[n] = "ok"
    BY <1>1 DEF TypeInv, TypeOK
  <2>. QED
    BY <1>1, <2>1 DEF NoCrossTalk
<1>. QED
  BY <1>1, <1>3, <1>4, <1>5, <1>6, <1>7, Alive

LEMMA CleanKeeps ==
  ASSUME IInv, ~panicked, NEW p \in Replayers, Clean(p) PROVE IInv'
<1>. USE DEF IInv, AliveInv
<1>1. on[p] \in Conns /\ replay[p] # 0 /\ executor[on[p]] = replay[p] /\ at[p] = "clean"
  BY DEF Clean, ReplayInv, TypeInv, TypeOK
<1>. PICK k \in Conns : k = on[p]
  BY <1>1
<1>2. /\ executor' = [executor EXCEPT ![k] = 0]
      /\ on' = [on EXCEPT ![p] = 0]
      /\ replay' = [replay EXCEPT ![p] = 0]
      /\ at' = [at EXCEPT ![p] = "idle"]
      /\ UNCHANGED <<mutex, info, shut, open, mine, dialled, stream, inbox, handler, held,
                     posted, ended, begun, apart, answer, faults, panicked>>
  BY DEF Clean, connVars
<1>3. /\ at'[p] = "idle" /\ \A a \in Actors : a # p => at'[a] = at[a]
      /\ replay'[p] = 0 /\ \A q \in Replayers : q # p => replay'[q] = replay[q]
      /\ on'[p] = 0 /\ \A q \in Replayers : q # p => on'[q] = on[q]
      /\ executor'[k] = 0 /\ \A c \in Conns : c # k => executor'[c] = executor[c]
  BY <1>2, Sorts DEF TypeInv, TypeOK
<1>4. \A q \in Replayers : q # p => on[q] # k
  BY <1>1, OneOwner, Sorts
<1>5. TypeInv'
  BY <1>2, <1>3, Sorts DEF TypeInv, TypeOK
<1>6. ConnectInv' /\ FreshInv' /\ (~SlowSetup => HeartInv')
  BY <1>1, <1>2, <1>3, Sorts, ConnectSame, FreshSame, HeartSame DEF Locked
<1>7. ReplayInv'
  <2>1. 0 <= begun
    BY DEF TypeInv, TypeOK
  <2>2. \A q \in Replayers : on'[q] # 0 => executor'[on'[q]] = replay'[q]
    <3>. SUFFICES ASSUME NEW q \in Replayers, on'[q] # 0 PROVE executor'[on'[q]] = replay'[q]
      OBVIOUS
    <3>1. q # p /\ on'[q] = on[q] /\ replay'[q] = replay[q]
      BY <1>3
    <3>2. on[q] \in Conns /\ on[q] # k /\ executor[on[q]] = replay[q]
      BY <1>4, <3>1 DEF ReplayInv, TypeInv, TypeOK
    <3>. QED
      BY <1>3, <3>1, <3>2
  <2>3. \A c \in Conns : executor'[c] # 0 => \E q \in Replayers : on'[q] = c
    <3>. SUFFICES ASSUME NEW c \in Conns, executor'[c] # 0 PROVE \E q \in Replayers : on'[q] = c
      OBVIOUS
    <3>1. PICK q \in Replayers : on[q] = c
      BY <1>3 DEF ReplayInv
    <3>. QED
      BY <1>3, <3>1
  <2>. QED
    BY <1>2, <1>3, <2>1, <2>2, <2>3, Sorts DEF ReplayInv
<1>8. ASSUME ~apart PROVE StreamInv'
  <2>1. ~Runs(k)
    BY <1>1 DEF Runs
  <2>2. \A c \in Conns : Runs(c) => Runs(c)'
    BY <1>3, <2>1, Sorts DEF Runs
  <2>3. \A c \in Conns : c # k => StreamOf(c)'
    BY <1>2, <1>3, <1>8, <2>2, StreamOfSame DEF StreamInv
  <2>4. StreamOf(k)'
    <3>1. handler[k] \in {"recv", "sending"} =>
            \A i \in DOMAIN inbox[k] : inbox[k][i][1] = "lost"
      BY <1>8, <2>1 DEF StreamInv, StreamOf
    <3>. QED
      BY <1>2, <1>8, <3>1 DEF StreamInv, StreamOf, Work
  <2>5. \A c \in Conns : handler[c] = "sendingEnd" =>
          \A q \in Replayers : replay'[q] = held[c][1] => on'[q] = c
    <3>1. \A c \in Conns : handler[c] = "sendingEnd" => held[c][1] # 0
      BY Sorts DEF TypeInv, TypeOK
    <3>. QED
      BY <1>3, <1>8, <3>1, Sorts DEF StreamInv, AnswerOf
  <2>6. \A c \in Conns : c # k => AnswerOf(c)'
    BY <1>2, <1>3, <1>8, <2>2, <2>5 DEF StreamInv, AnswerOf
  <2>7. AnswerOf(k)'
    BY <1>2, <1>8, <2>1, <2>5 DEF StreamInv, AnswerOf
  <2>. QED
    BY <2>3, <2>4, <2>6, <2>7 DEF StreamInv
<1>9. NoCrossTalk'
  BY <1>2, CrossSame
<1>. QED
  BY <1>2, <1>5, <1>6, <1>7, <1>8, <1>9, Alive

-----------------------------------------------------------------------------
(***************************************************************************)
(* Handlers and streams.                                                   *)
(***************************************************************************)
\* A step of one handler, or of its stream, leaves the rest of the invariant
\* alone.
LEMMA HandlerStep ==
  ASSUME IInv, ~panicked, NEW c \in Conns,
         handler[c] \notin {"none", "start"}, handler'[c] \notin {"none", "start"},
         UNCHANGED <<connVars, executor, replayVars, at, panicked>>,
         stream' \subseteq stream, ended \subseteq ended',
         \A d \in Conns : d # c => UNCHANGED <<handler[d], held[d], inbox[d]>>,
         TypeInv',
         ~apart' => StreamOf(c)' /\ AnswerOf(c)',
         NoCrossTalk'
  PROVE  IInv'
<1>. USE DEF IInv, AliveInv
<1>1. UNCHANGED <<mutex, info, shut, open, mine, dialled, replay, on, begun, apart, executor, at>>
  BY DEF connVars, replayVars
<1>2. ConnectInv' /\ ReplayInv' /\ (~SlowSetup => HeartInv')
  BY <1>1, ConnectSame, ReplaySame, HeartSame
<1>3. FreshInv'
  BY <1>1 DEF FreshInv
<1>4. ASSUME ~apart PROVE StreamInv'
  <2>1. \A d \in Conns : Runs(d) => Runs(d)'
    BY <1>1, RunsSame
  <2>2. \A d \in Conns : d # c => StreamOf(d)' /\ AnswerOf(d)'
    BY <1>1, <1>4, <2>1, StreamOfSame, AnswerOfSame DEF StreamInv
  <2>. QED
    BY <1>1, <1>4, <2>2 DEF StreamInv
<1>. QED
  BY <1>1, <1>2, <1>3, <1>4, Alive

\* Received takes the first message of a stream.
LEMMA ReceivedFirst ==
  ASSUME TypeInv, NEW c \in Conns, inbox[c] # <<>>, Received(c)
  PROVE  /\ inbox' \in [Conns -> Seq(Work \cup Breaks)]
         /\ \A d \in Conns : d # c => inbox'[d] = inbox[d]
         /\ 1 \in DOMAIN inbox[c] /\ inbox[c][1] = Head(inbox[c])
         /\ Head(inbox[c]) \in Work \cup Breaks
         /\ \A i \in DOMAIN inbox'[c] :
              i \in Nat /\ i > 0 /\ i + 1 \in DOMAIN inbox[c] /\ inbox'[c][i] = inbox[c][i + 1]
<1>1. inbox[c] \in Seq(Work \cup Breaks)
  BY DEF TypeInv
<1>2. /\ Tail(inbox[c]) \in Seq(Work \cup Breaks)
      /\ Head(inbox[c]) \in Work \cup Breaks /\ inbox[c][1] = Head(inbox[c])
      /\ Len(inbox[c]) \in Nat \ {0} /\ DOMAIN inbox[c] = 1 .. Len(inbox[c])
      /\ DOMAIN Tail(inbox[c]) = 1 .. Len(inbox[c]) - 1
      /\ \A i \in 1 .. Len(inbox[c]) - 1 : Tail(inbox[c])[i] = inbox[c][i + 1]
  BY <1>1, EmptySeq, HeadTailProperties
<1>3. /\ inbox' \in [Conns -> Seq(Work \cup Breaks)]
      /\ inbox'[c] = Tail(inbox[c])
      /\ \A d \in Conns : d # c => inbox'[d] = inbox[d]
  BY <1>2 DEF Received, TypeInv
<1>. QED
  BY <1>2, <1>3

\* What is left of a stream keeps its order.
LEMMA ReceivedOrder ==
  ASSUME TypeInv, NEW c \in Conns, inbox[c] # <<>>, Received(c), StreamOf(c)
  PROVE  /\ \A i, j \in DOMAIN inbox'[c] :
              inbox'[c][i][1] = "finished" /\ i < j => inbox'[c][j][1] = "lost"
         /\ Head(inbox[c])[1] = "finished" =>
              \A j \in DOMAIN inbox'[c] : inbox'[c][j][1] = "lost"
<1>1. /\ 1 \in DOMAIN inbox[c] /\ inbox[c][1] = Head(inbox[c])
      /\ \A i \in DOMAIN inbox'[c] :
           i \in Nat /\ i > 0 /\ i + 1 \in DOMAIN inbox[c] /\ inbox'[c][i] = inbox[c][i + 1]
  BY ReceivedFirst
<1>2. \A i, j \in DOMAIN inbox[c] :
        inbox[c][i][1] = "finished" /\ i < j => inbox[c][j][1] = "lost"
  BY DEF StreamOf
<1>3. ASSUME NEW i \in DOMAIN inbox'[c], NEW j \in DOMAIN inbox'[c],
             inbox'[c][i][1] = "finished", i < j
      PROVE  inbox'[c][j][1] = "lost"
  <2>1. i + 1 \in DOMAIN inbox[c] /\ j + 1 \in DOMAIN inbox[c] /\ i + 1 < j + 1
    BY <1>1, <1>3
  <2>. QED
    BY <1>1, <1>2, <1>3, <2>1
<1>4. ASSUME Head(inbox[c])[1] = "finished", NEW j \in DOMAIN inbox'[c]
      PROVE  inbox'[c][j][1] = "lost"
  <2>1. j + 1 \in DOMAIN inbox[c] /\ 1 < j + 1
    BY <1>1
  <2>. QED
    BY <1>1, <1>2, <1>4, <2>1
<1>. QED
  BY <1>3, <1>4

\* A handler that goes on receiving, or that stops.
LEMMA ReceivedStream ==
  ASSUME TypeInv, NEW c \in Conns, inbox[c] # <<>>, Received(c), StreamOf(c),
         handler[c] = "recv", UNCHANGED <<executor, on, at>>,
         stream' \subseteq stream,
         \/ handler'[c] = "recv"
         \/ handler'[c] = "sending" /\ Head(inbox[c])[1] = "finished"
         \/ handler'[c] = "ending" /\ c \notin stream'
  PROVE  StreamOf(c)'
<1>1. \A i \in DOMAIN inbox'[c] : i + 1 \in DOMAIN inbox[c] /\ inbox'[c][i] = inbox[c][i + 1]
  BY ReceivedFirst
<1>2. Runs(c) => Runs(c)'
  BY RunsSame
<1>3. \A i, j \in DOMAIN inbox'[c] :
        inbox'[c][i][1] = "finished" /\ i < j => inbox'[c][j][1] = "lost"
  BY ReceivedOrder
<1>4. CASE handler'[c] = "recv"
  <2>1. \A i \in DOMAIN inbox[c] : /\ inbox[c][i][1] # "lost" => Runs(c)
                                   /\ inbox[c][i] \in Work => inbox[c][i][2] = executor[c]
    BY DEF StreamOf
  <2>2. \A i \in DOMAIN inbox'[c] : /\ inbox'[c][i][1] # "lost" => Runs(c)'
                                    /\ inbox'[c][i] \in Work => inbox'[c][i][2] = executor'[c]
    BY <1>1, <1>2, <2>1
  <2>. QED
    BY <1>3, <1>4, <2>2 DEF StreamOf
<1>5. CASE handler'[c] = "sending" /\ Head(inbox[c])[1] = "finished"
  <2>1. \A i \in DOMAIN inbox'[c] : inbox'[c][i][1] = "lost"
    BY <1>5, ReceivedOrder
  <2>. QED
    BY <1>3, <1>5, <2>1 DEF StreamOf, Work
<1>6. CASE handler'[c] = "ending" /\ c \notin stream'
  BY <1>3, <1>6 DEF StreamOf
<1>. QED
  BY <1>4, <1>5, <1>6

\* The loop of a handler ends.
LEMMA EndingTypes ==
  ASSUME TypeInv, NEW c \in Conns, NEW r \in {"ok", "error"}, Ending(c, r)
  PROVE  /\ stream' = stream \ {c} /\ handler'[c] = "ending" /\ held'[c] = <<0, r>>
         /\ \A d \in Conns : d # c => UNCHANGED <<handler[d], held[d]>>
         /\ handler' \in [Conns -> {"none", "start", "recv", "ending", "sending",
                                    "sendingEnd", "done", "gone"}]
         /\ held' \in [Conns -> (Replays \cup {0}) \X {"none", "ok", "error"}]
         /\ \A d \in Conns : handler'[d] \in {"sending", "sendingEnd"} => held'[d][1] \in Replays
<1>1. /\ stream' = stream \ {c} /\ handler'[c] = "ending" /\ held'[c] = <<0, r>>
      /\ \A d \in Conns : d # c => handler'[d] = handler[d] /\ held'[d] = held[d]
      /\ handler' = [handler EXCEPT ![c] = "ending"]
      /\ held' = [held EXCEPT ![c] = <<0, r>>]
  BY DEF Ending, TypeInv, TypeOK
<1>2. <<0, r>> \in (Replays \cup {0}) \X {"none", "ok", "error"}
  OBVIOUS
<1>. QED
  BY <1>1, <1>2 DEF TypeInv, TypeOK

LEMMA HandleRequestKeeps ==
  ASSUME IInv, ~panicked, NEW c \in Conns, HandleRequest(c) PROVE IInv'
<1>. USE DEF IInv, AliveInv
<1>1. /\ handler[c] = "recv" /\ inbox[c] # <<>> /\ Received(c)
      /\ UNCHANGED <<connVars, executor, posted, ended, replayVars, at, panicked>>
      /\ UNCHANGED <<mutex, info, shut, open, mine, dialled, replay, on, begun, apart, answer>>
  BY DEF HandleRequest, connVars, replayVars
<1>2. /\ inbox' \in [Conns -> Seq(Work \cup Breaks)]
      /\ \A d \in Conns : d # c => inbox'[d] = inbox[d]
  BY <1>1, ReceivedFirst
<1>3. ~apart => StreamOf(c)
  BY DEF StreamInv
<1>4. NoCrossTalk'
  BY <1>1, CrossSame
<1>5. CASE UNCHANGED <<handler, held, stream, faults>>
  <2>1. TypeInv'
    BY <1>1, <1>2, <1>5, InboxTypes DEF TypeInv, TypeOK
  <2>2. ~apart' => StreamOf(c)'
    BY <1>1, <1>3, <1>5, ReceivedStream
  <2>3. ~apart' => AnswerOf(c)'
    BY <1>1, <1>5 DEF AnswerOf
  <2>. QED
    BY <1>1, <1>2, <1>4, <1>5, <2>1, <2>2, <2>3, HandlerStep
<1>6. CASE Fault("stream") /\ Ending(c, "error")
  <2>1. /\ stream' = stream \ {c} /\ handler'[c] = "ending" /\ held'[c] = <<0, "error">>
        /\ \A d \in Conns : d # c => UNCHANGED <<handler[d], held[d]>>
    BY <1>6, EndingTypes
  <2>2. TypeInv'
    BY <1>1, <1>2, <1>6, <2>1, InboxTypes, EndingTypes, FaultCounts DEF TypeInv, TypeOK
  <2>3. ~apart' => StreamOf(c)'
    BY <1>1, <1>3, <2>1, ReceivedStream
  <2>4. ~apart' => AnswerOf(c)'
    BY <2>1 DEF AnswerOf
  <2>. QED
    BY <1>1, <1>2, <1>4, <2>1, <2>2, <2>3, <2>4, HandlerStep
<1>. QED
  BY <1>5, <1>6 DEF HandleRequest

LEMMA HandleDataKeeps ==
  ASSUME IInv, ~panicked, NEW c \in Conns, HandleData(c) PROVE IInv'
<1>. USE DEF IInv, AliveInv
<1>1. /\ handler[c] = "recv" /\ inbox[c] # <<>> /\ Received(c) /\ Head(inbox[c])[1] = "data"
      /\ UNCHANGED <<connVars, executor, ended, replayVars, at, panicked>>
      /\ UNCHANGED <<mutex, info, shut, open, mine, dialled, replay, on, begun, apart, answer, faults>>
  BY DEF HandleData, connVars, replayVars
<1>2. /\ inbox' \in [Conns -> Seq(Work \cup Breaks)]
      /\ \A d \in Conns : d # c => inbox'[d] = inbox[d]
      /\ 1 \in DOMAIN inbox[c] /\ inbox[c][1] = Head(inbox[c])
      /\ Head(inbox[c]) \in Work \cup Breaks
  BY <1>1, ReceivedFirst
<1>3. Head(inbox[c]) \in Work /\ Head(inbox[c])[2] \in Replays
  BY <1>1, <1>2 DEF Work, Breaks
<1>4. ~apart => StreamOf(c)
  BY DEF StreamInv
<1>5. CASE executor[c] = 0
  <2>1. /\ stream' = stream \ {c} /\ handler'[c] = "ending" /\ held'[c] = <<0, "error">>
        /\ \A d \in Conns : d # c => UNCHANGED <<handler[d], held[d]>>
        /\ UNCHANGED posted
    BY <1>5, EndingTypes DEF HandleData
  <2>2. TypeInv'
    BY <1>1, <1>2, <1>5, <2>1, InboxTypes, EndingTypes DEF HandleData, TypeInv, TypeOK
  <2>3. ~apart' => StreamOf(c)'
    BY <1>1, <1>4, <2>1, ReceivedStream
  <2>4. ~apart' => AnswerOf(c)'
    BY <2>1 DEF AnswerOf
  <2>5. NoCrossTalk'
    BY <1>1, <2>1, CrossSame
  <2>. QED
    BY <1>1, <1>2, <2>1, <2>2, <2>3, <2>4, <2>5, HandlerStep
<1>6. CASE executor[c] # 0
  <2>1. /\ posted' = posted \cup {<<Head(inbox[c])[2], executor[c]>>}
        /\ UNCHANGED <<handler, held, stream>>
    BY <1>6 DEF HandleData
  <2>2. <<Head(inbox[c])[2], executor[c]>> \in Replays \X Replays
    BY <1>3, <1>6 DEF TypeInv, TypeOK
  <2>3. TypeInv'
    BY <1>1, <1>2, <2>1, <2>2, InboxTypes DEF TypeInv, TypeOK
  <2>4. ~apart' => StreamOf(c)'
    BY <1>1, <1>4, <2>1, ReceivedStream
  <2>5. ~apart' => AnswerOf(c)'
    BY <1>1, <2>1 DEF AnswerOf
  <2>6. NoCrossTalk'
    <3>1. ~apart => Head(inbox[c])[2] = executor[c]
      BY <1>1, <1>2, <1>3, <1>4 DEF StreamOf
    <3>. QED
      BY <1>1, <2>1, <3>1 DEF NoCrossTalk
  <2>. QED
    BY <1>1, <1>2, <2>1, <2>3, <2>4, <2>5, <2>6, HandlerStep
<1>. QED
  BY <1>5, <1>6

LEMMA HandleFinishedKeeps ==
  ASSUME IInv, ~panicked, NEW c \in Conns, HandleFinished(c) PROVE IInv'
<1>. USE DEF IInv, AliveInv
<1>1. /\ handler[c] = "recv" /\ inbox[c] # <<>> /\ Received(c) /\ Head(inbox[c])[1] = "finished"
      /\ ended' = ended \cup {Head(inbox[c])[2]}
      /\ UNCHANGED <<connVars, executor, posted, replayVars, at, panicked>>
      /\ UNCHANGED <<mutex, info, shut, open, mine, dialled, replay, on, begun, apart, answer, faults>>
  BY DEF HandleFinished, connVars, replayVars
<1>2. /\ inbox' \in [Conns -> Seq(Work \cup Breaks)]
      /\ \A d \in Conns : d # c => inbox'[d] = inbox[d]
      /\ 1 \in DOMAIN inbox[c] /\ inbox[c][1] = Head(inbox[c])
      /\ Head(inbox[c]) \in Work \cup Breaks
  BY <1>1, ReceivedFirst
<1>3. Head(inbox[c]) \in Work /\ Head(inbox[c])[2] \in Replays
  BY <1>1, <1>2 DEF Work, Breaks
<1>4. ~apart => StreamOf(c)
  BY DEF StreamInv
<1>5. NoCrossTalk'
  BY <1>1 DEF NoCrossTalk
<1>6. CASE executor[c] = 0
  <2>1. /\ stream' = stream \ {c} /\ handler'[c] = "ending" /\ held'[c] = <<0, "error">>
        /\ \A d \in Conns : d # c => UNCHANGED <<handler[d], held[d]>>
    BY <1>6, EndingTypes DEF HandleFinished
  <2>2. TypeInv'
    BY <1>1, <1>2, <1>3, <1>6, <2>1, InboxTypes, EndingTypes DEF HandleFinished, TypeInv, TypeOK
  <2>3. ~apart' => StreamOf(c)'
    BY <1>1, <1>4, <2>1, ReceivedStream
  <2>4. ~apart' => AnswerOf(c)'
    BY <2>1 DEF AnswerOf
  <2>. QED
    BY <1>1, <1>2, <1>5, <2>1, <2>2, <2>3, <2>4, HandlerStep
<1>7. CASE executor[c] # 0
  <2>1. /\ handler' = [handler EXCEPT ![c] = "sending"]
        /\ held' = [held EXCEPT ![c] = <<executor[c], "ok">>]
        /\ UNCHANGED stream
    BY <1>7 DEF HandleFinished
  <2>2. /\ handler'[c] = "sending" /\ held'[c] = <<executor[c], "ok">>
        /\ \A d \in Conns : d # c => handler'[d] = handler[d] /\ held'[d] = held[d]
    BY <2>1 DEF TypeInv, TypeOK
  <2>3. TypeInv'
    <3>1. executor[c] \in Replays
      BY <1>7 DEF TypeInv, TypeOK
    <3>2. /\ held' \in [Conns -> (Replays \cup {0}) \X {"none", "ok", "error"}]
          /\ \A d \in Conns : handler'[d] \in {"sending", "sendingEnd"} => held'[d][1] \in Replays
      BY <2>1, <2>2, <3>1 DEF TypeInv, TypeOK
    <3>. QED
      BY <1>1, <1>2, <1>3, <2>1, <3>2, InboxTypes DEF TypeInv, TypeOK
  <2>4. ~apart' => StreamOf(c)'
    BY <1>1, <1>4, <2>1, <2>2, ReceivedStream
  <2>5. ~apart' => AnswerOf(c)'
    <3>1. ~apart => Runs(c) /\ Head(inbox[c])[2] = executor[c]
      BY <1>1, <1>2, <1>3, <1>4 DEF StreamOf
    <3>2. Runs(c) => Runs(c)'
      BY <1>1, RunsSame
    <3>. QED
      BY <1>1, <2>2, <3>1, <3>2 DEF AnswerOf
  <2>. QED
    BY <1>1, <1>2, <1>5, <2>1, <2>2, <2>3, <2>4, <2>5, HandlerStep
<1>. QED
  BY <1>6, <1>7

LEMMA RecvEndKeeps ==
  ASSUME IInv, ~panicked, NEW c \in Conns, RecvEnd(c) PROVE IInv'
<1>. USE DEF IInv, AliveInv
<1>1. /\ handler[c] = "recv"
      /\ UNCHANGED <<connVars, executor, posted, replayVars, at, faults, panicked>>
      /\ UNCHANGED <<mutex, info, shut, open, mine, dialled, replay, on, begun, apart, answer>>
  BY DEF RecvEnd, connVars, replayVars
<1>2. ~apart => StreamOf(c)
  BY DEF StreamInv
<1>3. Runs(c) => Runs(c)'
  BY <1>1, RunsSame
<1>4. CASE Ending(c, "error") /\ UNCHANGED <<inbox, ended>>
  <2>1. /\ stream' = stream \ {c} /\ handler'[c] = "ending" /\ held'[c] = <<0, "error">>
        /\ \A d \in Conns : d # c => UNCHANGED <<handler[d], held[d]>>
    BY <1>4, EndingTypes
  <2>2. TypeInv'
    BY <1>1, <1>4, <2>1, EndingTypes DEF TypeInv, TypeOK
  <2>3. ~apart' => StreamOf(c)' /\ AnswerOf(c)'
    BY <1>1, <1>2, <1>4, <2>1 DEF StreamOf, AnswerOf
  <2>4. NoCrossTalk'
    BY <1>1, <1>4, CrossSame
  <2>. QED
    BY <1>1, <1>4, <2>1, <2>2, <2>3, <2>4, HandlerStep
<1>5. ASSUME inbox[c] # <<>>, Head(inbox[c])[1] \in {"lost", "crash"}, Received(c),
             NEW r \in {"ok", "error"}, Ending(c, r),
             ended' = IF Head(inbox[c])[1] = "crash" THEN ended \cup {executor[c]} ELSE ended,
             r = "ok" => Head(inbox[c])[1] = "crash"
      PROVE  IInv'
  <2>1. /\ stream' = stream \ {c} /\ handler'[c] = "ending" /\ held'[c] = <<0, r>>
        /\ \A d \in Conns : d # c => UNCHANGED <<handler[d], held[d]>>
    BY <1>5, EndingTypes
  <2>2. /\ inbox' \in [Conns -> Seq(Work \cup Breaks)]
        /\ \A d \in Conns : d # c => inbox'[d] = inbox[d]
        /\ 1 \in DOMAIN inbox[c] /\ inbox[c][1] = Head(inbox[c])
    BY <1>5, ReceivedFirst
  <2>3. ended \subseteq ended' /\ ended' \subseteq Replays \cup {0}
    BY <1>5 DEF TypeInv, TypeOK
  <2>4. TypeInv'
    BY <1>1, <1>5, <2>1, <2>2, <2>3, InboxTypes, EndingTypes DEF TypeInv, TypeOK
  <2>5. ~apart' => StreamOf(c)'
    BY <1>1, <1>2, <1>5, <2>1, ReceivedStream
  <2>6. ~apart' => AnswerOf(c)'
    <3>1. r = "ok" /\ ~apart => Runs(c) /\ executor[c] \in ended'
      BY <1>1, <1>2, <1>5, <2>2 DEF StreamOf
    <3>. QED
      BY <1>1, <1>3, <2>1, <3>1 DEF AnswerOf
  <2>7. NoCrossTalk'
    BY <1>1, <2>3 DEF NoCrossTalk
  <2>. QED
    BY <1>1, <2>1, <2>2, <2>3, <2>4, <2>5, <2>6, <2>7, HandlerStep
<1>. QED
  BY <1>4, <1>5 DEF RecvEnd

LEMMA HandlerEndKeeps ==
  ASSUME IInv, ~panicked, NEW c \in Conns, HandlerEnd(c) PROVE IInv'
<1>. USE DEF IInv, AliveInv
<1>1. /\ handler[c] = "ending"
      /\ handler' = [handler EXCEPT ![c] = IF executor[c] = 0 THEN "done" ELSE "sendingEnd"]
      /\ held' = [held EXCEPT ![c] = IF executor[c] = 0 THEN <<0, "none">>
                                     ELSE <<executor[c], held[c][2]>>]
      /\ UNCHANGED <<connVars, executor, replayVars, at, panicked>>
      /\ UNCHANGED <<mutex, info, shut, open, mine, dialled, replay, on, begun, apart, answer,
                     stream, inbox, posted, ended, faults>>
  BY DEF HandlerEnd, connVars, replayVars
<1>2. /\ handler'[c] = IF executor[c] = 0 THEN "done" ELSE "sendingEnd"
      /\ held'[c] = IF executor[c] = 0 THEN <<0, "none">> ELSE <<executor[c], held[c][2]>>
      /\ \A d \in Conns : d # c => handler'[d] = handler[d] /\ held'[d] = held[d]
  BY <1>1 DEF TypeInv, TypeOK
<1>3. TypeInv'
  <2>1. executor[c] \in Replays \cup {0} /\ held[c][2] \in {"none", "ok", "error"}
    BY DEF TypeInv, TypeOK
  <2>2. /\ held' \in [Conns -> (Replays \cup {0}) \X {"none", "ok", "error"}]
        /\ \A d \in Conns : handler'[d] \in {"sending", "sendingEnd"} => held'[d][1] \in Replays
    BY <1>1, <1>2, <2>1 DEF TypeInv, TypeOK
  <2>. QED
    BY <1>1, <2>2 DEF TypeInv, TypeOK
<1>4. ASSUME ~apart PROVE StreamOf(c)' /\ AnswerOf(c)'
  <2>1. c \notin stream
    BY <1>1, <1>4 DEF StreamInv, StreamOf
  <2>2. StreamOf(c)'
    BY <1>1, <1>2, <1>4, <2>1 DEF StreamInv, StreamOf
  <2>3. CASE executor[c] = 0
    BY <1>2, <2>2, <2>3 DEF AnswerOf
  <2>4. CASE executor[c] # 0
    <3>1. PICK p \in Replayers : on[p] = c
      BY <2>4 DEF ReplayInv
    <3>2. executor[c] = replay[p] /\ replay[p] <= begun
      BY <3>1, Sorts DEF ReplayInv
    <3>3. \A q \in Replayers : replay[q] = executor[c] => on[q] = c
      BY <2>4, <3>1, <3>2 DEF ReplayInv
    <3>4. held[c][2] = "ok" => executor[c] \in ended
      BY <1>1, <1>4 DEF StreamInv, AnswerOf
    <3>. QED
      BY <1>1, <1>2, <2>2, <2>4, <3>2, <3>3, <3>4 DEF AnswerOf
  <2>. QED
    BY <2>2, <2>3, <2>4
<1>5. NoCrossTalk'
  BY <1>1, CrossSame
<1>. QED
  BY <1>1, <1>2, <1>3, <1>4, <1>5, HandlerStep

\* The answer goes to the replay that runs on the handler's connection.
LEMMA DeliverKeeps ==
  ASSUME IInv, ~panicked, NEW c \in Conns, NEW p \in Replayers, Deliver(c, p) PROVE IInv'
<1>. USE DEF IInv, AliveInv
<1>1. /\ handler[c] \in {"sending", "sendingEnd"}
      /\ at[p] = "running" /\ replay[p] = held[c][1]
      /\ answer' = [answer EXCEPT ![replay[p]] = held[c][2]]
      /\ at' = [at EXCEPT ![p] = "clean"]
      /\ handler' = [handler EXCEPT ![c] = IF handler[c] = "sending" THEN "recv" ELSE "done"]
      /\ held' = [held EXCEPT ![c] = <<0, "none">>]
      /\ UNCHANGED <<mutex, info, shut, open, mine, dialled, stream, executor, inbox, posted,
                     ended, replay, on, begun, apart, faults, panicked>>
  BY DEF Deliver, connVars
<1>2. /\ at'[p] = "clean" /\ \A a \in Actors : a # p => at'[a] = at[a]
      /\ handler'[c] = IF handler[c] = "sending" THEN "recv" ELSE "done"
      /\ held'[c] = <<0, "none">>
      /\ \A d \in Conns : d # c => handler'[d] = handler[d] /\ held'[d] = held[d]
  BY <1>1, Sorts DEF TypeInv, TypeOK
<1>3. replay[p] \in Replays /\ held[c][2] \in {"none", "ok", "error"}
  BY <1>1 DEF TypeInv, TypeOK
<1>4. TypeInv'
  <2>1. <<0, "none">> \in (Replays \cup {0}) \X {"none", "ok", "error"}
    OBVIOUS
  <2>2. /\ held' \in [Conns -> (Replays \cup {0}) \X {"none", "ok", "error"}]
        /\ \A d \in Conns : handler'[d] \in {"sending", "sendingEnd"} => held'[d][1] \in Replays
    BY <1>1, <1>2, <2>1 DEF TypeInv, TypeOK
  <2>. QED
    BY <1>1, <1>2, <1>3, <2>2, Sorts DEF TypeInv, TypeOK
<1>5. ConnectInv' /\ ReplayInv' /\ (~SlowSetup => HeartInv')
  BY <1>1, <1>2, Sorts, ConnectSame, ReplaySame, HeartSame DEF Locked
<1>6. FreshInv'
  BY <1>1, <1>2, Sorts DEF FreshInv
<1>7. ASSUME ~apart PROVE StreamInv'
  <2>1. StreamOf(c) /\ AnswerOf(c)
    BY <1>7 DEF StreamInv
  <2>2. on[p] = c
    <3>1. CASE handler[c] = "sendingEnd"
      BY <1>1, <2>1, <3>1 DEF AnswerOf
    <3>2. CASE handler[c] = "sending"
      <4>1. executor[c] # 0 /\ replay[p] = executor[c]
        BY <1>1, <2>1, <3>2 DEF AnswerOf, Runs
      <4>2. PICK q \in Replayers : on[q] = c
        BY <4>1 DEF ReplayInv
      <4>3. replay[q] = executor[c]
        BY <4>2, Sorts DEF ReplayInv
      <4>. QED
        BY <4>1, <4>2, <4>3 DEF ReplayInv
    <3>. QED
      BY <1>1, <3>1, <3>2
  <2>3. \A d \in Conns : d # c => (Runs(d) => Runs(d)')
    BY <1>1, <1>2, <2>2, Sorts DEF Runs
  <2>4. \A d \in Conns : d # c => StreamOf(d)' /\ AnswerOf(d)'
    BY <1>1, <1>2, <1>7, <2>3, StreamOfSame, AnswerOfSame DEF StreamInv
  <2>5. StreamOf(c)' /\ AnswerOf(c)'
    <3>1. handler[c] = "sending" => \A i \in DOMAIN inbox[c] : inbox[c][i][1] = "lost"
      BY <2>1 DEF StreamOf
    <3>2. handler[c] = "sendingEnd" => c \notin stream
      BY <2>1 DEF StreamOf
    <3>. QED
      BY <1>1, <1>2, <2>1, <3>1, <3>2 DEF StreamOf, AnswerOf, Work
  <2>. QED
    BY <2>4, <2>5 DEF StreamInv
<1>8. ASSUME ~apart PROVE NoCrossTalk'
  <2>1. held[c][2] = "ok" => replay[p] \in ended
    BY <1>1, <1>8 DEF StreamInv, AnswerOf
  <2>2. \A n \in Replays : answer'[n] = IF n = replay[p] THEN held[c][2] ELSE answer[n]
    BY <1>1 DEF TypeInv, TypeOK
  <2>. QED
    BY <1>1, <1>8, <2>1, <2>2 DEF NoCrossTalk
<1>9. NoCrossTalk'
  BY <1>1, <1>8 DEF NoCrossTalk
<1>. QED
  BY <1>1, <1>4, <1>5, <1>6, <1>7, <1>9, Alive

\* A stream that breaks loses what is behind the break: a crash loses at least
\* the last message of the replay.
LEMMA StreamBreakKeeps ==
  ASSUME IInv, ~panicked, NEW c \in Conns, StreamBreak(c) PROVE IInv'
<1>. USE DEF IInv, AliveInv
<1>1. /\ c \in stream /\ ~Broken(c)
      /\ UNCHANGED <<connVars, executor, replayVars, at, panicked>>
      /\ UNCHANGED <<mutex, info, shut, open, mine, dialled, replay, on, begun, apart, answer,
                     stream, handler, held, posted, ended>>
  BY DEF StreamBreak, connVars, replayVars
<1>2. inbox[c] \in Seq(Work \cup Breaks) /\ Len(inbox[c]) \in Nat /\ DOMAIN inbox[c] = 1 .. Len(inbox[c])
  BY DEF TypeInv
<1>3. PICK k \in 0 .. Len(inbox[c]), m \in {"lost", "crash"} :
        /\ m = "crash" => k < Len(inbox[c])
        /\ Fault("stream") \/ Fault("crash")
        /\ inbox' = [inbox EXCEPT ![c] = Append(SubSeq(inbox[c], 1, k), <<m, 0>>)]
  BY DEF StreamBreak
<1>4. /\ SubSeq(inbox[c], 1, k) \in Seq(Work \cup Breaks)
      /\ Len(SubSeq(inbox[c], 1, k)) = k /\ k \in Nat
      /\ \A i \in 1 .. k : i \in DOMAIN inbox[c] /\ SubSeq(inbox[c], 1, k)[i] = inbox[c][i]
  BY <1>2, <1>3, SubSeqProperties
<1>5. <<m, 0>> \in Breaks
  BY DEF Breaks
<1>6. /\ inbox' \in [Conns -> Seq(Work \cup Breaks)]
      /\ \A d \in Conns : d # c => inbox'[d] = inbox[d]
      /\ DOMAIN inbox'[c] = 1 .. k + 1
      /\ inbox'[c][k + 1] = <<m, 0>>
      /\ \A i \in 1 .. k : inbox'[c][i] = inbox[c][i]
  <2>1. inbox'[c] = Append(SubSeq(inbox[c], 1, k), <<m, 0>>)
    BY <1>3 DEF TypeInv
  <2>2. inbox'[c] \in Seq(Work \cup Breaks)
    BY <1>4, <1>5, <2>1, AppendProperties
  <2>3. /\ DOMAIN inbox'[c] = 1 .. k + 1
        /\ inbox'[c][k + 1] = <<m, 0>>
        /\ \A i \in 1 .. k : inbox'[c][i] = inbox[c][i]
    BY <1>4, <1>5, <2>1, AppendProperties
  <2>4. \A d \in Conns : d # c => inbox'[d] = inbox[d]
    BY <1>3 DEF TypeInv
  <2>5. inbox' \in [Conns -> Seq(Work \cup Breaks)]
    BY <1>3, <2>1, <2>2 DEF TypeInv
  <2>. QED
    BY <2>3, <2>4, <2>5
<1>7. TypeInv'
  BY <1>1, <1>3, <1>6, InboxTypes, FaultCounts DEF TypeInv, TypeOK
<1>8. handler[c] \notin {"none", "start"}
  BY <1>1 DEF FreshInv
<1>9. ASSUME ~apart PROVE StreamOf(c)'
  <2>1. StreamOf(c) /\ Runs(c) => Runs(c)'
    BY <1>1, <1>9, RunsSame DEF StreamInv
  <2>2. StreamOf(c)
    BY <1>9 DEF StreamInv
  <2>3. \A i \in DOMAIN inbox[c] : inbox[c][i][1] \notin {"lost", "crash"}
    BY <1>1 DEF Broken
  <2>4. handler[c] \in {"recv", "sending"}
    BY <1>1, <2>2 DEF StreamOf
  <2>5. m = "crash" => handler[c] = "recv" /\ Runs(c)
    <3>1. m = "crash" => 1 \in DOMAIN inbox[c]
      BY <1>2, <1>3
    <3>. QED
      BY <2>2, <2>3, <2>4, <3>1 DEF StreamOf
  <2>6. ASSUME NEW i \in DOMAIN inbox'[c], NEW j \in DOMAIN inbox'[c],
               inbox'[c][i][1] = "finished", i < j
        PROVE  inbox'[c][j][1] = "lost"
    <3>1. i \in 1 .. k /\ inbox[c][i][1] = "finished" /\ i \in DOMAIN inbox[c]
      <4>1. i # k + 1
        BY <1>3, <1>6, <2>6
      <4>2. i \in 1 .. k
        BY <1>4, <1>6, <4>1
      <4>. QED
        BY <1>4, <1>6, <2>6, <4>2
    <3>2. \A l \in DOMAIN inbox[c] : ~(i < l)
      BY <2>2, <2>3, <3>1 DEF StreamOf
    <3>3. i = k /\ k = Len(inbox[c])
      <4>1. Len(inbox[c]) \in DOMAIN inbox[c] /\ i <= k /\ k <= Len(inbox[c]) /\ i \in Nat
        BY <1>2, <1>3, <3>1
      <4>2. ~(i < Len(inbox[c]))
        BY <3>2, <4>1
      <4>. QED
        BY <1>2, <1>4, <4>1, <4>2
    <3>4. j = k + 1 /\ m = "lost"
      BY <1>3, <1>4, <1>6, <2>6, <3>3
    <3>. QED
      BY <1>6, <3>4
  <2>7. \A i \in DOMAIN inbox'[c] :
          /\ inbox'[c][i][1] # "lost" => handler[c] = "recv" /\ Runs(c)
          /\ inbox'[c][i] \in Work => inbox'[c][i][2] = executor[c]
    <3>1. \A i \in 1 .. k :
            /\ inbox'[c][i][1] # "lost" => handler[c] = "recv" /\ Runs(c)
            /\ inbox'[c][i] \in Work => inbox'[c][i][2] = executor[c]
      BY <1>4, <1>6, <2>2, <2>4 DEF StreamOf
    <3>2. /\ inbox'[c][k + 1][1] # "lost" => handler[c] = "recv" /\ Runs(c)
          /\ inbox'[c][k + 1] \notin Work
      BY <1>6, <2>5 DEF Work
    <3>3. \A i \in DOMAIN inbox'[c] : i \in 1 .. k \/ i = k + 1
      BY <1>4, <1>6
    <3>. QED
      BY <3>1, <3>2, <3>3
  <2>. QED
    BY <1>1, <2>1, <2>2, <2>4, <2>6, <2>7 DEF StreamOf
<1>10. ~apart' => AnswerOf(c)'
  <2>1. \A d \in Conns : Runs(d) => Runs(d)'
    BY <1>1, RunsSame
  <2>. QED
    BY <1>1, <2>1, AnswerOfSame DEF StreamInv
<1>11. NoCrossTalk'
  BY <1>1, CrossSame
<1>. QED
  BY <1>1, <1>6, <1>7, <1>8, <1>9, <1>10, <1>11, HandlerStep

-----------------------------------------------------------------------------
(***************************************************************************)
(* The theorems.                                                           *)
(***************************************************************************)
\* Every step of every goroutine of gapir/client and gapis/replay keeps the
\* inductive invariant.
THEOREM Invariance == Spec => []IInv
<1>1. Init => IInv
  <2>. SUFFICES ASSUME Init PROVE IInv
    OBVIOUS
  <2>1. TypeInv
    <3>1. begun \in 0 .. MaxReplays /\ dialled \in 0 .. MaxConns /\ 0 \in 0 .. MaxFaults
      BY ClientAssumption DEF Init
    <3>2. faults \in (0 .. MaxFaults) \X BOOLEAN
      BY <3>1 DEF Init
    <3>3. inbox \in [Conns -> Seq(Work \cup Breaks)] /\ \A c \in Conns : inbox[c] = <<>>
      BY DEF Init
    <3>4. held \in [Conns -> (Replays \cup {0}) \X {"none", "ok", "error"}]
      BY DEF Init
    <3>5. \A a \in Actors : at[a] = IF a \in Replayers THEN "idle" ELSE "none"
      BY DEF Init
    <3>6. /\ executor \in [Conns -> Replays \cup {0}] /\ mine \in [Actors -> Conns \cup {0}]
          /\ replay \in [Replayers -> Replays \cup {0}] /\ on \in [Replayers -> Conns \cup {0}]
      BY DEF Init
    <3>7. \A c \in Conns : \A i \in DOMAIN inbox[c] : FALSE
      BY <3>3
    <3>8. at \in [Actors -> {"idle", "none"}] /\ handler \in [Conns -> {"none"}]
          /\ answer \in [Replays -> {"none"}]
      BY DEF Init
    <3>9. TypeOK
      BY <3>1, <3>4, <3>2, <3>6, <3>7, <3>8 DEF Init, TypeOK
    <3>. QED
      BY <3>3, <3>5, <3>9, Sorts DEF TypeInv
  <2>2. ConnectInv /\ FreshInv /\ ReplayInv
    BY Sorts DEF Init, ConnectInv, FreshInv, ReplayInv
  <2>3. HeartInv
    BY Sorts DEF Init, HeartInv, Beating
  <2>4. StreamInv
    BY Sorts DEF Init, StreamInv, StreamOf, AnswerOf
  <2>5. NoCrossTalk /\ ~panicked
    BY DEF Init, NoCrossTalk
  <2>. QED
    BY <2>1, <2>2, <2>3, <2>4, <2>5 DEF IInv, AliveInv
<1>2. IInv /\ [Next]_vars => IInv'
  <2>. SUFFICES ASSUME IInv, [Next]_vars PROVE IInv'
    OBVIOUS
  <2>1. CASE UNCHANGED vars
    <3>1. UNCHANGED <<mutex, info, shut, open, mine, dialled, stream, executor, inbox, handler,
                      held, posted, ended, replay, on, begun, apart, answer, at, faults, panicked>>
      BY <2>1 DEF vars, connVars, streamVars, replayVars
    <3>2. TypeInv'
      BY <3>1 DEF IInv, TypeInv, TypeOK
    <3>3. (panicked => DeadInv') /\ (NoCrossTalk')
      BY <3>1, CrossSame DEF IInv, DeadInv
    <3>4. ~panicked => ConnectInv' /\ FreshInv' /\ ReplayInv' /\ (~SlowSetup => HeartInv')
                         /\ (~apart' => StreamInv')
      BY <3>1, ConnectSame, FreshSame, ReplaySame, HeartSame, StreamSame DEF IInv, AliveInv
    <3>. QED
      BY <3>1, <3>2, <3>3, <3>4 DEF IInv, AliveInv
  <2>2. CASE Next
    <3>1. ~panicked
      BY <2>2, DeadStops
    <3>2. ASSUME Panic PROVE IInv'
      BY <3>2, PanicKeeps
    <3>3. ASSUME NEW a \in Actors,
                 ConnectLock(a) \/ ConnectDial(a) \/ ConnectFail(a) \/ ConnectRegister(a)
          PROVE  IInv'
      BY <3>1, <3>3, ConnectLockKeeps, ConnectDialKeeps, ConnectFailKeeps, ConnectRegisterKeeps
    <3>4. ASSUME NEW c \in Conns,
                 \/ StreamOpen(c) \/ StreamOpenFail(c) \/ PingFail(c) \/ HeartbeatStop(c)
          PROVE  IInv'
      BY <3>1, <3>4, StreamOpenKeeps, StreamOpenFailKeeps, PingFailKeeps, HeartbeatStopKeeps
    <3>5. ASSUME NEW h \in Conns, Remove(h) \/ RemoveBlind(h) PROVE IInv'
      BY <3>1, <3>2, <3>5, RemoveKeeps DEF Remove, RemoveBlind
    <3>6. ASSUME NEW p \in Replayers, Prewarm(p) \/ SetReplayExecutor(p) \/ BeginReplay(p)
          PROVE  IInv'
      <4>1. CASE info = 0
        BY <3>2, <3>6, <4>1 DEF Prewarm, SetReplayExecutor, BeginReplay
      <4>2. CASE info # 0
        BY <3>1, <3>6, <4>2, PrewarmKeeps, SetReplayExecutorKeeps, BeginReplayKeeps
      <4>. QED
        BY <4>1, <4>2
    <3>7. ASSUME NEW p \in Replayers, Execute(p) \/ ReplayFailed(p) \/ Clean(p) PROVE IInv'
      BY <3>1, <3>7, ExecuteKeeps, ReplayFailedKeeps, CleanKeeps
    <3>8. ASSUME NEW c \in Conns,
                 HandleRequest(c) \/ HandleData(c) \/ HandleFinished(c) \/ RecvEnd(c) \/ HandlerEnd(c)
          PROVE  IInv'
      BY <3>1, <3>8, HandleRequestKeeps, HandleDataKeeps, HandleFinishedKeeps, RecvEndKeeps,
         HandlerEndKeeps
    <3>9. ASSUME NEW c \in Conns, StreamBreak(c) \/ \E p \in Replayers : Deliver(c, p) PROVE IInv'
      BY <3>1, <3>9, StreamBreakKeeps, DeliverKeeps
    <3>10. Shutdown => IInv'
      BY <3>1, ShutdownKeeps
    <3>. QED
      BY <2>2, <3>3, <3>4, <3>5, <3>6, <3>7, <3>8, <3>9, <3>10 DEF Next
  <2>. QED
    BY <2>1, <2>2
<1>. QED
  BY <1>1, <1>2, PTL DEF Spec

\* The variables keep their types; among others a handler that sends an answer
\* sends that of a replay (background_connection.go:69 to 74).
THEOREM TypeCorrect == Spec => []TypeOK
<1>1. IInv => TypeOK
  BY DEF IInv, TypeInv
<1>. QED
  BY <1>1, Invariance, PTL

\* However many replayers and heartbeats race in Connect (client.go:79 to 127),
\* with each other, with removeConnection and with shutdown, at most one
\* connection is open, and it is registered or about to be.
THEOREM SingleConnection == Spec => []OneConnection
<1>1. IInv => OneConnection
  <2>. SUFFICES ASSUME IInv PROVE OneConnection
    OBVIOUS
  <2>1. open \subseteq {info} \cup {mine[a] : a \in Actors}
    BY DEF IInv, AliveInv, DeadInv, ConnectInv
  <2>2. \E x : open \subseteq {x}
    <3>1. CASE panicked
      BY <3>1 DEF IInv, DeadInv
    <3>2. CASE ~panicked /\ mutex = 0
      <4>1. ConnectInv /\ \A a \in Actors : mine[a] = 0
        BY <3>2, Sorts DEF IInv, AliveInv, ConnectInv
      <4>2. open \subseteq {info}
        BY <4>1, Sorts DEF IInv, TypeInv, TypeOK, ConnectInv
      <4>. QED
        BY <4>2
    <3>3. CASE ~panicked /\ mutex # 0
      <4>1. ConnectInv /\ mutex \in Actors
        BY <3>3 DEF IInv, AliveInv, TypeInv, TypeOK
      <4>2. at[mutex] \in Locked
        BY <4>1 DEF ConnectInv, Locked
      <4>3. info = 0 /\ \A b \in Actors : b # mutex => mine[b] = 0
        BY <4>1, <4>2, Alone
      <4>4. open \subseteq {mine[mutex]}
        BY <4>1, <4>3, Sorts DEF IInv, TypeInv, TypeOK, ConnectInv
      <4>. QED
        BY <4>4
    <3>. QED
      BY <3>1, <3>2, <3>3
  <2>3. Cardinality(open) <= 1
    <3>1. PICK x : open \subseteq {x}
      BY <2>2
    <3>2. open = {} \/ open = {x}
      BY <3>1
    <3>3. Cardinality({}) = 0 /\ Cardinality({x}) = 1
      BY FS_EmptySet, FS_Singleton
    <3>. QED
      BY <3>2, <3>3
  <2>. QED
    BY <2>1, <2>3 DEF OneConnection
<1>. QED
  BY <1>1, Invariance, PTL

\* The registered connection has its own heartbeat and no other
\* (client.go:207 to 221), provided that a set-up is shorter than
\* heartbeatInterval: otherwise the new connection's heartbeat pings before its
\* Connect has registered it.
THEOREM SingleHeartbeat == ASSUME ~SlowSetup PROVE Spec => []OneHeartbeat
<1>1. IInv => OneHeartbeat
  BY Sorts DEF IInv, AliveInv, DeadInv, HeartInv, Beating, OneHeartbeat, TypeInv, TypeOK
<1>. QED
  BY <1>1, Invariance, PTL

\* Data and answers reach the replay that they belong to, over any number of
\* replayers, reconnects, crashes and lost streams, as long as no replay finds
\* another connection in BeginReplay than in SetReplayExecutor (executor.go:82 to
\* 91): nothing but that can mix replays up.
THEOREM NoStrayMessages == Spec => []NoCrossTalk
<1>1. IInv => NoCrossTalk
  BY DEF IInv
<1>. QED
  BY <1>1, Invariance, PTL

=============================================================================
