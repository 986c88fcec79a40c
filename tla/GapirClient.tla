---------------------------- MODULE GapirClient -----------------------------
(***************************************************************************)
(* The client of the replay devices (gapir/client: client.go,              *)
(* connection.go, background_connection.go) and the replays that use it    *)
(* (gapis/replay: executor.go, batch.go), for one device and architecture, *)
(* that is one ConnectionKey.                                              *)
(*                                                                         *)
(* Three kinds of goroutine meet here.  A replayer executes replays: it    *)
(* connects, sets itself as the executor of the background connection,     *)
(* sends the replay and waits for the answer.  Every connection has a      *)
(* handler, which receives the device's messages and hands them to the     *)
(* executor, and a heartbeat, which pings and reconnects.  Connect runs on *)
(* a replayer or on a heartbeat, with the client's mutex; the lookups of   *)
(* clientInfos outside Connect take no mutex.                              *)
(*                                                                         *)
(* The device is external.  Told to begin replay n it requests the         *)
(* payload, posts data and reports the end; a stream delivers in order and *)
(* may break, with or without a crash dump, after any message.             *)
(***************************************************************************)
EXTENDS Integers, Sequences, FiniteSets

CONSTANTS Replayers,    \* goroutines that execute replays
          MaxReplays,   \* replays in all
          MaxConns,     \* connections in all
          Faults,       \* the faults that may happen, of FaultKinds
          MaxFaults,    \* how many
          SlowSetup     \* may a set-up take longer than heartbeatInterval?

FaultKinds == {"connect", "open", "stream", "crash", "ping"}

ASSUME ClientAssumption ==
  /\ MaxReplays \in Nat /\ MaxConns \in Nat /\ MaxFaults \in Nat
  /\ Replayers \cap Nat = {} /\ Faults \subseteq FaultKinds
  /\ SlowSetup \in BOOLEAN

Conns == 1 .. MaxConns      \* a connection, its handler and its heartbeat
Actors == Replayers \cup Conns
Replays == 1 .. MaxReplays

VARIABLES mutex,      \* who holds client.mutex, or 0
          info,       \* the connection in clientInfos, 0 if there is none
          shut,       \* has shutdown set clientInfos to nil?
          open,       \* connections that are dialled and not closed
          stream,     \* connections whose stream field is not nil
          executor,   \* bgConnection.executor: a replay, or 0
          inbox,      \* messages of the device that are still to be received
          handler,    \* where each handler goroutine is
          held,       \* the answer that a handler is sending, <<replay, result>>
          at,         \* where each replayer and heartbeat is
          mine,       \* the connection that a Connect is setting up, or 0
          replay,     \* the replay that a replayer executes, or 0
          on,         \* the connection whose executor it has set
          begun,      \* replays so far
          apart,      \* has a replay begun on another connection than its executor's?
          dialled,    \* connections so far
          answer,     \* how each replay ended
          posted,     \* <<n, e>>: data of replay n was handled by executor e
          ended,      \* replays that the device ended, or crashed in
          faults,     \* how many faults there were, and whether a stream was lost
          panicked    \* a nil dereference has ended the process

connVars == <<mutex, info, shut, open, mine, dialled>>
streamVars == <<stream, executor, inbox, handler, held, posted, ended>>
replayVars == <<replay, on, begun, answer, apart>>
vars == <<connVars, streamVars, replayVars, at, faults, panicked>>

Fault(kind) ==
  /\ kind \in Faults
  /\ faults[1] < MaxFaults
  /\ faults' = <<faults[1] + 1, faults[2] \/ kind \in {"open", "stream", "crash"}>>

Init ==
  /\ mutex = 0 /\ info = 0 /\ shut = FALSE
  /\ open = {} /\ stream = {}
  /\ executor = [c \in Conns |-> 0]
  /\ inbox = [c \in Conns |-> <<>>]
  /\ handler = [c \in Conns |-> "none"]
  /\ held = [c \in Conns |-> <<0, "none">>]
  /\ at = [a \in Actors |-> IF a \in Replayers THEN "idle" ELSE "none"]
  /\ mine = [a \in Actors |-> 0]
  /\ replay = [p \in Replayers |-> 0]
  /\ on = [p \in Replayers |-> 0]
  /\ begun = 0 /\ apart = FALSE /\ dialled = 0
  /\ answer = [n \in Replays |-> "none"]
  /\ posted = {} /\ ended = {}
  /\ faults = <<0, FALSE>> /\ panicked = FALSE

\* A nil dereference ends the process, and every goroutine with it.
Panic ==
  /\ panicked' = TRUE
  /\ at' = [a \in Actors |-> "gone"]
  /\ handler' = [c \in Conns |-> "gone"]
  /\ mutex' = 0 /\ info' = 0 /\ shut' = TRUE /\ open' = {} /\ stream' = {}
  /\ UNCHANGED <<mine, dialled, executor, inbox, held, posted, ended, replayVars, faults>>

-----------------------------------------------------------------------------
\* Connect, on a replayer or on a heartbeat.  The mutant keeps a heartbeat
\* running after it has reconnected.
ReturnBeats(a, ok) ==
  IF a \in Conns THEN "waiting" ELSE IF ok THEN "keyed" ELSE "failed"
Return(a, ok) ==
  IF a \in Conns THEN "done" ELSE IF ok THEN "keyed" ELSE "failed"

\* Mutant of ConnectLock: a registered connection is not looked for.
ConnectLockAlways(a) ==
  /\ at[a] = "connect"
  /\ mutex = 0
  /\ IF shut
     THEN at' = [at EXCEPT ![a] = Return(a, ~shut)] /\ UNCHANGED mutex
     ELSE at' = [at EXCEPT ![a] = "setup"] /\ mutex' = a
  /\ UNCHANGED <<info, shut, open, mine, dialled, streamVars, replayVars, faults, panicked>>

ConnectLock(a) ==
  /\ at[a] = "connect"
  /\ mutex = 0
  /\ IF shut \/ info # 0
     THEN at' = [at EXCEPT ![a] = Return(a, ~shut)] /\ UNCHANGED mutex
     ELSE at' = [at EXCEPT ![a] = "setup"] /\ mutex' = a
  /\ UNCHANGED <<info, shut, open, mine, dialled, streamVars, replayVars, faults, panicked>>

\* initDeviceConnection and newConnection; the heartbeat and the handler start.
ConnectDial(a) ==
  LET c == dialled + 1 IN
  /\ at[a] = "setup"
  /\ dialled < MaxConns
  /\ dialled' = c
  /\ open' = open \cup {c}
  /\ mine' = [mine EXCEPT ![a] = c]
  /\ handler' = [handler EXCEPT ![c] = "start"]
  /\ at' = [at EXCEPT ![a] = "wait", ![c] = "waiting"]
  /\ UNCHANGED <<mutex, info, shut, stream, executor, inbox, held, posted, ended,
                 replayVars, faults, panicked>>

ConnectFail(a) ==
  /\ at[a] = "setup"
  /\ Fault("connect")
  /\ mutex' = 0
  /\ at' = [at EXCEPT ![a] = Return(a, FALSE)]
  /\ UNCHANGED <<info, shut, open, mine, dialled, streamVars, replayVars, panicked>>

\* HandleReplayCommunication opens the stream and tells makeBackgroundConnection.
StreamOpen(c) ==
  /\ handler[c] = "start"
  /\ c \in open
  /\ stream' = stream \cup {c}
  /\ handler' = [handler EXCEPT ![c] = "recv"]
  /\ at' = [a \in Actors |-> IF mine[a] = c THEN "register" ELSE at[a]]
  /\ UNCHANGED <<connVars, executor, inbox, held, posted, ended, replayVars, faults, panicked>>

\* The two returns that leave the connected channel alone.
StreamOpenFail(c) ==
  /\ handler[c] = "start"
  /\ IF c \in open THEN Fault("open") ELSE UNCHANGED faults
  /\ handler' = [handler EXCEPT ![c] = "ending"]
  /\ held' = [held EXCEPT ![c] = <<0, "error">>]
  /\ UNCHANGED <<connVars, stream, executor, inbox, posted, ended, replayVars, at, panicked>>

ConnectRegister(a) ==
  /\ at[a] = "register"
  /\ info' = mine[a]
  /\ mine' = [mine EXCEPT ![a] = 0]
  /\ mutex' = 0
  /\ at' = [at EXCEPT ![a] = Return(a, TRUE)]
  /\ UNCHANGED <<shut, open, dialled, streamVars, replayVars, faults, panicked>>

\* Close: the handler's Recv fails, whatever was still to come.
Closed(c) ==
  /\ open' = open \ {c}
  /\ stream' = stream \ {c}
  /\ inbox' = [inbox EXCEPT ![c] = <<>>]

-----------------------------------------------------------------------------
\* heartbeat: a ping that fails, of a connection that is broken or not there.
PingFail(h) ==
  /\ at[h] = "waiting"
  /\ SlowSetup \/ \A a \in Actors : mine[a] # h
  /\ IF info \in open THEN Fault("ping") ELSE UNCHANGED faults
  /\ at' = [at EXCEPT ![h] = IF info = 0 THEN "blind" ELSE "reconnect"]
  /\ UNCHANGED <<connVars, streamVars, replayVars, panicked>>

\* The context of the heartbeat is stopped when the client is shut down.
HeartbeatStop(h) ==
  /\ at[h] = "waiting"
  /\ shut
  /\ at' = [at EXCEPT ![h] = "done"]
  /\ UNCHANGED <<connVars, streamVars, replayVars, faults, panicked>>

\* removeConnection.  A heartbeat that found no connection has no device either.
Remove(h) ==
  /\ at[h] = "reconnect"
  /\ mutex = 0
  /\ IF info = 0 THEN Panic
     ELSE /\ Closed(info)
          /\ info' = 0
          /\ at' = [at EXCEPT ![h] = "connect"]
          /\ UNCHANGED <<mutex, shut, mine, dialled, executor, handler, held, posted, ended,
                         replayVars, faults, panicked>>

RemoveBlind(h) == at[h] = "blind" /\ mutex = 0 /\ Panic

\* Client.shutdown, at the exit of the application.
Shutdown ==
  /\ mutex = 0
  /\ ~shut
  /\ shut' = TRUE
  /\ info' = 0
  /\ IF info # 0 THEN Closed(info) ELSE UNCHANGED <<open, stream, inbox>>
  /\ UNCHANGED <<mutex, mine, dialled, executor, handler, held, posted, ended,
                 replayVars, at, faults, panicked>>

-----------------------------------------------------------------------------
\* manager.execute takes the next replay of the scheduler.
Execute(p) ==
  /\ at[p] = "idle"
  /\ begun < MaxReplays
  /\ begun' = begun + 1
  /\ replay' = [replay EXCEPT ![p] = begun + 1]
  /\ at' = [at EXCEPT ![p] = "connect"]
  /\ UNCHANGED <<connVars, streamVars, on, answer, apart, faults, panicked>>

\* PrewarmReplay, for a split replay: an error of the stream ends the replay.
Prewarm(p) ==
  /\ at[p] = "keyed"
  /\ IF info = 0 THEN Panic
     ELSE /\ info \notin stream
          /\ at' = [at EXCEPT ![p] = "failed"]
          /\ UNCHANGED <<connVars, streamVars, replayVars, faults, panicked>>

\* The messages of replay n, unless the stream is closed or broken: the error
\* of BeginReplay is ignored (executor.go:91).
Broken(c) == \E i \in DOMAIN inbox[c] : inbox[c][i][1] \in {"lost", "crash"}
Sent(c, n) ==
  IF c \in stream /\ ~Broken(c)
  THEN inbox[c] \o <<<<"request", n>>, <<"data", n>>, <<"finished", n>>>>
  ELSE inbox[c]

\* Mutant of SetReplayExecutor: the active executor is replaced.
SetReplayExecutorAnyway(p) ==
  /\ at[p] = "keyed"
  /\ IF info = 0 THEN Panic
     ELSE /\ executor' = [executor EXCEPT ![info] = replay[p]]
          /\ on' = [on EXCEPT ![p] = info]
          /\ at' = [at EXCEPT ![p] = "begin"]
          /\ UNCHANGED <<connVars, stream, inbox, handler, held, posted, ended, replay, begun,
                         answer, apart, faults, panicked>>

SetReplayExecutor(p) ==
  /\ at[p] = "keyed"
  /\ IF info = 0 THEN Panic
     ELSE IF executor[info] # 0
     THEN /\ at' = [at EXCEPT ![p] = "failed"]
          /\ UNCHANGED <<connVars, streamVars, replayVars, faults, panicked>>
     ELSE /\ executor' = [executor EXCEPT ![info] = replay[p]]
          /\ on' = [on EXCEPT ![p] = info]
          /\ at' = [at EXCEPT ![p] = "begin"]
          /\ UNCHANGED <<connVars, stream, inbox, handler, held, posted, ended, replay, begun,
                         answer, apart, faults, panicked>>

\* BeginReplay looks the connection up again, and may find the next one.
BeginReplay(p) ==
  /\ at[p] = "begin"
  /\ IF info = 0 THEN Panic
     ELSE /\ inbox' = [inbox EXCEPT ![info] = Sent(info, replay[p])]
          /\ at' = [at EXCEPT ![p] = "running"]
          /\ apart' = (apart \/ info # on[p])
          /\ UNCHANGED <<connVars, stream, executor, handler, held, posted, ended,
                         replay, on, begun, answer, faults, panicked>>

\* A replay that failed before it set its executor.
ReplayFailed(p) ==
  /\ at[p] = "failed"
  /\ answer' = [answer EXCEPT ![replay[p]] = "error"]
  /\ replay' = [replay EXCEPT ![p] = 0]
  /\ at' = [at EXCEPT ![p] = "idle"]
  /\ UNCHANGED <<connVars, streamVars, on, begun, apart, faults, panicked>>

\* The deferred clean of execute, once finished has been received from.
Clean(p) ==
  /\ at[p] = "clean"
  /\ executor' = [executor EXCEPT ![on[p]] = 0]
  /\ on' = [on EXCEPT ![p] = 0]
  /\ replay' = [replay EXCEPT ![p] = 0]
  /\ at' = [at EXCEPT ![p] = "idle"]
  /\ UNCHANGED <<connVars, stream, inbox, handler, held, posted, ended, begun, answer,
                 apart, faults, panicked>>

-----------------------------------------------------------------------------
\* The loop of HandleReplayCommunication ends, and closes the stream.
Ending(c, result) ==
  /\ handler' = [handler EXCEPT ![c] = "ending"]
  /\ held' = [held EXCEPT ![c] = <<0, result>>]
  /\ stream' = stream \ {c}

Received(c) == inbox' = [inbox EXCEPT ![c] = Tail(@)]

\* Requests for the payload and for resources need no executor; one that cannot
\* be served ends the loop.
HandleRequest(c) ==
  /\ handler[c] = "recv"
  /\ inbox[c] # <<>> /\ Head(inbox[c])[1] = "request"
  /\ Received(c)
  /\ \/ UNCHANGED <<handler, held, stream, faults>>
     \/ Fault("stream") /\ Ending(c, "error")
  /\ UNCHANGED <<connVars, executor, posted, ended, replayVars, at, panicked>>

\* Post data, notifications and fences.
HandleData(c) ==
  /\ handler[c] = "recv"
  /\ inbox[c] # <<>> /\ Head(inbox[c])[1] = "data"
  /\ Received(c)
  /\ IF executor[c] = 0
     THEN Ending(c, "error") /\ UNCHANGED posted
     ELSE /\ posted' = posted \cup {<<Head(inbox[c])[2], executor[c]>>}
          /\ UNCHANGED <<handler, held, stream>>
  /\ UNCHANGED <<connVars, executor, ended, replayVars, at, faults, panicked>>

HandleFinished(c) ==
  /\ handler[c] = "recv"
  /\ inbox[c] # <<>> /\ Head(inbox[c])[1] = "finished"
  /\ Received(c)
  /\ ended' = ended \cup {Head(inbox[c])[2]}
  /\ IF executor[c] = 0
     THEN Ending(c, "error")
     ELSE /\ handler' = [handler EXCEPT ![c] = "sending"]
          /\ held' = [held EXCEPT ![c] = <<executor[c], "ok">>]
          /\ UNCHANGED stream
  /\ UNCHANGED <<connVars, executor, posted, replayVars, at, faults, panicked>>

\* The loop ends: Close was called, Recv fails, or a crash dump, which is no
\* error, was the last message.
RecvEnd(c) ==
  /\ handler[c] = "recv"
  /\ \/ /\ c \notin stream
        /\ Ending(c, "error")
        /\ UNCHANGED <<inbox, ended>>
     \/ /\ inbox[c] # <<>> /\ Head(inbox[c])[1] \in {"lost", "crash"}
        /\ Received(c)
        /\ ended' = IF Head(inbox[c])[1] = "crash" THEN ended \cup {executor[c]} ELSE ended
        /\ Ending(c, IF Head(inbox[c])[1] = "crash" THEN "ok" ELSE "error")
  /\ UNCHANGED <<connVars, executor, posted, replayVars, at, faults, panicked>>

HandlerEndAlways(c) ==
  /\ handler[c] = "ending"
  /\ handler' = [handler EXCEPT ![c] = "sendingEnd"]
  /\ held' = [held EXCEPT ![c] = <<executor[c], @[2]>>]
  /\ UNCHANGED <<connVars, stream, executor, inbox, posted, ended, replayVars, at, faults, panicked>>

\* makeBackgroundConnection passes the end of the loop to the executor.
HandlerEnd(c) ==
  /\ handler[c] = "ending"
  /\ IF executor[c] = 0
     THEN /\ handler' = [handler EXCEPT ![c] = "done"]
          /\ held' = [held EXCEPT ![c] = <<0, "none">>]
     ELSE /\ handler' = [handler EXCEPT ![c] = "sendingEnd"]
          /\ held' = [held EXCEPT ![c] = <<executor[c], @[2]>>]
  /\ UNCHANGED <<connVars, stream, executor, inbox, posted, ended, replayVars, at, faults, panicked>>

\* The unbuffered channel finished: the handler and the replayer meet.
Deliver(c, p) ==
  /\ handler[c] \in {"sending", "sendingEnd"}
  /\ at[p] = "running" /\ replay[p] = held[c][1]
  /\ answer' = [answer EXCEPT ![replay[p]] = held[c][2]]
  /\ at' = [at EXCEPT ![p] = "clean"]
  /\ handler' = [handler EXCEPT ![c] = IF @ = "sending" THEN "recv" ELSE "done"]
  /\ held' = [held EXCEPT ![c] = <<0, "none">>]
  /\ UNCHANGED <<connVars, stream, executor, inbox, posted, ended, replay, on, begun,
                 apart, faults, panicked>>

\* The stream breaks, or the device crashes in the middle of a replay: only the
\* first k messages arrive.
StreamBreak(c) ==
  /\ c \in stream
  /\ ~Broken(c)
  /\ \E k \in 0 .. Len(inbox[c]) :
       \/ Fault("stream") /\ inbox' = [inbox EXCEPT ![c] = Append(SubSeq(@, 1, k), <<"lost", 0>>)]
       \/ /\ k < Len(inbox[c]) /\ Fault("crash")
          /\ inbox' = [inbox EXCEPT ![c] = Append(SubSeq(@, 1, k), <<"crash", 0>>)]
  /\ UNCHANGED <<connVars, stream, executor, handler, held, posted, ended, replayVars, at, panicked>>

-----------------------------------------------------------------------------
Connect(a) == ConnectLock(a) \/ ConnectDial(a) \/ ConnectRegister(a)
Handler(c) == \/ StreamOpen(c)
              \/ HandleRequest(c) \/ HandleData(c) \/ HandleFinished(c)
              \/ RecvEnd(c) \/ HandlerEnd(c) \/ \E p \in Replayers : Deliver(c, p)
Replayer(p) == SetReplayExecutor(p) \/ BeginReplay(p) \/ ReplayFailed(p) \/ Clean(p)

Next ==
  \/ \E a \in Actors : ConnectLock(a)
  \/ \E a \in Actors : ConnectDial(a)
  \/ \E a \in Actors : ConnectFail(a)
  \/ \E a \in Actors : ConnectRegister(a)
  \/ \E c \in Conns : StreamOpen(c)
  \/ \E c \in Conns : StreamOpenFail(c)
  \/ \E h \in Conns : PingFail(h)
  \/ \E h \in Conns : HeartbeatStop(h)
  \/ \E h \in Conns : Remove(h)
  \/ \E h \in Conns : RemoveBlind(h)
  \/ Shutdown
  \/ \E p \in Replayers : Execute(p)
  \/ \E p \in Replayers : Prewarm(p)
  \/ \E p \in Replayers : SetReplayExecutor(p)
  \/ \E p \in Replayers : BeginReplay(p)
  \/ \E p \in Replayers : ReplayFailed(p)
  \/ \E p \in Replayers : Clean(p)
  \/ \E c \in Conns : HandleRequest(c)
  \/ \E c \in Conns : HandleData(c)
  \/ \E c \in Conns : HandleFinished(c)
  \/ \E c \in Conns : RecvEnd(c)
  \/ \E c \in Conns : HandlerEnd(c)
  \/ \E c \in Conns, p \in Replayers : Deliver(c, p)
  \/ \E c \in Conns : StreamBreak(c)

Spec == Init /\ [][Next]_vars

\* Goroutines run, remote calls return and the device answers what it is sent.
\* Nothing makes a fault, a ping or the exit of the application happen.
FairSpec ==
  /\ Spec
  /\ \A a \in Actors : WF_vars(Connect(a))
  /\ \A c \in Conns : /\ WF_vars(Handler(c))
                      /\ WF_vars(Remove(c) \/ RemoveBlind(c))
  /\ \A p \in Replayers : WF_vars(Replayer(p))

-----------------------------------------------------------------------------
TypeOK ==
  /\ mutex \in Actors \cup {0} /\ info \in Conns \cup {0} /\ shut \in BOOLEAN
  /\ open \subseteq Conns /\ stream \subseteq Conns
  /\ executor \in [Conns -> Replays \cup {0}]
  /\ handler \in [Conns -> {"none", "start", "recv", "ending", "sending", "sendingEnd", "done", "gone"}]
  /\ held \in [Conns -> (Replays \cup {0}) \X {"none", "ok", "error"}]
  /\ \A c \in Conns : handler[c] \in {"sending", "sendingEnd"} => held[c][1] \in Replays
  /\ \A c \in Conns : \A i \in DOMAIN inbox[c] :
       inbox[c][i] \in {"request", "data", "finished", "lost", "crash"} \X (Replays \cup {0})
  /\ at \in [Actors -> {"idle", "connect", "setup", "wait", "register", "keyed", "failed",
                        "begin", "running", "clean", "none", "waiting", "blind",
                        "reconnect", "done", "gone"}]
  /\ mine \in [Actors -> Conns \cup {0}]
  /\ replay \in [Replayers -> Replays \cup {0}] /\ on \in [Replayers -> Conns \cup {0}]
  /\ begun \in 0 .. MaxReplays /\ apart \in BOOLEAN /\ dialled \in 0 .. MaxConns
  /\ answer \in [Replays -> {"none", "ok", "error"}]
  /\ posted \subseteq Replays \X Replays /\ ended \subseteq Replays \cup {0}
  /\ faults \in (0 .. MaxFaults) \X BOOLEAN /\ panicked \in BOOLEAN

\* A device has one connection at a time: two Connects that race, one of them a
\* reconnect, never leave a second one open, or one that nobody will close.
OneConnection ==
  /\ Cardinality(open) <= 1
  /\ open \subseteq {info} \cup {mine[a] : a \in Actors}

\* The registered connection is watched by its own heartbeat and by no other: a
\* reconnect leaves neither a connection without a heartbeat nor two heartbeats
\* that reconnect against each other.
OneHeartbeat ==
  info # 0 => {h \in Conns : at[h] \in {"waiting", "blind", "reconnect"}} = {info}

\* Data goes to the replay that it belongs to, and a replay is told that it
\* succeeded only if the device has ended that replay, or crashed in it: no
\* message of an earlier replay, or of an earlier connection, is taken for one of
\* the current replay.  Only a connection that is replaced between the
\* SetReplayExecutor and the BeginReplay of a replay can break this: "ReplayExecutor
\* handles just the bits related to a specific replay" (background_connection.go:32).
NoCrossTalk ==
  ~apart =>
    /\ \A m \in posted : m[1] = m[2]
    /\ \A n \in Replays : answer[n] = "ok" => n \in ended


\* Every replay ends: "HandleFinished is notified when the given replay is
\* finished" (background_connection.go:39), and execute waits for nothing else.
ReplaysEnd ==
  \A n \in Replays : n <= begun ~> answer[n] # "none" \/ shut \/ panicked
=============================================================================
