---------------------------- MODULE Connection ----------------------------
(***************************************************************************)
(* The life of the agent's one WebSocket connection (pkg/websocket/        *)
(* client.go): the reconnect loop, the reader, the goroutines that send,   *)
(* the shared error handler, the wake-up channel and Client.Stop.          *)
(*                                                                         *)
(* Every goroutine has a program counter in pc.  A critical section of     *)
(* connMu is one step, and so is each access to shouldReconnect,           *)
(* reconnectChan or ctx.  The time a step takes is not modelled: a timer   *)
(* that can fire is an action that may be taken.                           *)
(***************************************************************************)
EXTENDS FiniteSets

CONSTANTS
    Conn,       \* identities of *websocket.Conn values
    NoConn,     \* the nil *websocket.Conn
    Tickers,    \* the ticking senders that run: heartbeatLoop, metricsReportLoop
    Tasks,      \* slots for executeTask goroutines, which the WaitGroup ignores
    DelayOutlastsErrors     \* timing: a goroutine that holds a connection the client
                \* has closed hears of it before the 10 s reconnectDelay is over

ASSUME ConnAssumption == NoConn \notin Conn
ASSUME TimingAssumption == DelayOutlastsErrors \in BOOLEAN
ASSUME ThreadAssumption ==
    /\ Tickers \subseteq {"heartbeat", "metrics"}
    /\ Tasks \cap {"main", "loop", "reader", "processor", "heartbeat", "metrics"} = {}

VARIABLES
    pc,                 \* where each goroutine is
    held,               \* the *websocket.Conn a goroutine has in a local variable
    conn,               \* Client.conn
    connected,          \* Client.connected
    shouldReconnect,    \* Client.shouldReconnect
    token,              \* reconnectChan (capacity 1) holds its element
    chanClosed,         \* close(reconnectChan) has run
    cancelled,          \* Client.ctx is cancelled
    link,               \* the state of each connection at the transport
    calm,               \* the network has stopped failing, for good
    panicked            \* a goroutine panicked: the process is gone

session == <<conn, connected, link>>
shutdown == <<shouldReconnect, cancelled, chanClosed>>
otherVars == <<held, session, shutdown, token, calm, panicked>>
vars == <<pc, otherVars>>

----------------------------------------------------------------------------
Senders == {"processor"} \cup Tickers \cup Tasks    \* who calls sendMessage
IoThreads == {"reader"} \cup Senders                \* who uses a connection
Tracked == {"loop", "reader", "processor"} \cup Tickers    \* counted by Client.wg
Threads == {"main", "loop"} \cup IoThreads

\* "idle" is main waiting for a signal, the loop at its select, the reader at
\* the top of its loop, a sender waiting for a tick, a message or a task.
MainPcs == {"cancel", "wait", "closeConn", "closeChan", "stopped"}
LoopPcs == {"gate", "test", "delay", "dial", "install", "done"}
IoPcs == {"snap", "io", "done"}
PcOf(t) == {"idle", "check", "push"} \cup
    (IF t = "main" THEN MainPcs ELSE IF t = "loop" THEN LoopPcs ELSE IoPcs)

\* Types; and a goroutine that uses a connection has one.
TypeOK ==
    /\ pc \in [Threads -> {"idle", "check", "push"} \cup MainPcs \cup LoopPcs \cup IoPcs]
    /\ \A t \in Threads : pc[t] \in PcOf(t)
    /\ held \in [Threads -> Conn \cup {NoConn}]
    /\ \A t \in Threads : pc[t] \in {"io", "install"} => held[t] \in Conn
    /\ conn \in Conn \cup {NoConn}
    /\ link \in [Conn -> {"up", "broken", "closed"}]
    /\ connected \in BOOLEAN /\ shouldReconnect \in BOOLEAN
    /\ token \in BOOLEAN /\ chanClosed \in BOOLEAN /\ cancelled \in BOOLEAN
    /\ calm \in BOOLEAN /\ panicked \in BOOLEAN

\* NewClient and Client.Start: the goroutines run, main is about to call
\* triggerReconnect for the first connection.
Init ==
    /\ pc = [t \in Threads |-> IF t = "main" THEN "check" ELSE "idle"]
    /\ held = [t \in Threads |-> NoConn]
    /\ conn = NoConn /\ connected = FALSE
    /\ shouldReconnect = TRUE
    /\ token = FALSE /\ chanClosed = FALSE /\ cancelled = FALSE
    /\ link = [c \in Conn |-> "closed"]
    /\ calm = FALSE /\ panicked = FALSE

Goto(t, l) == pc' = [pc EXCEPT ![t] = l]
Move(t, from, to) == pc[t] = from /\ Goto(t, to) /\ UNCHANGED otherVars
isConnected == connected /\ conn # NoConn
\* A Conn identity stands for a new connection once nobody refers to it.
Unused(c) == link[c] = "closed" /\ c # conn /\ \A t \in Threads : held[t] # c

----------------------------------------------------------------------------
(* triggerReconnect: read the flag, then a send that never blocks.         *)

TriggerCheck(t) == Move(t, "check", IF shouldReconnect THEN "push" ELSE "idle")

TriggerPush(t) ==
    /\ pc[t] = "push"
    /\ Goto(t, "idle")
    /\ panicked' = chanClosed       \* a send on a closed channel panics
    /\ token' = (token \/ ~chanClosed)
    /\ UNCHANGED <<held, session, shutdown, calm>>

----------------------------------------------------------------------------
(* reconnectLoop and connect.                                              *)

LoopReceive ==
    /\ pc["loop"] = "idle" /\ token
    /\ token' = FALSE
    /\ Goto("loop", "gate")
    /\ UNCHANGED <<held, session, shutdown, calm, panicked>>

LoopGate == Move("loop", "gate", IF shouldReconnect THEN "test" ELSE "idle")

\* Mutant: the loop dials without asking isConnected.
LoopTestUnchecked == Move("loop", "test", "delay")

LoopTest == Move("loop", "test", IF isConnected THEN "idle" ELSE "delay")

\* Mutant: the loop dials at once.
LoopDelaySkipped == Move("loop", "delay", "dial")

\* The 10 s timer, which may win the select against a cancelled context.
LoopDelay ==
    /\ DelayOutlastsErrors =>
          \A t \in IoThreads : held[t] # NoConn => link[held[t]] # "closed"
    /\ Move("loop", "delay", "dial")

DialOk(c) ==
    /\ pc["loop"] = "dial" /\ Unused(c)
    /\ link' = [link EXCEPT ![c] = "up"]
    /\ held' = [held EXCEPT !["loop"] = c]
    /\ Goto("loop", "install")
    /\ UNCHANGED <<shutdown, conn, connected, token, calm, panicked>>

\* Mutant: a failed dial is only logged.
DialFailForgotten == ~calm /\ Move("loop", "dial", "idle")

\* The loop calls triggerReconnect itself when connect returned an error.
DialFail == ~calm /\ Move("loop", "dial", "check")

LoopInstall ==
    /\ pc["loop"] = "install"
    /\ conn' = held["loop"]
    /\ connected' = TRUE
    /\ held' = [held EXCEPT !["loop"] = NoConn]
    /\ Goto("loop", "idle")
    /\ UNCHANGED <<shutdown, token, link, calm, panicked>>

LoopExit ==
    /\ pc["loop"] \in {"idle", "delay"} /\ cancelled
    /\ Goto("loop", "done")
    /\ UNCHANGED otherVars

----------------------------------------------------------------------------
(* readMessageLoop and the senders.                                        *)

\* The reader looks at ctx at the top of its loop and only there.
ReaderTurn == ~cancelled /\ Move("reader", "idle", "snap")

\* A tick, or a message that is answered.  The ticking loops skip their turn
\* unless isConnected.  The select may prefer a tick to a cancelled context.
\* metricsReportLoop sends five reports in a turn; here each is a turn, which
\* is the same because a report without a connection is dropped.
SenderTurn(t) ==
    /\ t \in {"processor"} \cup Tickers
    /\ t \in Tickers => isConnected
    /\ Move(t, "idle", "snap")

\* messageProcessLoop starts executeTask, which ends in a send.
SpawnTask(t) ==
    /\ t \in Tasks
    /\ pc["processor"] = "idle"
    /\ Move(t, "idle", "snap")

\* Mutant: the copy is not compared with nil.
SnapshotUnchecked(t) ==
    /\ pc[t] = "snap"
    /\ Goto(t, "io") /\ held' = [held EXCEPT ![t] = conn]
    /\ UNCHANGED <<session, shutdown, token, calm, panicked>>

\* Copy c.conn under the read lock; without a connection there is nothing to do.
\* The reader also wants c.connected.
Snapshot(t) ==
    /\ pc[t] = "snap"
    /\ IF conn # NoConn /\ (t = "reader" => connected)
       THEN Goto(t, "io") /\ held' = [held EXCEPT ![t] = conn]
       ELSE Goto(t, "idle") /\ UNCHANGED held
    /\ UNCHANGED <<session, shutdown, token, calm, panicked>>

\* Another goroutine is inside WriteMessage on the same connection.
Overlaps(t) ==
    \E s \in Senders \ {t} : pc[s] = "io" /\ held[s] = held[t]

\* ReadMessage delivers a message, or WriteMessage returns nil.  The kernel may
\* accept data for a connection whose peer is gone.
IoOk(t) ==
    /\ t \in IoThreads
    /\ pc[t] = "io"
    /\ link[held[t]] \in (IF t = "reader" THEN {"up"} ELSE {"up", "broken"})
    /\ Goto(t, "idle")
    /\ held' = [held EXCEPT ![t] = NoConn]
    /\ UNCHANGED <<session, shutdown, token, calm, panicked>>

\* The library panics when it notices two writers on one connection.
WriterPanics(t) ==
    /\ t \in Senders
    /\ pc[t] = "io" /\ Overlaps(t)
    /\ panicked' = TRUE
    /\ UNCHANGED <<pc, held, session, shutdown, token, calm>>

\* The read or write failed.  The handler closes whatever c.conn is by now.  A
\* read fails after 60 seconds of silence too.
TearDown(t, next) ==
    /\ t \in IoThreads
    /\ pc[t] = "io"
    /\ link[held[t]] # "up" \/ (t = "reader" /\ ~calm)
    /\ link' = [c \in Conn |-> IF c = conn THEN "closed" ELSE link[c]]
    /\ conn' = NoConn
    /\ connected' = FALSE
    /\ held' = [held EXCEPT ![t] = NoConn]
    /\ Goto(t, next)
    /\ UNCHANGED <<shutdown, token, calm, panicked>>

\* Mutant: the handler does not trigger a reconnect.
HandleErrorQuietly(t) == TearDown(t, "idle")

\* After the critical section, triggerReconnect.
HandleConnectionError(t) == TearDown(t, "check")

\* reader, processor and tickers return at their select once ctx is cancelled.
IoExit(t) ==
    /\ t \in Tracked \ {"loop"}
    /\ cancelled
    /\ Move(t, "idle", "done")

----------------------------------------------------------------------------
(* Client.Stop, called by main.                                            *)

StopFlag ==
    /\ pc["main"] = "idle"
    /\ shouldReconnect' = FALSE
    /\ Goto("main", "cancel")
    /\ UNCHANGED <<held, session, token, chanClosed, cancelled, calm, panicked>>

\* Mutant: Stop waits for the goroutines before it cancels their context.
StopCancelForgotten == Move("main", "cancel", "wait")

StopCancel ==
    /\ pc["main"] = "cancel"
    /\ cancelled' = TRUE
    /\ Goto("main", "wait")
    /\ UNCHANGED <<held, session, shouldReconnect, token, chanClosed, calm, panicked>>

\* Mutant: Stop does not wait for its goroutines.
StopWaitSkipped == Move("main", "wait", "closeConn")

StopWait ==
    /\ \A t \in Tracked : pc[t] = "done"
    /\ Move("main", "wait", "closeConn")

\* c.connected is left as it was.
StopCloseConn ==
    /\ pc["main"] = "closeConn"
    /\ link' = [c \in Conn |-> IF c = conn THEN "closed" ELSE link[c]]
    /\ conn' = NoConn
    /\ Goto("main", "closeChan")
    /\ UNCHANGED <<held, shutdown, connected, token, calm, panicked>>

StopCloseChan ==
    /\ pc["main"] = "closeChan"
    /\ chanClosed' = TRUE
    /\ Goto("main", "stopped")
    /\ UNCHANGED <<held, session, shouldReconnect, token, cancelled, calm, panicked>>

----------------------------------------------------------------------------
(* The network.                                                            *)

LinkBreak(c) ==
    /\ link[c] = "up" /\ ~calm
    /\ link' = [link EXCEPT ![c] = "broken"]
    /\ UNCHANGED <<pc, held, shutdown, conn, connected, token, calm, panicked>>

\* From here on dialling works, links hold and the server is heard in time.
NetworkCalms ==
    /\ ~calm
    /\ calm' = TRUE
    /\ UNCHANGED <<pc, held, session, shutdown, token, panicked>>

----------------------------------------------------------------------------
LoopStep == \/ LoopReceive \/ LoopGate \/ LoopTest \/ LoopDelay
            \/ (\E c \in Conn : DialOk(c)) \/ DialFail \/ LoopInstall

IoStep(t) == Snapshot(t) \/ IoOk(t) \/ HandleConnectionError(t)

Turn(t) == SenderTurn(t) \/ SpawnTask(t)

Trigger(t) == TriggerCheck(t) \/ TriggerPush(t)

StopStep == StopCancel \/ StopWait \/ StopCloseConn \/ StopCloseChan

Network == (\E c \in Conn : LinkBreak(c)) \/ NetworkCalms

Finished == panicked \/ (pc["main"] = "stopped" /\ \A t \in Tasks : pc[t] = "idle")
Terminated == Finished /\ UNCHANGED vars

Next ==
    \/ /\ ~panicked
       /\ \/ LoopStep \/ LoopExit \/ ReaderTurn \/ StopFlag \/ StopStep \/ Network
          \/ \E t \in IoThreads :
                Turn(t) \/ IoStep(t) \/ WriterPanics(t) \/ IoExit(t)
          \/ \E t \in Threads : Trigger(t)
    \/ Terminated

Spec == Init /\ [][Next]_vars

\* Go schedules every runnable goroutine; a timer that is due fires; reads end
\* (60 s deadline), dials end (45 s handshake timeout), and a peer that is up
\* drains what is written to it.  A select with ctx.Done and another case ready
\* picks at random, so exits need strong fairness.  Nobody must ask to stop.
Alive(A) == ~panicked /\ A

Fairness ==
    /\ WF_vars(Alive(LoopStep))
    /\ SF_vars(Alive(LoopExit))
    /\ WF_vars(Alive(ReaderTurn))
    /\ \A t \in Threads : WF_vars(Alive(Trigger(t)))
    /\ \A t \in IoThreads : WF_vars(Alive(IoStep(t))) /\ SF_vars(Alive(IoExit(t)))
    /\ WF_vars(Alive(StopStep))

FairSpec == Spec /\ Fairness
----------------------------------------------------------------------------
(* Safety.                                                                 *)

Reconnecting == pc["loop"] \in {"gate", "test", "delay", "dial", "install"}
AboutToTrigger == \E t \in Threads : pc[t] \in {"check", "push"}

\* A lost connection is never forgotten: while the client may reconnect and has
\* no connection, the wake-up is queued, the loop is already past it, or a
\* goroutine is on its way to queue it.  The channel holds one element and the
\* send gives up when it is full, so this is what a missed signal would break.
NoLostWakeup ==
    shouldReconnect /\ conn = NoConn => token \/ Reconnecting \/ AboutToTrigger

\* Every transport connection still open is the one in c.conn, or the one connect
\* has just dialled: reconnecting over a live connection would leak its socket.
NoLeakedConnection ==
    \A c \in Conn : link[c] # "closed" => c = conn \/ c = held["loop"]

\* After Client.Stop nothing it waited for is left running, every connection is
\* closed, also one dialled while stopping, and the only goroutines that can
\* still reach the closed channel are the task goroutines it does not wait for.
StopLeavesNothing ==
    /\ pc["main"] = "stopped" =>
          /\ \A t \in Tracked : pc[t] = "done"
          /\ \A c \in Conn : link[c] = "closed"
    /\ chanClosed => \A t \in Threads \ Tasks : pc[t] # "push"

\* When the reconnect delay outlasts the errors of the old connection, an error
\* handler never tears down a connection other than the one that failed, although
\* it closes whatever c.conn is by the time it runs.
ErrorsHitTheirOwn ==
    [][\A t \in IoThreads : HandleConnectionError(t) => conn \in {held[t], NoConn}]_vars

----------------------------------------------------------------------------
(* Liveness, under FairSpec.                                               *)

\* Once the network stops failing, an agent that is not asked to stop ends up
\* connected and stays so, whatever was in flight when it calmed down.
ReconnectsForGood ==
    <>calm => <>(panicked \/ ~shouldReconnect) \/ <>[](conn # NoConn)

\* Client.Stop returns.
StopReturns == ~shouldReconnect ~> (panicked \/ pc["main"] = "stopped")
============================================================================
