------------------------- MODULE ConnectionProofs -------------------------
(***************************************************************************)
(* The safety invariants of Connection, proved for every set of            *)
(* connections, tickers and task goroutines.                               *)
(***************************************************************************)
EXTENDS Connection, TLAPS

\* What Client.Stop has done by the time main is where it is.
StopProgress ==
    /\ pc["main"] \in MainPcs => ~shouldReconnect
    /\ cancelled => pc["main"] \in {"wait", "closeConn", "closeChan", "stopped"}
    /\ pc["main"] \in {"closeConn", "closeChan", "stopped"} =>
          \A t \in Tracked : pc[t] = "done"
    /\ pc["main"] \in {"closeChan", "stopped"} => conn = NoConn
    /\ chanClosed => pc["main"] = "stopped"

\* Only the loop makes connections, one at a time, and only while there is none.
LoopOwnsDialling ==
    /\ conn # NoConn => connected
    /\ pc["loop"] \in {"delay", "dial", "install"} => conn = NoConn
    /\ pc["loop"] # "install" => held["loop"] = NoConn

IInv == /\ TypeOK /\ StopProgress /\ LoopOwnsDialling
        /\ NoLostWakeup /\ NoLeakedConnection

----------------------------------------------------------------------------
\* The invariants hold when NewClient and Start have run.
LEMMA InitHolds == Init => IInv
  BY ConnAssumption, ThreadAssumption
  DEF Init, IInv, TypeOK, StopProgress, LoopOwnsDialling, NoLostWakeup, NoLeakedConnection,
      AboutToTrigger, Reconnecting, Threads, IoThreads, Senders, Tracked, PcOf, MainPcs, LoopPcs, IoPcs

USE DEF vars, otherVars, session, shutdown

\* Every step of a goroutine, of main or of the network preserves them.
LEMMA NextHolds == IInv /\ [Next]_vars => IInv'
<1> SUFFICES ASSUME IInv, [Next]_vars PROVE IInv'
    OBVIOUS
<1> USE ConnAssumption, ThreadAssumption
    DEF IInv, TypeOK, StopProgress, LoopOwnsDialling, NoLostWakeup, NoLeakedConnection,
      AboutToTrigger, Reconnecting, Threads, IoThreads, Senders, Tracked, PcOf, MainPcs, LoopPcs, IoPcs,
      Goto, Move
<1>1. CASE LoopReceive
  BY <1>1 DEF LoopReceive
<1>2. CASE LoopGate
  BY <1>2 DEF LoopGate
<1>3. CASE LoopTest
  BY <1>3 DEF LoopTest, isConnected
<1>4. CASE LoopDelay
  BY <1>4 DEF LoopDelay
<1>5. ASSUME NEW c \in Conn, DialOk(c) PROVE IInv'
  BY <1>5 DEF DialOk, Unused
<1>6. CASE DialFail
  BY <1>6 DEF DialFail
<1>7. CASE LoopInstall
  BY <1>7 DEF LoopInstall
<1>8. CASE LoopExit
  <2>1. TypeOK'
    BY <1>8 DEF LoopExit
  <2>2. StopProgress'
    BY <1>8 DEF LoopExit
  <2>3. LoopOwnsDialling'
    BY <1>8 DEF LoopExit
  <2>4. NoLostWakeup'
    BY <1>8 DEF LoopExit
  <2>5. NoLeakedConnection'
    BY <1>8 DEF LoopExit
  <2> QED
    BY <2>1, <2>2, <2>3, <2>4, <2>5
<1>9. CASE ReaderTurn
  BY <1>9 DEF ReaderTurn
<1>10. ASSUME NEW t \in IoThreads, SenderTurn(t) PROVE IInv'
  BY <1>10 DEF SenderTurn
<1>11. ASSUME NEW t \in IoThreads, SpawnTask(t) PROVE IInv'
  BY <1>11 DEF SpawnTask
<1>12. ASSUME NEW t \in IoThreads, Snapshot(t) PROVE IInv'
  <2>1. TypeOK'
    <3>1. UNCHANGED <<conn, link, connected, shouldReconnect, token, chanClosed, cancelled, calm, panicked>>
      BY <1>12 DEF Snapshot
    <3>2. CASE conn # NoConn /\ (t = "reader" => connected)
      <4>1. conn \in Conn /\ pc' = [pc EXCEPT ![t] = "io"] /\ held' = [held EXCEPT ![t] = conn]
        BY <1>12, <3>2 DEF Snapshot
      <4> QED
        BY <3>1, <4>1
    <3>3. CASE ~(conn # NoConn /\ (t = "reader" => connected))
      <4>1. pc' = [pc EXCEPT ![t] = "idle"] /\ held' = held
        BY <1>12, <3>3 DEF Snapshot
      <4> QED
        BY <3>1, <4>1
    <3> QED
      BY <3>2, <3>3
  <2>2. StopProgress'
    BY <1>12 DEF Snapshot
  <2>3. LoopOwnsDialling'
    BY <1>12 DEF Snapshot
  <2>4. NoLostWakeup'
    BY <1>12 DEF Snapshot
  <2>5. NoLeakedConnection'
    BY <1>12 DEF Snapshot
  <2> QED
    BY <2>1, <2>2, <2>3, <2>4, <2>5
<1>13. ASSUME NEW t \in IoThreads, IoOk(t) PROVE IInv'
  BY <1>13 DEF IoOk
<1>14. ASSUME NEW t \in IoThreads, WriterPanics(t) PROVE IInv'
  BY <1>14 DEF WriterPanics
<1>15. ASSUME NEW t \in IoThreads, HandleConnectionError(t) PROVE IInv'
  BY <1>15 DEF HandleConnectionError, TearDown
<1>16. ASSUME NEW t \in IoThreads, IoExit(t) PROVE IInv'
  BY <1>16 DEF IoExit
<1>17. ASSUME NEW t \in Threads, TriggerCheck(t) PROVE IInv'
  BY <1>17 DEF TriggerCheck
<1>18. ASSUME NEW t \in Threads, TriggerPush(t) PROVE IInv'
  BY <1>18 DEF TriggerPush
<1>19. CASE StopFlag
  BY <1>19 DEF StopFlag
<1>20. CASE StopCancel
  BY <1>20 DEF StopCancel
<1>21. CASE StopWait
  BY <1>21 DEF StopWait
<1>22. CASE StopCloseConn
  BY <1>22 DEF StopCloseConn
<1>23. CASE StopCloseChan
  BY <1>23 DEF StopCloseChan
<1>24. ASSUME NEW c \in Conn, LinkBreak(c) PROVE IInv'
  BY <1>24 DEF LinkBreak
<1>25. CASE NetworkCalms
  BY <1>25 DEF NetworkCalms
<1>26. CASE UNCHANGED vars
  BY <1>26
<1> QED
  BY <1>1, <1>2, <1>3, <1>4, <1>5, <1>6, <1>7, <1>8, <1>9, <1>10, <1>11, <1>12, <1>13,
     <1>14, <1>15, <1>16, <1>17, <1>18, <1>19, <1>20, <1>21, <1>22, <1>23, <1>24, <1>26, <1>25
  DEF Next, Network, LoopStep, StopStep, IoStep, Turn, Trigger, Terminated

\* The inductive invariant holds in every reachable state.
THEOREM Invariance == Spec => []IInv
  BY InitHolds, NextHolds, PTL DEF Spec

\* Type correctness; no goroutine reads or writes through a nil connection.
THEOREM TypeCorrect == Spec => []TypeOK
<1>1. IInv => TypeOK
  BY DEF IInv
<1> QED
  BY <1>1, Invariance, PTL

\* A lost connection always has a wake-up pending (triggerReconnect against
\* reconnectLoop).
THEOREM WakeupNeverLost == Spec => []NoLostWakeup
<1>1. IInv => NoLostWakeup
  BY DEF IInv
<1> QED
  BY <1>1, Invariance, PTL

\* connect never replaces a live connection (connect against isConnected).
THEOREM ConnectionNeverLeaked == Spec => []NoLeakedConnection
<1>1. IInv => NoLeakedConnection
  BY DEF IInv
<1> QED
  BY <1>1, Invariance, PTL

\* Client.Stop leaves no tracked goroutine, no open connection, and only task
\* goroutines that can reach the closed channel.
THEOREM StopIsClean == Spec => []StopLeavesNothing
<1>1. IInv => StopLeavesNothing
  <2> SUFFICES ASSUME IInv PROVE StopLeavesNothing
    OBVIOUS
  <2> USE DEF IInv, TypeOK, StopProgress, Threads, IoThreads, Senders, Tracked
  <2>1. pc["main"] = "stopped" => \A t \in Tracked : pc[t] = "done"
    OBVIOUS
  <2>2. pc["main"] = "stopped" => \A c \in Conn : link[c] = "closed"
    BY <2>1, ConnAssumption DEF LoopOwnsDialling, NoLeakedConnection
  <2>3. chanClosed => \A t \in Threads \ Tasks : pc[t] # "push"
    BY <2>1, ThreadAssumption
  <2> QED
    BY <2>1, <2>2, <2>3 DEF StopLeavesNothing
<1> QED
  BY <1>1, Invariance, PTL
----------------------------------------------------------------------------
\* Nobody holds a connection of the past once the delay is over.
NothingStale ==
    /\ conn # NoConn => \A t \in IoThreads : held[t] \in {conn, NoConn}
    /\ pc["loop"] \in {"dial", "install"} => \A t \in IoThreads : held[t] = NoConn

\* It holds at the start, when nobody holds a connection.
LEMMA NothingStaleInit == Init => NothingStale
  BY DEF Init, NothingStale, Threads

\* Every step preserves it: the delay (reconnectLoop) is where the timing matters.
LEMMA NothingStaleNext ==
    ASSUME DelayOutlastsErrors, IInv, IInv', NothingStale, [Next]_vars
    PROVE  NothingStale'
<1> USE ConnAssumption, ThreadAssumption
    DEF IInv, TypeOK, LoopOwnsDialling, NothingStale, Threads, IoThreads, Senders, Goto, Move
<1>1. CASE LoopDelay
  <2>1. conn = NoConn /\ \A c \in Conn : link[c] = "closed"
    BY <1>1 DEF LoopDelay, NoLeakedConnection
  <2>2. \A t \in IoThreads : held[t] = NoConn
    BY <1>1, <2>1 DEF LoopDelay
  <2> QED
    BY <1>1, <2>2 DEF LoopDelay
<1>2. CASE LoopReceive \/ LoopGate \/ LoopTest \/ DialFail \/ LoopExit
  BY <1>2 DEF LoopReceive, LoopGate, LoopTest, DialFail, LoopExit
<1>3. ASSUME NEW c \in Conn, DialOk(c) PROVE NothingStale'
  BY <1>3 DEF DialOk
<1>4. CASE LoopInstall
  BY <1>4 DEF LoopInstall
<1>5. CASE ReaderTurn
  BY <1>5 DEF ReaderTurn
<1>6. ASSUME NEW t \in IoThreads, Turn(t) PROVE NothingStale'
  BY <1>6 DEF Turn, SenderTurn, SpawnTask
<1>7. ASSUME NEW t \in IoThreads, Snapshot(t) PROVE NothingStale'
  <2>1. conn' = conn /\ \A s \in IoThreads : held'[s] \in {held[s], conn}
    BY <1>7 DEF Snapshot
  <2>2. pc["loop"]' = pc["loop"]
    BY <1>7 DEF Snapshot
  <2> QED
    BY <2>1, <2>2
<1>8. ASSUME NEW t \in IoThreads, IoOk(t) PROVE NothingStale'
  BY <1>8 DEF IoOk
<1>9. ASSUME NEW t \in IoThreads, WriterPanics(t) \/ IoExit(t) PROVE NothingStale'
  BY <1>9 DEF WriterPanics, IoExit
<1>10. ASSUME NEW t \in IoThreads, HandleConnectionError(t) PROVE NothingStale'
  BY <1>10 DEF HandleConnectionError, TearDown
<1>11. ASSUME NEW t \in Threads, Trigger(t) PROVE NothingStale'
  BY <1>11 DEF Trigger, TriggerCheck, TriggerPush
<1>12. CASE StopFlag \/ StopStep
  BY <1>12 DEF StopFlag, StopStep, StopCancel, StopWait, StopCloseConn, StopCloseChan
<1>13. CASE Network \/ UNCHANGED vars
  BY <1>13 DEF Network, LinkBreak, NetworkCalms
<1> QED
  BY <1>1, <1>2, <1>3, <1>4, <1>5, <1>6, <1>7, <1>8, <1>9, <1>10, <1>11, <1>12, <1>13
  DEF Next, LoopStep, IoStep, Terminated

\* With the reconnect delay longer than the errors of the old connection take, an
\* error handler only ever closes the connection that failed (handleConnectionError).
THEOREM ErrorsHitOnlyTheirOwn ==
    ASSUME DelayOutlastsErrors
    PROVE  Spec => ErrorsHitTheirOwn
<1>1. NothingStale /\ IInv /\ [Next]_vars =>
        [\A t \in IoThreads : HandleConnectionError(t) => conn \in {held[t], NoConn}]_vars
  <2>1. ASSUME NothingStale, IInv, NEW t \in IoThreads, HandleConnectionError(t)
        PROVE  conn \in {held[t], NoConn}
    <3>1. pc[t] = "io" /\ held[t] \in Conn
      BY <2>1 DEF HandleConnectionError, TearDown, IInv, TypeOK, Threads
    <3> QED
      BY <2>1, <3>1, ConnAssumption DEF NothingStale
  <2> QED
    BY <2>1
<1>2. NothingStale /\ IInv /\ IInv' /\ [Next]_vars => NothingStale'
  BY NothingStaleNext
<1> QED
  BY <1>1, <1>2, Invariance, NothingStaleInit, PTL DEF Spec, ErrorsHitTheirOwn
============================================================================
