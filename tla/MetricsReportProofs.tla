------------------------- MODULE MetricsReportProofs -------------------------
(***************************************************************************)
(* The books of MetricsReport balance for any traffic, any number of       *)
(* reports and restarts, and any width of the counters.                    *)
(***************************************************************************)
EXTENDS MetricsReport, TLAPS

USE DEF vars, samples, books, bounds, ghosts, NoData, Since

\* Types; the difference of two counters is in the range of the counters.
THEOREM TypeCorrect == Spec => []TypeOK
<1>1. Init => TypeOK
  <2> SUFFICES ASSUME Init PROVE TypeOK
    OBVIOUS
  <2>1. 0 \in 0..(Modulus - 1) /\ 0 \in 0..MaxReports /\ 0 \in 0..MaxRestarts
    BY MetricsAssumption
  <2>2. total \in 0..moved /\ moved \in 0..MaxMoved
    BY MetricsAssumption DEF Init
  <2>3. speed = 0 /\ reports = 0 /\ restarts = 0 /\ past = 0 /\ flow = 0 /\ shrunk = FALSE
    BY DEF Init
  <2>4. /\ at \in {"idle", "system", "traffic"} /\ received \in Int /\ lost \in Int
        /\ lastNetworkStats \in Nat \cup {NoData} /\ lastTrafficData \in Nat \cup {NoData}
    BY DEF Init
  <2> QED
    BY <2>1, <2>2, <2>3, <2>4 DEF TypeOK
<1>2. TypeOK /\ [Next]_vars => TypeOK'
  <2> SUFFICES ASSUME TypeOK, [Next]_vars PROVE TypeOK'
    OBVIOUS
  <2> USE MetricsAssumption DEF TypeOK
  <2>1. CASE Traffic(1)
    BY <2>1 DEF Traffic
  <2>2. CASE InterfaceLeaves
    BY <2>2 DEF InterfaceLeaves
  <2>3. CASE AgentRestarts
    BY <2>3 DEF AgentRestarts
  <2>4. CASE Report
    BY <2>4 DEF Report
  <2>5. CASE ReportSpeed
    <3>1. \A a, b \in Int : Minus(a, b) \in 0..(Modulus - 1)
      BY DEF Minus
    <3>2. total \in Nat /\ (lastNetworkStats # NoData => lastNetworkStats \in Int)
      OBVIOUS
    <3>3. speed' \in 0..(Modulus - 1)
      <4>1. CASE lastNetworkStats = NoData
        BY <2>5, <4>1 DEF ReportSpeed
      <4>2. CASE lastNetworkStats # NoData
        BY <2>5, <3>1, <3>2, <4>2 DEF ReportSpeed
      <4> QED
        BY <4>1, <4>2
    <3> QED
      BY <2>5, <3>2, <3>3 DEF ReportSpeed, NextSample
  <2>6. CASE ReportSpeedFails
    BY <2>6 DEF ReportSpeedFails
  <2>7. CASE ReportTraffic
    BY <2>7 DEF ReportTraffic, Send
  <2>8. CASE ReportTrafficFails
    BY <2>8 DEF ReportTrafficFails
  <2>9. CASE UNCHANGED vars
    BY <2>9
  <2> QED
    BY <2>1, <2>2, <2>3, <2>4, <2>5, <2>6, <2>7, <2>8, <2>9 DEF Next
<1> QED
  BY <1>1, <1>2, PTL DEF Spec

\* What arrived and what was lost add up to the last samples, always: each report takes
\* exactly the difference to the sample it replaces.
THEOREM NothingCountedTwice == Spec => []BooksBalance
<1>1. Init => BooksBalance
  BY DEF Init, BooksBalance
<1>2. TypeOK /\ BooksBalance /\ [Next]_vars => BooksBalance'
  <2> SUFFICES ASSUME TypeOK, BooksBalance, [Next]_vars PROVE BooksBalance'
    OBVIOUS
  <2>0. /\ received \in Int /\ lost \in Int /\ past \in Int /\ total \in Int
        /\ lastTrafficData \in Int
    BY MetricsAssumption DEF TypeOK
  <2> USE DEF BooksBalance
  <2>1. CASE Traffic(1)
    BY <2>1 DEF Traffic
  <2>2. CASE InterfaceLeaves
    BY <2>2 DEF InterfaceLeaves
  <2>3. CASE AgentRestarts
    BY <2>0, <2>3 DEF AgentRestarts
  <2>4. CASE Report
    BY <2>4 DEF Report
  <2>5. CASE ReportSpeed
    BY <2>5 DEF ReportSpeed
  <2>6. CASE ReportSpeedFails
    BY <2>6 DEF ReportSpeedFails
  <2>7. CASE ReportTraffic
    <3>1. total # NoData
      BY MetricsAssumption DEF TypeOK
    <3> QED
      BY <2>0, <2>7, <3>1 DEF ReportTraffic, Send
  <2>8. CASE ReportTrafficFails
    BY <2>8 DEF ReportTrafficFails
  <2>9. CASE UNCHANGED vars
    BY <2>9
  <2> QED
    BY <2>1, <2>2, <2>3, <2>4, <2>5, <2>6, <2>7, <2>8, <2>9 DEF Next
<1> QED
  BY <1>1, <1>2, TypeCorrect, PTL DEF Spec

\* What has moved since the speed's sample, no more than the modulus can tell.
FlowOK ==
    /\ flow \in 0..moved
    /\ lastNetworkStats # NoData /\ ~shrunk => total = lastNetworkStats + flow

\* Every speed but the first is that of the bytes moved since its sample, or an
\* interface has left.
THEOREM SpeedIsTrue == Spec => SpeedIsOfFlow
<1>1. Init => FlowOK
  BY DEF Init, FlowOK
<1>2. TypeOK /\ FlowOK /\ [Next]_vars => FlowOK'
  <2> SUFFICES ASSUME TypeOK, FlowOK, [Next]_vars PROVE FlowOK'
    OBVIOUS
  <2>0. /\ total \in Nat /\ moved \in Nat /\ flow \in Nat /\ total # NoData
        /\ lastNetworkStats \in Int
    BY MetricsAssumption DEF TypeOK
  <2> USE DEF FlowOK
  <2>1. CASE Traffic(1)
    BY <2>0, <2>1 DEF Traffic
  <2>2. CASE InterfaceLeaves
    BY <2>0, <2>2 DEF InterfaceLeaves
  <2>3. CASE AgentRestarts
    BY <2>3 DEF AgentRestarts
  <2>4. CASE Report
    BY <2>4 DEF Report
  <2>5. CASE ReportSpeed
    BY <2>0, <2>5 DEF ReportSpeed, NextSample
  <2>6. CASE ReportSpeedFails
    BY <2>6 DEF ReportSpeedFails
  <2>7. CASE ReportTraffic
    BY <2>7 DEF ReportTraffic
  <2>8. CASE ReportTrafficFails
    BY <2>8 DEF ReportTrafficFails
  <2>9. CASE UNCHANGED vars
    BY <2>9
  <2> QED
    BY <2>1, <2>2, <2>3, <2>4, <2>5, <2>6, <2>7, <2>8, <2>9 DEF Next
<1>3. TypeOK /\ FlowOK => (ReportSpeed /\ lastNetworkStats # NoData /\ ~shrunk => speed' = flow)
  <2> SUFFICES ASSUME TypeOK, FlowOK, ReportSpeed, lastNetworkStats # NoData, ~shrunk
               PROVE  speed' = flow
    OBVIOUS
  <2>1. speed' = (total - lastNetworkStats) % Modulus
    BY DEF ReportSpeed, Minus
  <2>2. total - lastNetworkStats = flow /\ flow \in 0..(Modulus - 1)
    BY MetricsAssumption DEF FlowOK, TypeOK
  <2>3. \A n \in 0..(Modulus - 1) : n % Modulus = n
    BY MetricsAssumption
  <2> QED
    BY <2>1, <2>2, <2>3
<1> QED
  BY <1>1, <1>2, <1>3, TypeCorrect, PTL DEF Spec, SpeedIsOfFlow
============================================================================
