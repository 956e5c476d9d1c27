---------------------------- MODULE MetricsReport ----------------------------
(***************************************************************************)
(* What the agent reports of the host's network                            *)
(* (pkg/websocket/metrics_collector.go, and metricsReportLoop in           *)
(* client.go).  A report is made once a minute by one goroutine: the speed *)
(* of the network, then the traffic.  Both are differences of the kernel's *)
(* counters, each to its own cached sample, and a report that cannot be    *)
(* sent is gone.                                                           *)
(*                                                                         *)
(* The kernel's counters are seen as the one sum over all interfaces; an   *)
(* interface that goes away takes its share of it along.  In and out,      *)
(* bytes and packets are treated alike, so one counter stands for the      *)
(* four.  The other metrics are readings that nothing depends on.          *)
(***************************************************************************)
EXTENDS Integers

CONSTANTS
    Modulus,        \* 2^64: the speed is a difference of uint64
    MaxMoved,       \* bound: bytes moved
    MaxReports,     \* bound: reports begun
    MaxRestarts     \* bound: restarts of the agent

ASSUME MetricsAssumption ==
    /\ MaxMoved \in Nat \ {0} /\ MaxReports \in Nat /\ MaxRestarts \in Nat
    /\ Modulus \in Nat /\ Modulus > MaxMoved

VARIABLES
    total,          \* the kernel's sum of counters
    at,             \* what the report in progress comes to next
    lastNetworkStats, lastTrafficData,      \* the cached samples, or NoData
    received, lost, \* traffic in the reports that arrived, and in those that did not
    speed,          \* the last difference the speed was computed from
    moved, reports, restarts,   \* used up of the bounds
    past,           \* ghost: the last samples of the processes that are gone
    flow, shrunk    \* ghost: moved since the speed's sample; an interface left since

samples == <<lastNetworkStats, lastTrafficData>>
books == <<received, lost>>
bounds == <<moved, reports, restarts>>
ghosts == <<past, flow, shrunk>>
vars == <<total, at, samples, books, speed, bounds, ghosts>>

NoData == -1
Since(sample) == IF sample = NoData THEN 0 ELSE sample

\* Types; a speed is never negative, a sum of the counters never more than has moved.
TypeOK ==
    /\ total \in 0..moved
    /\ at \in {"idle", "system", "traffic"}
    /\ lastNetworkStats \in Nat \cup {NoData} /\ lastTrafficData \in Nat \cup {NoData}
    /\ received \in Int /\ lost \in Int
    /\ speed \in 0..(Modulus - 1)
    /\ moved \in 0..MaxMoved /\ reports \in 0..MaxReports /\ restarts \in 0..MaxRestarts
    /\ past \in Nat /\ flow \in Nat /\ shrunk \in BOOLEAN

Init ==
    /\ \E n \in 0..1 : total = n /\ moved = n
    /\ at = "idle"
    /\ lastNetworkStats = NoData /\ lastTrafficData = NoData
    /\ received = 0 /\ lost = 0 /\ speed = 0
    /\ reports = 0 /\ restarts = 0
    /\ past = 0 /\ flow = 0 /\ shrunk = FALSE

----------------------------------------------------------------------------
(* The host.                                                               *)

Traffic(n) ==
    /\ moved + n <= MaxMoved
    /\ total' = total + n /\ moved' = moved + n /\ flow' = flow + n
    /\ UNCHANGED <<at, samples, books, speed, reports, restarts, past, shrunk>>

InterfaceLeaves ==
    /\ total' \in 0..(total - 1)
    /\ shrunk' = TRUE
    /\ UNCHANGED <<at, samples, books, speed, bounds, past, flow>>

\* The agent restarts; its samples are gone, the kernel's counters are not.
AgentRestarts ==
    /\ restarts < MaxRestarts
    /\ restarts' = restarts + 1
    /\ at' = "idle"
    /\ lastNetworkStats' = NoData /\ lastTrafficData' = NoData
    /\ past' = past + Since(lastTrafficData)
    /\ UNCHANGED <<total, books, speed, moved, reports, flow, shrunk>>

----------------------------------------------------------------------------
(* reportMetrics, part by part.                                            *)

Report ==
    /\ at = "idle" /\ reports < MaxReports
    /\ reports' = reports + 1
    /\ at' = "system"
    /\ UNCHANGED <<total, samples, books, speed, moved, restarts, ghosts>>

\* Mutant: the sample is only kept the first time.
NextSampleFirst == IF lastNetworkStats = NoData THEN total ELSE lastNetworkStats

NextSample == total

\* Mutant: the difference has a sign.
MinusSigned(a, b) == a - b

Minus(a, b) == (a - b) % Modulus

\* CollectSystemMetrics with getNetworkSpeed.
ReportSpeed ==
    /\ at = "system"
    /\ lastNetworkStats' = NextSample
    /\ speed' = IF lastNetworkStats = NoData THEN 0 ELSE Minus(total, lastNetworkStats)
    /\ flow' = 0 /\ shrunk' = FALSE
    /\ at' = "traffic"
    /\ UNCHANGED <<total, lastTrafficData, books, bounds, past>>

\* A reading before that of the counters, or that reading, fails.
ReportSpeedFails ==
    /\ at = "system"
    /\ at' = "traffic"
    /\ UNCHANGED <<total, samples, books, speed, bounds, ghosts>>

\* sendMetrics: the connection may be gone, and nothing is sent again.
Send(amount) ==
    \/ received' = received + amount /\ UNCHANGED lost
    \/ lost' = lost + amount /\ UNCHANGED received

\* CollectTrafficMetrics; its first report is all that the counters hold.
ReportTraffic ==
    /\ at = "traffic"
    /\ Send(total - Since(lastTrafficData))
    /\ lastTrafficData' = total
    /\ at' = "idle"
    /\ UNCHANGED <<total, lastNetworkStats, speed, bounds, ghosts>>

\* Mutant: the sample is replaced although the reading failed.
TrafficFailsResampled ==
    /\ at = "traffic"
    /\ lastTrafficData' = 0
    /\ at' = "idle"
    /\ UNCHANGED <<total, lastNetworkStats, books, speed, bounds, ghosts>>

ReportTrafficFails ==
    /\ at = "traffic"
    /\ at' = "idle"
    /\ UNCHANGED <<total, samples, books, speed, bounds, ghosts>>

----------------------------------------------------------------------------
Next ==
    \/ Traffic(1) \/ InterfaceLeaves \/ AgentRestarts
    \/ Report \/ ReportSpeed \/ ReportSpeedFails \/ ReportTraffic \/ ReportTrafficFails

Spec == Init /\ [][Next]_vars

----------------------------------------------------------------------------
(* What the code keeps.                                                    *)

\* No traffic is reported twice by one process, nor left out: what arrived and what
\* was lost on the way add up to the last sample of every process there was, whatever
\* readings failed and whatever interfaces came and went.  (A new process starts from
\* the whole counter again, so the sum is not the traffic of the host.)
BooksBalance == received + lost = past + Since(lastTrafficData)

\* A speed is that of the bytes moved since its sample, if no interface left.
SpeedIsOfFlow ==
    [][ReportSpeed /\ lastNetworkStats # NoData /\ ~shrunk => speed' = flow]_vars
============================================================================
