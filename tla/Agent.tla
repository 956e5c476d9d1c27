-------------------------------- MODULE Agent --------------------------------
(***************************************************************************)
(* The agent as a whole, from a message that is read to its answer, and to *)
(* the end of the process (pkg/websocket/client.go, pkg/proxy/manager.go,  *)
(* pkg/agent/service.go, main.go): the reader, the message buffer, the one *)
(* processor, the task goroutines, the manager's mutex that processor and  *)
(* tasks share, and Service.Stop.                                          *)
(*                                                                         *)
(* What happens inside the parts is other modules' business.  Here a       *)
(* message is done with when its answer is sent, which may not arrive      *)
(* (Connection), a task runs or is answered from its record                *)
(* (TaskLifecycle), an egress is stopped and started, with an error or     *)
(* not, and no monitor revives it (ProxyLifecycle), and the rules of a     *)
(* message take effect or not (IptablesUpdate).  Messages are numbered in  *)
(* the order they are read; frames that are not binary or cannot be parsed *)
(* leave no trace.                                                         *)
(***************************************************************************)
EXTENDS Integers, Sequences, FiniteSets

CONSTANTS
    Egress,         \* egress ids
    Configs,        \* the sets of egresses the server may configure
    Worker,         \* bound: executeTask goroutines at once
    Capacity,       \* of messageBuffer: 100
    MaxMessages     \* bound: messages read

ASSUME AgentAssumption ==
    /\ Configs \subseteq SUBSET Egress
    /\ Capacity \in Nat \ {0} /\ MaxMessages \in Nat
    /\ Worker \cap {"nobody", "processor"} = {}

VARIABLES
    main,       \* main and Service.Stop; "panicked": the process is gone
    reader, processor,      \* where the two loops are
    buffer,     \* messageBuffer
    arrived,    \* how many messages have been read
    kind, items,    \* of each message: what it is, the egresses it configures
    fate,       \* what has become of each message
    hand,       \* the message the processor handles, or NoMsg
    worker,     \* where each task goroutine is, and its message
    mu,         \* who holds Manager.mu
    todo,       \* the holder's egresses still to be visited
    failed,     \* the holder met an error
    cfg,        \* Manager.proxies: by which message each egress is configured
    proc,       \* the process of each egress
    rules       \* the message whose rules are in the kernel, or NoMsg

stream == <<reader, buffer, arrived, kind, items>>
proxies == <<mu, todo, failed, cfg, proc>>
vars == <<main, stream, processor, hand, fate, worker, proxies, rules>>

----------------------------------------------------------------------------
Msg == 1..MaxMessages
NoMsg == 0
\* "brief" is all that is handled on the spot: a heartbeat, an acknowledgement, a type
\* that is not known, a payload that cannot be decoded.
Kinds == {"egress", "iptables", "task", "brief"}
ProcessorPcs ==
    {"select", "lock", "update", "rules", "check", "status", "ok", "error", "brief", "done"}
WorkerPcs == {"free", "lock", "restart", "run", "ok", "error"}
Verdicts == {"ok", "error"}
Ended == {"exited", "panicked"}

bufferClosed == main \in {"monitor", "exited"}
cancelled == main = "wait" \/ bufferClosed
Registered == {e \in Egress : cfg[e] # NoMsg}

\* Types; the buffer keeps to its capacity.
TypeOK ==
    /\ main \in {"run", "wait", "monitor"} \cup Ended
    /\ reader \in {"top", "read", "put", "done"} /\ processor \in ProcessorPcs
    /\ buffer \in Seq(Msg) /\ Len(buffer) <= Capacity
    /\ arrived \in 0..MaxMessages /\ (reader = "put" => arrived # 0)
    /\ kind \in [Msg -> Kinds \cup {"unread"}] /\ items \in [Msg -> SUBSET Egress]
    /\ fate \in [Msg -> {"open", "dropped", "brief"} \cup Verdicts]
    /\ hand \in Msg \cup {NoMsg}
    /\ (hand = NoMsg <=> processor \in {"select", "done"})
    /\ worker \in [Worker -> [at : WorkerPcs, msg : Msg \cup {NoMsg}]]
    /\ \A w \in Worker : worker[w].at # "free" => worker[w].msg \in Msg
    /\ mu \in {"nobody", "processor"} \cup Worker
    /\ todo \in SUBSET Egress /\ failed \in BOOLEAN
    /\ cfg \in [Egress -> Msg \cup {NoMsg}]
    /\ proc \in [Egress -> {"none", "up", "stopped", "failed"}]
    /\ rules \in Msg \cup {NoMsg}

\* Service.Start has run.
Init ==
    /\ main = "run" /\ reader = "top" /\ processor = "select"
    /\ buffer = <<>> /\ arrived = 0 /\ hand = NoMsg
    /\ kind = [m \in Msg |-> "unread"] /\ items = [m \in Msg |-> {}]
    /\ fate = [m \in Msg |-> "open"]
    /\ worker = [w \in Worker |-> [at |-> "free", msg |-> NoMsg]]
    /\ mu = "nobody" /\ todo = {} /\ failed = FALSE
    /\ cfg = [e \in Egress |-> NoMsg] /\ proc = [e \in Egress |-> "none"]
    /\ rules = NoMsg

Settle(m, f) == fate' = [fate EXCEPT ![m] = f]

----------------------------------------------------------------------------
(* readMessageLoop.                                                        *)

\* Mutant: the loop does not look at its context.
ReaderTopUnchecked ==
    /\ reader = "top"
    /\ reader' = "read"
    /\ UNCHANGED <<main, buffer, arrived, kind, items, processor, hand, fate, worker, proxies, rules>>

\* With no connection to read from, the wait is for the context or a second.
ReaderTop ==
    /\ reader = "top"
    /\ reader' = IF cancelled THEN "done" ELSE "read"
    /\ UNCHANGED <<main, buffer, arrived, kind, items, processor, hand, fate, worker, proxies, rules>>

\* An error, no connection, or 60 seconds of silence.
ReadFails ==
    /\ reader = "read"
    /\ reader' = "top"
    /\ UNCHANGED <<main, buffer, arrived, kind, items, processor, hand, fate, worker, proxies, rules>>

ReadMessage(k, es) ==
    /\ reader = "read" /\ arrived < MaxMessages
    /\ k # "egress" => es = {}
    /\ arrived' = arrived + 1
    /\ kind' = [kind EXCEPT ![arrived + 1] = k]
    /\ items' = [items EXCEPT ![arrived + 1] = es]
    /\ reader' = "put"
    /\ UNCHANGED <<main, buffer, processor, hand, fate, worker, proxies, rules>>

\* Mutant: off by one.
HasRoomInclusive == Len(buffer) <= Capacity

HasRoom == Len(buffer) < Capacity

\* The select takes the buffer or the cancelled context, whichever it picks, and
\* gives the message up when neither is ready.
Put ==
    /\ reader = "put" /\ HasRoom
    /\ buffer' = Append(buffer, arrived)
    /\ reader' = "top"
    /\ UNCHANGED <<main, arrived, kind, items, processor, hand, fate, worker, proxies, rules>>

PutStops ==
    /\ reader = "put" /\ cancelled
    /\ Settle(arrived, "dropped")
    /\ reader' = "done"
    /\ UNCHANGED <<main, buffer, arrived, kind, items, processor, hand, worker, proxies, rules>>

Drop ==
    /\ reader = "put" /\ ~HasRoom /\ ~cancelled
    /\ Settle(arrived, "dropped")
    /\ reader' = "top"
    /\ UNCHANGED <<main, buffer, arrived, kind, items, processor, hand, worker, proxies, rules>>

ReaderStep ==
    ReaderTop \/ ReadFails \/ Put \/ PutStops \/ Drop
    \/ \E k \in Kinds, es \in Configs \cup {{}} : ReadMessage(k, es)

----------------------------------------------------------------------------
(* messageProcessLoop and processMessage.                                  *)

ProcessorGoes(l) == processor' = l /\ UNCHANGED hand
ProcessorRests == processor' = "select" /\ hand' = NoMsg

\* Where processMessage goes.
HandlerOf(k) ==
    CASE k = "egress" -> "lock"
      [] k = "iptables" -> "rules"
      [] k = "task" -> "check"
      [] OTHER -> "brief"

\* Mutant: the newest message first.
TakeNewest ==
    /\ processor = "select" /\ buffer # <<>>
    /\ hand' = buffer[Len(buffer)] /\ buffer' = SubSeq(buffer, 1, Len(buffer) - 1)
    /\ processor' = HandlerOf(kind[hand'])
    /\ UNCHANGED <<main, reader, arrived, kind, items, fate, worker, proxies, rules>>

Take ==
    /\ processor = "select" /\ buffer # <<>>
    /\ hand' = Head(buffer) /\ buffer' = Tail(buffer)
    /\ processor' = HandlerOf(kind[hand'])
    /\ UNCHANGED <<main, reader, arrived, kind, items, fate, worker, proxies, rules>>

ProcessorStops ==
    /\ processor = "select" /\ cancelled
    /\ processor' = "done"
    /\ UNCHANGED <<main, stream, hand, fate, worker, proxies, rules>>

\* The end of a handler, with an answer or, for some brief ones, without.
HandlerEnds ==
    /\ processor \in Verdicts \cup {"brief"}
    /\ Settle(hand, processor)
    /\ ProcessorRests
    /\ UNCHANGED <<main, stream, worker, proxies, rules>>

----------------------------------------------------------------------------
(* Manager: UpdateProxies by the processor, RestartAll by a task.          *)

Acquire(who, es) ==
    /\ mu = "nobody"
    /\ mu' = who /\ todo' = es
    /\ UNCHANGED <<failed, cfg, proc>>

Release == mu' = "nobody" /\ failed' = FALSE /\ UNCHANGED <<todo, cfg, proc>>

LockForUpdate ==
    /\ processor = "lock"
    /\ Acquire("processor", items[hand])
    /\ ProcessorGoes("update")
    /\ UNCHANGED <<main, stream, fate, worker, rules>>

Updating == processor = "update" /\ UNCHANGED <<main, stream, processor, hand, fate, worker, rules>>

\* configureProxy: the proxy that is registered is stopped first.
StopExisting(e) ==
    /\ Updating /\ e \in todo /\ e \in Registered /\ proc[e] # "stopped"
    /\ proc' = [proc EXCEPT ![e] = "stopped"]
    /\ UNCHANGED <<mu, todo, failed, cfg>>

Stopped(e) == e \in Registered => proc[e] = "stopped"

Configure(e) ==
    /\ Updating /\ e \in todo /\ Stopped(e)
    /\ todo' = todo \ {e}
    /\ cfg' = [cfg EXCEPT ![e] = hand] /\ proc' = [proc EXCEPT ![e] = "up"]
    /\ UNCHANGED <<mu, failed>>

\* Not supported, not installed, or it cannot be configured or started.
ConfigureFails(e) ==
    /\ Updating /\ e \in todo /\ Stopped(e)
    /\ todo' = todo \ {e} /\ failed' = TRUE
    /\ proc' = [proc EXCEPT ![e] = IF e \in Registered THEN "failed" ELSE "none"]
    /\ UNCHANGED <<mu, cfg>>

\* Configure follows the nil pointer of an item that has no port or password.
ConfigurePanics(e) ==
    /\ processor = "update" /\ e \in todo /\ Stopped(e)
    /\ main' = "panicked"
    /\ UNCHANGED <<stream, processor, hand, fate, worker, proxies, rules>>

\* Mutant: egresses the message does not name are left alone.
NoneSuperfluous == {}

Superfluous == Registered \ items[hand]

Remove(e) ==
    /\ Updating /\ todo = {} /\ e \in Superfluous
    /\ cfg' = [cfg EXCEPT ![e] = NoMsg] /\ proc' = [proc EXCEPT ![e] = "none"]
    /\ UNCHANGED <<mu, todo, failed>>

\* Mutants: an update that failed is tried again, or passes for a good one.
UpdateEndsBlind ==
    /\ processor = "update" /\ todo = {} /\ Superfluous = {}
    /\ Release
    /\ ProcessorGoes("status")
    /\ UNCHANGED <<main, stream, fate, worker, rules>>

UpdateEndsRetries ==
    /\ processor = "update" /\ todo = {} /\ Superfluous = {}
    /\ Release
    /\ ProcessorGoes(IF failed THEN "lock" ELSE "status")
    /\ UNCHANGED <<main, stream, fate, worker, rules>>

UpdateEnds ==
    /\ processor = "update" /\ todo = {} /\ Superfluous = {}
    /\ Release
    /\ ProcessorGoes(IF failed THEN "error" ELSE "status")
    /\ UNCHANGED <<main, stream, fate, worker, rules>>

\* GetStatus, for the positive answer, takes the lock once more, for reading.
GetStatus ==
    /\ processor = "status" /\ mu = "nobody"
    /\ ProcessorGoes("ok")
    /\ UNCHANGED <<main, stream, fate, worker, proxies, rules>>

\* UpdateRulesFromProto.  What a failure leaves is not known here.
UpdateRules ==
    /\ processor = "rules"
    /\ \/ rules' = hand /\ ProcessorGoes("ok")
       \/ rules' = NoMsg /\ ProcessorGoes("error")
    /\ UNCHANGED <<main, stream, fate, worker, proxies>>

----------------------------------------------------------------------------
(* handleTaskMessage and executeTask.                                      *)

WorkerGoes(w, l) == worker' = [worker EXCEPT ![w].at = l]

\* CheckTaskStatus found a record to answer from.
TaskKnown ==
    /\ processor = "check"
    /\ \E v \in Verdicts : ProcessorGoes(v)
    /\ UNCHANGED <<main, stream, fate, worker, proxies, rules>>

\* "lock": a restart of the proxies; "run": any other task, and one HandleTask refuses.
Spawn(w) ==
    /\ processor = "check" /\ worker[w].at = "free"
    /\ \E l \in {"lock", "run"} : worker' = [worker EXCEPT ![w] = [at |-> l, msg |-> hand]]
    /\ ProcessorRests
    /\ UNCHANGED <<main, stream, fate, proxies, rules>>

RunTask(w) ==
    /\ worker[w].at = "run"
    /\ \E v \in Verdicts : WorkerGoes(w, v)
    /\ UNCHANGED <<main, stream, processor, hand, fate, proxies, rules>>

LockForRestart(w) ==
    /\ worker[w].at = "lock"
    /\ Acquire(w, Registered)
    /\ WorkerGoes(w, "restart")
    /\ UNCHANGED <<main, stream, processor, hand, fate, rules>>

Restarting(w) == worker[w].at = "restart" /\ UNCHANGED <<main, stream, processor, hand, fate, worker, rules>>

RestartStops(w, e) ==
    /\ Restarting(w) /\ e \in todo /\ proc[e] # "stopped"
    /\ proc' = [proc EXCEPT ![e] = "stopped"]
    /\ UNCHANGED <<mu, todo, failed, cfg>>

RestartStarts(w, e) ==
    /\ Restarting(w) /\ e \in todo /\ proc[e] = "stopped"
    /\ todo' = todo \ {e}
    /\ \/ proc' = [proc EXCEPT ![e] = "up"] /\ UNCHANGED failed
       \/ proc' = [proc EXCEPT ![e] = "failed"] /\ failed' = TRUE
    /\ UNCHANGED <<mu, cfg>>

RestartEnds(w) ==
    /\ worker[w].at = "restart" /\ todo = {}
    /\ Release
    /\ WorkerGoes(w, IF failed THEN "error" ELSE "ok")
    /\ UNCHANGED <<main, stream, processor, hand, fate, rules>>

TaskEnds(w) ==
    /\ worker[w].at \in Verdicts
    /\ Settle(worker[w].msg, worker[w].at)
    /\ worker' = [worker EXCEPT ![w] = [at |-> "free", msg |-> NoMsg]]
    /\ UNCHANGED <<main, stream, processor, hand, proxies, rules>>

----------------------------------------------------------------------------
(* main: a signal, then Service.Stop with Client.Stop inside it.           *)

MainGoes(from, to) ==
    /\ main = from
    /\ main' = to
    /\ UNCHANGED <<stream, processor, hand, fate, worker, proxies, rules>>

\* Stop cancels the context and waits.
Signal == MainGoes("run", "wait")

\* Mutant: Stop does not wait.
StopWaitSkipped == MainGoes("wait", "monitor")

\* The WaitGroup counts the loops of the client, not the task goroutines.  Then the
\* connection and messageBuffer are closed.
StopWait ==
    /\ reader = "done" /\ processor = "done"
    /\ MainGoes("wait", "monitor")

\* StopMonitor; then main returns, and with it the process ends.
StopExit == MainGoes("monitor", "exited")

----------------------------------------------------------------------------
ProcessorStep ==
    \/ Take \/ ProcessorStops \/ HandlerEnds
    \/ LockForUpdate \/ UpdateEnds \/ GetStatus
    \/ \E e \in Egress :
          StopExisting(e) \/ Configure(e) \/ ConfigureFails(e) \/ ConfigurePanics(e) \/ Remove(e)
    \/ UpdateRules \/ TaskKnown \/ \E w \in Worker : Spawn(w)

WorkerStep(w) ==
    \/ RunTask(w) \/ LockForRestart(w) \/ RestartEnds(w) \/ TaskEnds(w)
    \/ \E e \in Egress : RestartStops(w, e) \/ RestartStarts(w, e)

StopStep == StopWait \/ StopExit

\* Two goroutines write to the connection at once (Connection).  After Stop has waited
\* only those of tasks are left to do so, or to send on a closed channel.
WriterPanics ==
    /\ bufferClosed => \E w \in Worker : worker[w].at \in Verdicts
    /\ main' = "panicked"
    /\ UNCHANGED <<stream, processor, hand, fate, worker, proxies, rules>>

Alive == main \notin Ended

Next ==
    \/ Alive /\ (ReaderStep \/ ProcessorStep \/ (\E w \in Worker : WorkerStep(w)) \/ Signal \/ StopStep \/ WriterPanics)
    \/ ~Alive /\ UNCHANGED vars

Spec == Init /\ [][Next]_vars

\* Go schedules every goroutine, a read ends (deadline), commands end, and a mutex
\* is handed over: the processor and the tasks contend for it a bounded number of
\* times.  Nobody must signal.
FairSpec ==
    /\ Spec
    /\ WF_vars(Alive /\ ReaderStep)
    /\ WF_vars(Alive /\ ProcessorStep)
    /\ \A w \in Worker : WF_vars(Alive /\ WorkerStep(w))
    /\ WF_vars(Alive /\ StopStep)

----------------------------------------------------------------------------
(* Safety.                                                                 *)

Buffered == {buffer[i] : i \in 1..Len(buffer)}
Accepted == {m \in 1..arrived : fate[m] # "dropped" /\ ~(reader = "put" /\ m = arrived)}
Taken == Accepted \ Buffered

\* Messages are taken up in the order they were read, each once, and none that was
\* not dropped is passed over: a configuration never overtakes a later one.
NoOvertaking ==
    /\ \A m \in Taken, n \in Buffered : m < n
    /\ \A i, j \in 1..Len(buffer) : i < j => buffer[i] < buffer[j]

\* A configuration that was acknowledged with success is what is registered, down to
\* the egresses it does not name, until a later one is taken up, whatever tasks,
\* errors and a stop come in between; and so for the rules in the kernel.
AckedIsInForce ==
    \A m \in Msg :
        /\ fate[m] = "ok" /\ kind[m] \in {"egress", "iptables"}
        /\ \A n \in Taken : kind[n] = kind[m] => n <= m
        => IF kind[m] = "egress"
           THEN \A e \in Egress : cfg[e] = IF e \in items[m] THEN m ELSE NoMsg
           ELSE rules = m

\* Once the buffer is closed nobody sends on it, and no update is cut off by the end
\* of the process.  A proxy that is stopped and not started again is one of a restart
\* task, which Stop does not wait for.
StopIsOrderly ==
    bufferClosed =>
        /\ reader # "put" /\ mu # "processor"
        /\ \A e \in Registered : proc[e] = "stopped" => mu \in Worker /\ e \in todo

----------------------------------------------------------------------------
(* The promise to the server.                                              *)

\* Agent implements MessageService: a message is received when the reader has put it into
\* the buffer or given it up, and a task is on its own while a goroutine has it.
Up == CASE main = "run" -> "up" [] main \in Ended -> main [] OTHER -> "stopping"
Received == IF reader = "put" THEN arrived - 1 ELSE arrived
KindOf == [m \in Msg |-> IF m <= Received THEN kind[m] ELSE "unread"]
ItemsOf == [m \in Msg |-> IF m <= Received THEN items[m] ELSE {}]
Working == {w \in Worker : worker[w].at # "free"}
Tasks == {worker[w].msg : w \in Working}

Service == INSTANCE MessageService WITH
    up <- Up, count <- Received, kind <- KindOf, items <- ItemsOf,
    inbox <- buffer, tasks <- Tasks, table <- cfg

ImplementsMessages == Service!Spec

----------------------------------------------------------------------------
(* Liveness, under FairSpec.                                               *)

\* Every message that was accepted is taken up and done with, although the manager's
\* mutex may be with a restart of all proxies, unless the agent stops or panics.
AcceptedIsSettled ==
    \A m \in Msg : m \in Buffered ~> fate[m] # "open" \/ main # "run"

\* Once signalled the agent exits, however its loops and tasks contend.
StopCompletes == main = "wait" ~> main \in Ended
============================================================================
