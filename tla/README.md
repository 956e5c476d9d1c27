# NSPass Agent in TLA+

A verification project for the NSPass agent, a daemon that keeps one WebSocket
connection to a control server, receives configurations and tasks over it, and
manages proxy processes and firewall rules on its host. It has TLA+ models of
the agent's stateful parts, TLC runs that check them on small instances, and
TLAPS proofs for instances of every size. Paths are relative to the repository.

Check a run with `tlc -config <cfg> <module>`, proofs with `tlapm <module>.tla`;
`PROJECT.json` lists both, and maps every definition to the lines it models.

## The system

| Component | State | Operations | Interacts with |
|---|---|---|---|
| WebSocket connection, `pkg/websocket/client.go` | `conn`, `connected` under `connMu`; `shouldReconnect`; a wake-up channel with room for one element; a context; a WaitGroup | `reconnectLoop`/`connect`, `readMessageLoop`, `sendMessage`, `handleConnectionError`, `triggerReconnect`, `Start`, `Stop` | the server; every goroutine that sends |
| Message routing, `client.go` | `messageBuffer`, room for 100 | reader puts in, `messageProcessLoop` takes out and dispatches by type | tasks, proxies, iptables; acknowledgements go back through the connection |
| Task handling, `pkg/websocket/task_handler.go` | `TaskManager.tasks`: status, completion time, result | receive, check, execute in a goroutine, record, answer; cancel; forget after 24 h | routing; one task restarts the agent |
| Proxy manager, `pkg/proxy/manager.go` | `proxies` under `mu` | `UpdateProxies`, `RestartAll`, `StopAll`, `RemoveProxy`, `EnableProxyMonitor` | instances; registers them with the monitor |
| Proxy monitor, `pkg/proxy/monitor.go` | `states` with status, switch and restart history | rounds of `checkProxyHealth`, `attemptRestart`, register, unregister, enable, stop | calls Stop, Configure and Start of instances without the manager's lock |
| Shadowsocks, `pkg/proxy/shadowsocks/shadowsocks.go` | a pid file; a process | `Start`, `Stop`, `IsRunning`, `Configure` | the operating system |
| iptables manager, `pkg/iptables/` | `managedRules`, backup files, the kernel's tables | `UpdateRulesFromProto`: back up, save, generate, restore, roll back | `iptables-save`, `iptables-restore`, other programs |
| Service and main, `pkg/agent/`, `main.go` | the components | construction, `Start`, `Stop` on a signal | owns everything; systemd restarts it |
| Metrics collector, `pkg/websocket/metrics_collector.go` | two samples of the network's counters | collect | `metricsReportLoop`, once a minute |
| Configuration, `pkg/config/` | values | load, default, validate | the monitor's limits |
| Logger, Trojan, Snell, BaseProxy, scripts | files | write | not modelled, see below |

### What is hard, and what makes it correct

- **Connection.** Reader, tickers, processor and task goroutines notice a failure
  at different times, and all call one handler that closes *the current*
  connection. A wake-up is dropped when one is queued. The loop tests, waits 10 s,
  dials and installs without holding anything. Stop cancels, waits, and only then
  closes. Correct means: a lost connection is always replaced, no socket leaks,
  no error tears down the wrong connection, Stop returns and leaves nothing.
- **Tasks.** The server redelivers. The check of a record and its change are two
  critical sections, cancellations and cleanups come between, results arrive in
  two steps, the table dies with the process. Correct means: no record stays
  RUNNING without somebody to end it, no execution without a delivery, no answer
  without a cause, a completed task is not run again before it is forgotten.
- **Proxies.** Two threads start and stop the same process through a pid file
  and only one holds the lock; exited children are zombies; processes outlive the
  agent; several steps can fail. Correct means: one process per egress, with the
  registered configuration, and a crash leads to a restart.
- **Firewall.** Each step of an update can fail, `iptables-restore` can fail
  between two tables, other programs edit the same tables, tables come and go, the
  agent can be killed in the middle. Correct means: success is exactly the server's
  rules, rules of other programs are spared, a rollback gives every table that was
  there its rules back.
- **Routing and shutdown.** A full buffer drops messages silently, tasks leave the
  processor for goroutines of their own and contend with it for the manager's
  lock, a malformed configuration panics, a signal can come at any time. Correct
  means: a configuration never overtakes a later one, what was acknowledged is in
  force, what was accepted is settled, Stop cuts no update off and returns.
- **Monitor policy.** Cooldown, hourly limit, a history cut at 100, limits from a file,
  a read lock taken twice. Correct means: the limits limit, nothing is given up
  without a cause, and nobody waits for ever.
- **Metrics.** Differences to a cached sample; readings fail, reports are lost,
  interfaces leave. Correct means: nothing is reported twice or left out.

`PROJECT.json` lists the hazards one by one, each at its line, with the
properties that cover it.

## Modules

| Module | Models | Size |
|---|---|---|
| `Connection` | the connection's goroutines, the wake-up channel, Stop, the network | one program counter per goroutine |
| `TaskService` | what the server may rely on about tasks | counters per task |
| `TaskLifecycle` | from a TASK message to its answer, across restarts; implements `TaskService` | one record per task, one job per goroutine |
| `ProxyService` | what the agent promises about an egress' proxy | what runs and what is registered, per egress |
| `ProxyLifecycle` | manager, monitor, Shadowsocks, processes, pid files, across restarts; implements `ProxyService` | one job per thread, one slot per process |
| `MonitorPolicy` | when the monitor may restart: clock, limits, history, the state's RWMutex | one check, the states of one egress |
| `IptablesUpdate` | one firewall update at a time against failures, other programs, restarts | sets of rules per table |
| `MessageService` | what the server may rely on about messages | a fate per message, what is in force |
| `Agent` | reader, buffer, processor, task goroutines, the manager's lock, Service.Stop; implements `MessageService` | one program counter per goroutine |
| `MetricsReport` | the cached samples and what is reported from them | one counter |
| `MC…` | model values, symmetry sets, definitions for TLC (`MetricsReport` needs none) | |
| `…Proofs` | inductive invariants and theorems | |

`Agent` composes the others: it has the whole path of a message and takes from each
part the outcome that the part's own module justifies. The other modules carry the
other side of their interface: sends of any origin are turns of `Connection`; a
task goroutine is a slot in `Connection`, where it may outlive Stop, and a worker
in `TaskLifecycle`, where the answer may be lost; `CanRestart` answers either way in
`ProxyLifecycle` and is computed in `MonitorPolicy`; an agent restart is an action
wherever something outlives the process.

### Connection

`pc` says where each goroutine is; each critical section of `connMu` and each
access to the flag, the channel or the context is one step. `triggerReconnect` is
two steps (`TriggerCheck`, `TriggerPush`), `reconnectLoop` and `connect` are
`LoopReceive` … `LoopInstall`, `sendMessage` and one round of `readMessageLoop`
are `Snapshot`, then `IoOk` or `HandleConnectionError`, and Stop is five steps.
`shouldReconnect` is read without a lock in the code; the steps allow any order.
`link` is the state at the transport: up, broken (nobody noticed yet), closed.
`DelayOutlastsErrors` is the one assumption about time: whoever still holds a
connection that the client has closed hears of it before the 10 s delay is over.
It is FALSE in the safety run, so that the safety properties do not need it.

### TaskLifecycle

`table` is `TaskManager.tasks`, with the completion time reduced to unset, set, or
more than 24 hours old. Every method of `TaskManager` is one step, and
`CheckTaskStatus` followed by `UpdateTaskStatus` two. A worker goes through
`Check`, (`Create`,) `Mark`, `Run`, `Store`, `Result`, `Reply`. What a task does is
one of three outcomes: a completed result, a failed result, an error. `runs`,
`ended` and `answers` are ghosts. `CancelTask` is in the model as part of the
handler's interface; nothing in the program calls it.

### TaskService

The abstract specification has no goroutines, records or locks. A message is kept
for an execution (`owed`) or answered; an execution begins only for a message that
is owed one; the server is told only what has a cause. A task whose execution
completed, with none in progress, may become `settled`; from then on its messages are
answered at once and no execution of it begins, until it is forgotten. `TaskLifecycle`
implements it with the refinement mapping `received <- deliveries`, `begun <- runs`, and
the others computed: what is owed is the goroutines that have not marked their task yet,
and the one about to be spawned; what is live is the goroutines in execution; a task is
settled while its record is COMPLETED and nobody is past a check of it.
`Mark` is `Begin`, a goroutine that finds nothing to do is `Drop`, `Run` is `End`, a reply is
`Report`, the last write of a COMPLETED record is `Settle`, a cleanup is `Forget` or
nothing; other changes and reads of the table, and cancellations, are stutters.

### ProxyService

The abstract specification has no pid files, threads, checks or zombies. An operation
(`plan`) is worked off egress by egress (`hand`); for each it may start one process, and
registers the new configuration if it did; where it failed, halted or removed, nothing
runs. Beside it the agent may only bring back what is registered, where nothing runs and
the manager is not at work, and processes end. `ProxyLifecycle` implements it: what runs
(`Running`) is the set of configurations of the processes that are up, an operation has
`started` from the moment `Spawn` made the process, and an egress that is `spoiled` is
`lost`: nothing runs there as far as this specification is concerned, though the
manager must still work in its order. Stop's signal is `End`, the monitor's `Spawn` is
`Revive`; pid files, checks and tables of the monitor are stutters. `renewals` counts
restarts of the agent, so that a step that merely leaves nothing behind does not pass
for one.

### ProxyLifecycle

A manager operation is a plan (`todo`) that `Begin`, `Configure` and `Started` work
off, one egress at a time, in any order where Go ranges over a map. A check is
`Check`, `Probe` and, after a crash verdict, the same `Kill`, `Unlink`, `StartProbe`,
`Spawn`, `Write` as the manager's, without the manager's lock. Re-registering an
egress while a check has its state in hand detaches that state. A process is up,
told to terminate, or dead, and a dead child is a zombie that `kill(pid, 0)` finds.
`spoiled` is a ghost that names the cases in which the code promises nothing (below).
StopMonitor cancels the context, after which the select may still pick one pending
tick (`watching`: on, ending, off).

### MonitorPolicy

Time is a counter. `Read`, `Probe`, `Limit`, `Count` and `Restarted` are the locked
sections of one check; `Limit` and `Count` are CanRestart before and after its call of
GetRecentRestarts, which takes the same read lock again, and a writer that waits
(`ToggleLock`, until `ToggleSet`) keeps new readers out as Go's RWMutex does. A restart
takes time, so no two of a state end at once and the history is the set of their
times, cut from the front. A new registration is a new state; a check goes on with the
one it began with. `config` is what `setDefaults` makes of the file, zero and negative
values included. `done` and `letdown` are ghosts.

### IptablesUpdate

`Update`, `Backup`, `Read`, then `Commit` table by table, then `Applied`; or at any
time `ApplyFails`, then `Commit` again from the newest backup, then `Restored` or
`RestoreFails`. The backup can fail, can be cut short and then has the tables before
the cut, or can be an older update's. `present` is the tables the kernel has:
`iptables-save` lists no others, `iptables-restore` makes those its file has and the
kernel does not, and flushes only those its file has. So a table that an update made
and committed before it failed is not in the backup, and stays after the rollback. A
rule is the id of its configuration. The ghosts `foreign` and `before`
remember what other programs put there and what a backup of the tables as the update
found them would hold, and `asked` what each
update so far was to place in which table.

### MessageService

The abstract specification has no loops, mutex or commands. A message is received into
an inbox with room for `Capacity`, or dropped for want of room or because the agent
stops; taken up in order, one at a time; answered once. While a configuration is in hand,
and only then, an egress comes to what that message asks for; success needs all of them
to. The agent does not end with a message in hand, but by a panic, and that may come at
any time. `Agent` implements it:
a message that the reader still holds is not received yet (`Received`), a task is on its
own while a goroutine has it (`Tasks`), what is registered is `table`. Locks, stops and
starts of proxies, a task's restart of all proxies and the steps of Stop are stutters.

### Agent

Messages are numbered as they are read. The reader's select is `Put`, `PutStops` or
`Drop`; the processor takes the oldest and goes where `HandlerOf` says. An update
holds `Manager.mu` from `LockForUpdate` to `UpdateEnds`, visits the message's egresses in
any order (each stopped, then configured, or failing, or panicking) and removes the
superfluous ones; RestartAll of a task holds the same lock. The positive answer takes
it once more (`GetStatus`). Signal, wait for the loops, monitor, exit are the steps of
`main`. Two ways lead to a panic: `ConfigurePanics`, and `WriterPanics` when two goroutines
write to the connection at once, which loops and tasks can at any time, and tasks alone
once the loops have ended. `fate` is what has become of each message.

### MetricsReport

One report is `Report`, then the speed, then the traffic, each of which may fail to
read; the traffic may be lost when it is sent. The sample is replaced in the same
step as the difference is taken. The speed is a difference of `uint64`, hence `Modulus`.

## Runs

| Run | Instance | Shows |
|---|---|---|
| `conn_safety` | 3 connections, heartbeat, 1 task goroutine, any timing | `NoLostWakeup`, `NoLeakedConnection`, `StopLeavesNothing` |
| `conn_live` | 3 connections, heartbeat, the timing assumption, fairness | `ErrorsHitTheirOwn`, `ReconnectsForGood`, `StopReturns` |
| `task_safety` | 1 task, 2 goroutines, 3 deliveries, 1 restart, 1 cancellation, fairness | `RunningHasRunner`, `OneRunPerDelivery`, `AnswersHaveACause`, `CompletedIsFinal`, `RunningEnds`, `ImplementsService` |
| `task_duplicate` | same | finding: a duplicate makes a task run twice at once |
| `task_answer` | same | finding: success is reported before any execution ended |
| `proxy_safety` | 1 egress, 2 configurations, 3 processes, 3 operations, 1 restart | `NoStrays`, `UpdateTakesEffect`, `ImplementsProxies` |
| `proxy_crash` | 1 egress, 2 processes, 1 operation, fairness | finding: a crash is never noticed |
| `iptables_safety` | 2 tables, each there or not, 2 managed and 1 foreign rule, 2 updates, 1 edit, 1 restart | `SuccessIsExact`, `ForeignRulesKept`, `RollbackRestores`, `TablesAreWhole` |
| `iptables_atomic` | 3 tables, 1 managed and 1 foreign rule, 2 updates, 2 edits, 1 restart | finding: an update that fails, and is rolled back, leaves a table it made |
| `monitor_policy` | 2 registrations, an hour of 4 ticks in 7, a history of 2, five configured limits, 1 switch, fairness | `HourlyLimit`, `CooldownKept`, `LimitIsExact`, `OnlyWedgeBlocks`, `GivenUpForCause`, `ChecksEnd` |
| `agent_messages` | 2 egresses, 1 task goroutine, a buffer of 2, 3 messages, fairness | `NoOvertaking`, `AckedIsInForce`, `StopIsOrderly`, `AcceptedIsSettled`, `StopCompletes`, `ImplementsMessages` |
| `metrics_report` | 4 bytes moved, modulus 8, 3 reports, 1 restart | `BooksBalance`, `SpeedIsOfFlow` |

Every passing run also checks `TypeOK`. A run that expects a violation checks one
sentence of the documentation or of a comment that the code does not keep; the
findings quote it. Deadlock is checked wherever the system goes on: not where time is
bounded and the lock can wedge (`monitor_policy`) nor where reports are bounded
(`metrics_report`).

### Why these bounds are enough

- Connections: one held by a goroutine that has not noticed, one current, one being
  dialled. A closed identity nobody refers to can be used again, so the number of
  reconnects is not bounded. One ticker stands for both; they run the same code,
  and the proofs cover both and any number of task goroutines.
- Tasks: records do not interact, except that one process loop and one
  `CancelTask` at a time handle them, so one task is enough. Two goroutines and
  three deliveries give every overlap of two executions, then a retry. With no
  free slot `Spawn` waits, which only delays.
- Proxies: egresses meet only in the manager's lock and in the round, which
  waits for all its checks; everything a property relates belongs to one
  egress. Two egresses would repeat it. Three processes are one per thread and one
  left over; four gave the same verdict. Three operations are configure, change
  and remove, or configure, restart and change.
- Firewall: two tables, so that loading can stop between them, either of which may
  not be there, and two managed rules, so that a table could mix two updates; two
  updates so that an older backup, older rules and a forgotten `managedRules` matter.
  Rules of other programs are kept or dropped one by one, so one is enough, and an edit
  matters by when it comes: one is enough to come at any point of either update.
  `iptables_atomic` has a third table, one that the generated file never has, and a
  second edit. The proofs cover any tables, rules and edits. Rules that look managed are
  left to the proof.
- Monitor: two registrations, so that a check can hold an old state. The history holds
  two records, and the limits configured are below it, at it and above it, with zero
  and negative values; seven ticks fit an hour and what follows it.
- Messages: a buffer of two is filled by two of three messages while one more is
  handled, so the third is dropped or overtakes nothing. Two egresses are needed:
  configurations overlap in one, and a restart or an update can stand between
  them. A second task goroutine only contends for the lock in the same way.
- Metrics: three reports make two differences; one restart forgets the samples.
  Counters that start at 0 or 1 have room to grow and to shrink.
- Every pass above has been tested against mutants: for each property one plausible
  slip (a dropped guard, a wrong order, a forgotten reset) that TLC finds. They
  are the definitions headed "Mutant".

### Exceptions the properties name

They are stated as narrowly as TLC allows: without any one of them it finds a
violation.

- `NoStrays`, `UpdateTakesEffect`, `ImplementsProxies`: the manager works on an egress during the
  monitor's restart of it (or the monitor decides on one during an operation or
  on a detached state); an agent restart leaves the process behind; a pid file
  could not be written.
- `ForeignRulesKept`: rules that look managed; tables edited while `iptables-restore` runs,
  and the tables of the backup when an update rolls back to an older one, or to its own
  after an edit.
- `RollbackRestores`: tables that were not there when the update began, in which its rules
  may stay (and only those); edits while it runs.
- `SuccessIsExact`: edits since the update began; rules for a table the generated file
  never has (security), which the code drops with success.
- `CompletedIsFinal`: a goroutine, a delivery or a cancellation already past its check.
- `StopLeavesNothing`: task goroutines, which the WaitGroup does not count.
- `StopIsOrderly`: the egresses that a restart task has stopped and not started yet, for
  the same reason.
- `AcceptedIsSettled`: the agent is told to stop, or panics: on a configuration without
  port or password (`shadowsocks.go:80`), or because two goroutines write at once
  (`client.go:904`).
- `HourlyLimit`: limits above what the history can hold, and restarts of another
  registration, whose history is gone.
- `ChecksEnd`, `OnlyWedgeBlocks`: a writer between the two read locks of CanRestart (`monitor.go:117`),
  after which neither gets on.
- `SpeedIsOfFlow`: an interface left since the sample; then the difference wraps or is
  too small.

### Fairness

- `Connection`: Go schedules runnable goroutines, a timer that is due fires, reads
  end by the 60 s deadline and dials by the handshake timeout (weak fairness). A
  select that has both a cancelled context and another ready case picks at random,
  so leaving a loop gets strong fairness. Nothing obliges a ticker or a sender to
  act, the network to calm down, or anybody to call Stop: `ReconnectsForGood`
  assumes `<>calm` and `StopReturns` starts at the call. `WriteMessage` has no deadline;
  that a write returns in the end is assumed, and a sender that never comes back from one
  would keep Stop waiting.
- `TaskLifecycle`: workers are scheduled and handlers return. The commands
  that handlers run are assumed to end.
- `ProxyLifecycle`: threads are scheduled, rounds come, and a process that is told to
  terminate does. A process need not exit by itself.
- `MonitorPolicy`: time passes, goroutines are scheduled, probes and restarts return.
  Nobody must switch or register anything.
- `Agent`: the reader, the processor, each task goroutine and a Stop that has begun are
  scheduled (weak fairness); reads end by their deadline and commands end. Go's
  mutex hands over to a waiter that starves, and each side contends a bounded
  number of times. Nobody must signal. Time is not measured: `StopCompletes` says that
  Stop ends, not that it does so before the service manager loses patience.
- `IptablesUpdate`, `MetricsReport`: none; they have no liveness property.

## Proofs

All are of the form `Spec => []Inv`, `Spec => [][A]_vars` or `Spec => Abstract!Spec`, for
every value of the
constants that the named assumptions in the modules allow; the assumptions say only
that "none" values are not members of the sets they stand beside, that bounds are
natural numbers, that a managed rule is not somebody else's, and which goroutines
there are. Bounds can be as large as one likes, so the theorems do not depend on
them. Every safety property that a passing run checks has a theorem.

- **`ConnectionProofs`**: `TypeCorrect`, `WakeupNeverLost`, `ConnectionNeverLeaked`,
  `StopIsClean`, and under the timing assumption `ErrorsHitOnlyTheirOwn`. The wake-up
  invariant is not inductive alone: that closing the channel strands nobody needs to
  know what Stop has done by then (`StopProgress`), and that installing a
  connection overwrites none needs to know that only the loop dials, and only
  while `conn` is nil (`LoopOwnsDialling`).
- **`TaskLifecycleProofs`**: `TypeCorrect`, `NoTaskIsStuck`, `AnswersAreCaused`,
  `OneExecutionPerMessage`, `CompletedStays`, and `Implements`, the refinement of
  `TaskService`. An answer is justified by what a goroutine carries and by what a
  record holds, hence `OutcomesAreReal` (results and outcomes in hand were reached by
  some execution, and a COMPLETED record means one that completed) and `BegunIsBegun` (a record beyond PENDING, and a goroutine beyond
  its mark, mean that an execution began). Executions are bounded by counting, in
  `TaskService`: those begun and those still owed are no more than the deliveries. The
  refinement has one lemma per concrete action, which says to which abstract step, or
  stutter, it maps; the counts change as the set of committed goroutines does. That a
  settled task stays settled under the steps of others, and settles with the last write
  of its result, are lemmas of their own (`SettledKept`, `ResultSettles`).
- **`ProxyLifecycleProofs`**: `TypeCorrect`, `NoStrayProcesses`, `RegisteredIsStarted`, and
  `Implements`, the refinement of `ProxyService`. One
  process at most is a consequence of who works on an egress and how far he is: the
  invariant says that an egress that is not spoiled has one owner at most
  (`OwnerOK`), what is up at each of the owner's places in Stop and Start (`InWork`),
  and that what is up while nobody owns it is what the manager has registered
  (`AtRest`). It rests on pids, in files and in hands, being of that egress
  (`PidsOK`). Steps on one egress leave the others alone (`OthersKeep`), so each action
  has only its own egress to look after. The refinement needs nothing beyond this
  invariant: `InWork` says that nothing runs where `Spawn` starts a process, `PlansOK` and
  `OwnerOK` that it is started with the configuration the abstract step names
  (`ToStart`, `ThreadIs`), and that one process at most is up (`OneIsUp`) makes its end
  the abstract `End`.
- **`IptablesUpdateProofs`**: `TypeCorrect`, `SuccessLeavesServersRules`,
  `OthersAreSpared`, `RollbackIsComplete`, `NoTableIsMixed`. Between loading one table and the next
  the kernel is a mixture, so the invariant says what is committed and what the
  file still holds (`ApplyIsExact`, `FileKeepsOthers`), what the backup would bring
  back (`BackupKeepsOthers`), and how far the way back has got, with what may stand in
  the tables that were not there before (`WayBack`). That
  no table is mixed follows from all that is ever loaded being whole
  (`SourcesAreWhole`): the backup because it was read from the kernel, the file because
  it drops every managed rule before it adds its own.
- **`MonitorPolicyProofs`**: `TypeCorrect`, `LimitKept`, `CooldownHolds`,
  `NeverGivenUpLightly`, `HistoryIsEnough`, `LocksAreReturned`, `WedgeIsFinal`. The code counts what the history holds, the property what
  happened: what the cut has dropped is an hour older than the latest restart
  (`DroppedIsOld`), since a history that is cut holds at least as many as the limit.
  While a restart runs there is room for one more (`RoomForOne`), because nothing else
  adds to a state's history. That the limit is exact, neither too mild nor too strict,
  needs that a history which has dropped anything is full of records no older than
  what it dropped (`NewestKept`). That only the wedge blocks needs that CanRestart's
  lock is the only one held from step to step (`ReadersInv`); `WedgeIsFinal` is why the
  exception of `ChecksEnd` cannot be made smaller: no step leads out of it.
- **`AgentProofs`**: `TypeCorrect`, `OrderKept`, `StopOrderly`, `AckedInForce`, and
  `Implements`, the refinement of `MessageService`. Order is an
  invariant of the buffer together with the message in hand (`QueueInv`): all that
  was taken up is older than all that waits. That an acknowledgement holds needs to
  know how far an update is (`ProcInv`: without an error, every egress visited has
  this message's configuration), that only the processor changes
  configurations and holds the lock for it (`LockInv`), and that no message in hand
  or with a task has an answer yet (`FateInv`). The refinement adds that a message is
  handled as its kind says (`HandInv`), that no two goroutines run the same task
  (`TasksApart`), so that a task's end takes it out of the abstract set, and that an
  update configures no egress but those its message names (`EachAsked`).
- **`MetricsReportProofs`**: `TypeCorrect`, `NothingCountedTwice`, `SpeedIsTrue`. The last one
  needs that the counter has grown by exactly what flowed since the sample, and that
  what flowed is below the modulus.

Only model-checked: liveness (`ReconnectsForGood`, `StopReturns`, `RunningEnds`,
`ChecksEnd`, `AcceptedIsSettled`, `StopCompletes`), since neither fairness nor ENABLED is
within the prover's reach. Facts by induction over data and about RECURSIVE
operators are out of its reach too; the models need none.

## Findings

- Check and mark of a task are apart: a duplicate runs it twice (`task_handler.go:256`).
- A duplicate of a running task is answered COMPLETED (`client.go:602`).
- An exited proxy is a zombie and passes for running (`shadowsocks.go:333`).
- A failed firewall update whose rollback succeeds leaves the rules it has put in a table
  that it made: the backup has only the tables that existed (`iptables/manager.go:536`).
  That part of an update stays when the rollback itself fails is no surprise, but is in
  the model too.

Not findings, since no document says otherwise, but worth a maintainer's look: senders
write to one connection from several goroutines (`client.go:904`, a step of
`Connection` whose properties hold in spite of it); after one failed or refused
restart no later check tries again (`monitor.go:422`); EnableProxy or DisableProxy at the
wrong moment blocks the monitor for ever (`monitor.go:117`), although only their documentation
offers EnableProxyMonitor and DisableProxyMonitor so far and nothing in the program calls
them; rules for a table that the generated file never has, security, are dropped while
the update counts as a success (`templates.go:146`).

## Not modelled

- Sizes and encoding of messages, and the acknowledgements of heartbeats; what a task's
  command does.
- The metrics that are readings of the host and keep no state: load, memory, disk,
  connections, top destinations. The monitor's statistics and summaries.
- Contents of proxy configurations, beyond the fields whose absence panics; ports;
  whether a pid is given to another process while a pid file still names it.
- Chains, texts and order of firewall rules; `rules.v4`, which is written and never
  read; management switched off (`iptables/manager.go:99`), when an update of the rules is
  acknowledged with success and changes nothing. In `Agent` the rules acknowledged are in
  force in the sense of what the manager accepted: what it dropped or skipped with success
  is not told apart.
- Construction in `main` and NewService (flags, files, logger, public address), and
  loading, validating and defaulting the rest of the configuration: sequential, once,
  before anything runs.
- Trojan and Snell (refused by `getProxyInstance`, same shape as Shadowsocks);
  BaseProxy (unused); logging; scripts and packaging.

## What could be added

- An abstract specification of `Connection` (one session at a time, a lost one sought
  again until Stop) and of `IptablesUpdate` (all, none or a named part of an update),
  with their refinements. What they would say is proved as invariants now.
- Ports and pids that are used again, which would let a proxy fail or be killed on
  behalf of another one.
- Firewall chains and the order of rules within a chain.
- `Agent` against `Connection` in one module: which answers are lost to which failure. Both
  sides are there, but the product is beyond TLC for more than one message.
