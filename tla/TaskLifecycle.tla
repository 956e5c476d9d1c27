--------------------------- MODULE TaskLifecycle ---------------------------
(***************************************************************************)
(* Tasks: how a TASK message becomes an execution, a record and an answer  *)
(* (pkg/websocket/client.go handleTaskMessage, executeTask; pkg/websocket/ *)
(* task_handler.go).                                                       *)
(*                                                                         *)
(* messageProcessLoop handles one message after the other and starts a     *)
(* goroutine per task to execute.  The record table is shared and every    *)
(* critical section of TaskManager.mu is one step, so a check and the      *)
(* update it leads to are two.  Reading Status and Result through the      *)
(* pointer GetTask returns is one step with the lookup: the table changes  *)
(* in between only by steps that may as well come before or after.         *)
(* RetryCount, timestamps and outputs steer nothing and are left out; of   *)
(* CompletedAt only "unset", "set" and "more than 24 hours ago" matter.    *)
(***************************************************************************)
EXTENDS Naturals, FiniteSets

CONSTANTS
    Task, NoTask,   \* task identifiers, and none
    Worker,         \* slots for executeTask goroutines
    MaxDeliveries,  \* bound: how often the server sends one task
    MaxRestarts,    \* bound: how often the agent process is restarted
    MaxCancels      \* bound: how often CancelTask is called

ASSUME TaskAssumption == NoTask \notin Task
ASSUME WorkerAssumption == IsFiniteSet(Worker)
ASSUME BoundsAssumption ==
    MaxDeliveries \in Nat /\ MaxRestarts \in Nat /\ MaxCancels \in Nat

VARIABLES
    table,      \* TaskManager.tasks
    creating,   \* messageProcessLoop is about to create this task's record
    worker,     \* the executeTask goroutines
    cancelling, \* a CancelTask call is between its check and its update of this task
    sweeps,     \* CleanupOldTasks goroutines not yet through
    deliveries, \* how often each task has been received
    restarts, cancels,      \* used up of the bounds
    runs,       \* ghost: executions of each task that began, in any process
    ended,      \* ghost: the outcomes executions of each task came to
    answers     \* ghost: the statuses the server has been told for each task

ghosts == <<runs, ended, answers>>
bounds == <<deliveries, restarts, cancels>>
vars == <<table, creating, worker, cancelling, sweeps, bounds, ghosts>>

----------------------------------------------------------------------------
Statuses == {"PENDING", "RUNNING", "COMPLETED", "FAILED", "CANCELLED"}
\* What a task's handler returns: a result with a status, or an error.  A health
\* check that finds something ill returns a FAILED result and no error.
Outcomes == {"COMPLETED", "FAILED", "error"}
nil == "nil"
Records == [status : Statuses \cup {"absent"}, completedAt : {"unset", "set", "old"},
            result : {nil, "COMPLETED", "FAILED"}]
Absent == [status |-> "absent", completedAt |-> "unset", result |-> nil]
New == [Absent EXCEPT !.status = "PENDING"]

\* check, create, mark: HandleTask before the task runs; run: inside its handler;
\* store, result: recording the outcome; answer: back in executeTask.
Workers == [at : {"idle", "check", "create", "mark", "run", "store", "result", "answer"},
            task : Task \cup {NoTask}, outcome : Outcomes \cup {"RUNNING", nil}]
Idle == [at |-> "idle", task |-> NoTask, outcome |-> nil]
Job(l, k, o) == [at |-> l, task |-> k, outcome |-> o]

\* Types; and a goroutine that works on something has a task to work on.
TypeOK ==
    /\ table \in [Task -> Records]
    /\ creating \in Task \cup {NoTask} /\ cancelling \in Task \cup {NoTask}
    /\ worker \in [Worker -> Workers]
    /\ \A w \in Worker : worker[w].at # "idle" => worker[w].task \in Task
    /\ \A w \in Worker : worker[w].at \in {"store", "result"} => worker[w].outcome \in Outcomes
    /\ sweeps \in Nat
    /\ deliveries \in [Task -> Nat] /\ restarts \in Nat /\ cancels \in Nat
    /\ runs \in [Task -> Nat]
    /\ ended \in [Task -> SUBSET Outcomes]
    /\ answers \in [Task -> SUBSET {"RUNNING", "COMPLETED", "FAILED"}]

Init ==
    /\ table = [k \in Task |-> Absent]
    /\ creating = NoTask /\ cancelling = NoTask
    /\ worker = [w \in Worker |-> Idle]
    /\ sweeps = 0
    /\ deliveries = [k \in Task |-> 0] /\ restarts = 0 /\ cancels = 0
    /\ runs = [k \in Task |-> 0]
    /\ ended = [k \in Task |-> {}] /\ answers = [k \in Task |-> {}]

----------------------------------------------------------------------------
(* TaskManager, one critical section each.                                 *)

Exists(k) == table[k].status # "absent"

CreateTask(k) == table' = [table EXCEPT ![k] = New]

\* CompletedAt is set by the final statuses and never cleared.
UpdateTaskStatus(k, s) ==
    IF Exists(k)
    THEN table' = [table EXCEPT ![k] =
            [status |-> s, result |-> @.result,
             completedAt |-> IF s = "RUNNING" THEN @.completedAt ELSE "set"]]
    ELSE UNCHANGED table

SetTaskResult(k, r) ==
    IF Exists(k)
    THEN table' = [table EXCEPT ![k] =
            [status |-> IF r = nil THEN @.status ELSE r, result |-> r,
             completedAt |-> @.completedAt]]
    ELSE UNCHANGED table

----------------------------------------------------------------------------
(* CheckTaskStatus, for the process loop and for HandleTask.               *)

\* Mutant: only RUNNING and CANCELLED are refused.
ShouldExecuteCompleted(k) == table[k].status \in {"PENDING", "FAILED", "COMPLETED"}

ShouldExecute(k) == table[k].status \in {"PENDING", "FAILED"}
Answerable(k) == Exists(k) /\ ~ShouldExecute(k)
\* Mutant: a task without a result is answered as failed.
ExistingElseFailed(k) ==
    IF table[k].status = "COMPLETED" /\ table[k].result # nil
    THEN table[k].result ELSE "FAILED"

\* The status of the result a task that is not to be executed is answered with.
Existing(k) ==
    IF table[k].status = "COMPLETED" /\ table[k].result # nil
    THEN table[k].result ELSE "RUNNING"

Answer(k, s) == answers' = [answers EXCEPT ![k] = @ \cup {s}]

\* go executeTask(...)
Spawn(k) ==
    \E w \in Worker :
        worker[w] = Idle /\ worker' = [worker EXCEPT ![w] = Job("check", k, nil)]

\* handleTaskMessage: a message for k leaves the buffer.
Receive(k) ==
    /\ creating = NoTask /\ deliveries[k] < MaxDeliveries
    /\ deliveries' = [deliveries EXCEPT ![k] = @ + 1]
    /\ \/ ~Exists(k) /\ creating' = k /\ UNCHANGED <<worker, answers>>
       \/ ShouldExecute(k) /\ Spawn(k) /\ UNCHANGED <<creating, answers>>
       \/ Answerable(k) /\ Answer(k, Existing(k)) /\ UNCHANGED <<creating, worker>>
    /\ UNCHANGED <<table, cancelling, sweeps, restarts, cancels, runs, ended>>

\* Mutant: the goroutine sees the loop's variable after the loop has moved on.
ReceiveNewCaptured ==
    /\ creating # NoTask
    /\ CreateTask(creating)
    /\ Spawn(NoTask)
    /\ creating' = NoTask
    /\ UNCHANGED <<cancelling, sweeps, bounds, ghosts>>

ReceiveNew ==
    /\ creating # NoTask
    /\ CreateTask(creating)
    /\ Spawn(creating)
    /\ creating' = NoTask
    /\ UNCHANGED <<cancelling, sweeps, bounds, ghosts>>

----------------------------------------------------------------------------
(* executeTask and HandleTask.                                             *)

At(w, l) == worker[w].at = l
Become(w, job) == worker' = [worker EXCEPT ![w] = job]

Check(w) ==
    /\ At(w, "check")
    /\ LET k == worker[w].task IN
       \/ ~Exists(k) /\ Become(w, Job("create", k, nil))
       \/ ShouldExecute(k) /\ Become(w, Job("mark", k, nil))
       \/ Answerable(k) /\ Become(w, Job("answer", k, Existing(k)))
    /\ UNCHANGED <<table, creating, cancelling, sweeps, bounds, ghosts>>

Create(w) ==
    /\ At(w, "create")
    /\ CreateTask(worker[w].task)
    /\ Become(w, Job("mark", worker[w].task, nil))
    /\ UNCHANGED <<creating, cancelling, sweeps, bounds, ghosts>>

Mark(w) ==
    /\ At(w, "mark")
    /\ LET k == worker[w].task IN
       /\ UpdateTaskStatus(k, "RUNNING")
       /\ Become(w, Job("run", k, nil))
       /\ runs' = [runs EXCEPT ![k] = @ + 1]
    /\ UNCHANGED <<creating, cancelling, sweeps, bounds, ended, answers>>

\* The handler of the task's type returns.
Run(w) ==
    /\ At(w, "run")
    /\ \E o \in Outcomes :
       LET k == worker[w].task IN
       /\ Become(w, Job("store", k, o))
       /\ ended' = [ended EXCEPT ![k] = @ \cup {o}]
    /\ UNCHANGED <<table, creating, cancelling, sweeps, bounds, runs, answers>>

\* Mutant: an error leaves the status alone.
StoreResultsOnly(w) ==
    /\ At(w, "store")
    /\ IF worker[w].outcome = "error" THEN UNCHANGED table
       ELSE UpdateTaskStatus(worker[w].task, worker[w].outcome)
    /\ Become(w, Job("result", worker[w].task, worker[w].outcome))
    /\ UNCHANGED <<creating, cancelling, sweeps, bounds, ghosts>>

Store(w) ==
    /\ At(w, "store")
    /\ UpdateTaskStatus(worker[w].task,
           IF worker[w].outcome = "error" THEN "FAILED" ELSE worker[w].outcome)
    /\ Become(w, Job("result", worker[w].task, worker[w].outcome))
    /\ UNCHANGED <<creating, cancelling, sweeps, bounds, ghosts>>

\* Then HandleTask starts a cleanup and returns.
Result(w) ==
    /\ At(w, "result")
    /\ SetTaskResult(worker[w].task,
           IF worker[w].outcome = "error" THEN nil ELSE worker[w].outcome)
    /\ Become(w, Job("answer", worker[w].task, worker[w].outcome))
    /\ sweeps' = sweeps + 1
    /\ UNCHANGED <<creating, cancelling, bounds, ghosts>>

\* Mutant: the agent retries a task that returned an error.
ReplyOrRetry(w) ==
    /\ At(w, "answer")
    /\ Become(w, IF worker[w].outcome = "error" THEN Job("check", worker[w].task, nil) ELSE Idle)
    /\ Answer(worker[w].task, IF worker[w].outcome = "error" THEN "FAILED" ELSE "COMPLETED")
    /\ UNCHANGED <<table, creating, cancelling, sweeps, bounds, runs, ended>>

\* executeTask answers FAILED for an error and COMPLETED for anything else,
\* whatever status the result has.  Without a connection the answer is dropped.
Reply(w) ==
    /\ At(w, "answer")
    /\ \/ Answer(worker[w].task,
                 IF worker[w].outcome = "error" THEN "FAILED" ELSE "COMPLETED")
       \/ UNCHANGED answers
    /\ Become(w, Idle)
    /\ UNCHANGED <<table, creating, cancelling, sweeps, bounds, runs, ended>>

----------------------------------------------------------------------------
(* CleanupOldTasks, CancelTask, time and restarts.                         *)

Age(k) ==
    /\ table[k].completedAt = "set"
    /\ table' = [table EXCEPT ![k].completedAt = "old"]
    /\ UNCHANGED <<creating, worker, cancelling, sweeps, bounds, ghosts>>

\* It goes by CompletedAt alone.
CleanupOldTasks ==
    /\ sweeps > 0
    /\ sweeps' = sweeps - 1
    /\ table' = [k \in Task |-> IF table[k].completedAt = "old" THEN Absent ELSE table[k]]
    /\ UNCHANGED <<creating, worker, cancelling, bounds, ghosts>>

CancelCheck(k) ==
    /\ cancelling = NoTask /\ cancels < MaxCancels
    /\ table[k].status = "RUNNING"
    /\ cancelling' = k
    /\ cancels' = cancels + 1
    /\ UNCHANGED <<table, creating, worker, sweeps, deliveries, restarts, ghosts>>

CancelUpdate ==
    /\ cancelling # NoTask
    /\ UpdateTaskStatus(cancelling, "CANCELLED")
    /\ cancelling' = NoTask
    /\ UNCHANGED <<creating, worker, sweeps, bounds, ghosts>>

\* The process ends, in a restart-agent task or otherwise, and systemd starts a
\* new one: NewTaskManager's table is empty.
Restart ==
    /\ restarts < MaxRestarts
    /\ restarts' = restarts + 1
    /\ table' = [k \in Task |-> Absent]
    /\ creating' = NoTask /\ cancelling' = NoTask /\ sweeps' = 0
    /\ worker' = [w \in Worker |-> Idle]
    /\ UNCHANGED <<deliveries, cancels, ghosts>>

----------------------------------------------------------------------------
WorkerStep(w) == \/ Check(w) \/ Create(w) \/ Mark(w) \/ Run(w)
                 \/ Store(w) \/ Result(w) \/ Reply(w)

\* The server sends nothing more and everything received has been dealt with.
Quiet == /\ creating = NoTask
         /\ \A w \in Worker : worker[w] = Idle
         /\ \A k \in Task : deliveries[k] = MaxDeliveries
Done == Quiet /\ UNCHANGED vars

Next ==
    \/ \E k \in Task : Receive(k) \/ Age(k) \/ CancelCheck(k)
    \/ ReceiveNew \/ CancelUpdate \/ CleanupOldTasks \/ Restart
    \/ \E w \in Worker : WorkerStep(w)
    \/ Done

Spec == Init /\ [][Next]_vars

\* Goroutines are scheduled and task handlers return.
FairSpec == Spec /\ \A w \in Worker : WF_vars(WorkerStep(w))

----------------------------------------------------------------------------
(* What the code keeps.                                                    *)

Running(k) == {w \in Worker : worker[w].task = k /\ At(w, "run")}
Storing(k) == {w \in Worker : worker[w].task = k /\ At(w, "store")}
\* Goroutines past the check whose execution of k is still to begin.
Committed(k) == {w \in Worker : worker[w].task = k /\ worker[w].at \in {"check", "create", "mark"}}

\* Goroutines that may still write the record of k.
InFlight(k) ==
    {w \in Worker : worker[w].task = k
                    /\ worker[w].at \in {"create", "mark", "run", "store", "result"}}

\* No task is stuck: a RUNNING record, which makes CheckTaskStatus refuse every
\* redelivery, has a goroutine that will still move it to a final status, whatever
\* duplicates, cleanups and cancellations did to the record meanwhile.
RunningHasRunner ==
    \A k \in Task : table[k].status = "RUNNING" => Running(k) \cup Storing(k) # {}

\* One message leads to one execution at most: retries come from the server only.
OneRunPerDelivery ==
    \A k \in Task :
        runs[k] + Cardinality(Committed(k)) + (IF creating = k THEN 1 ELSE 0) <= deliveries[k]

\* TaskLifecycle implements TaskService: a message is owed an execution from the
\* moment a goroutine or a record is about to be made for it until Mark, and no
\* duplicate, cleanup, cancellation or restart begins one that is not owed, or one of
\* a task that has settled: its record is COMPLETED and nothing in flight will change it.
Owed == [k \in Task |-> Cardinality(Committed(k)) + (IF creating = k THEN 1 ELSE 0)]
Live == [k \in Task |-> Cardinality(Running(k))]
Settled == {k \in Task : table[k].status = "COMPLETED" /\ InFlight(k) = {}
                         /\ creating # k /\ cancelling # k}
Service == INSTANCE TaskService WITH
               received <- deliveries, owed <- Owed, begun <- runs, live <- Live,
               settled <- Settled
ImplementsService == Service!Spec

\* The server is told FAILED only when an execution failed, and told of success
\* only when an execution had at least begun.
AnswersHaveACause ==
    \A k \in Task :
        /\ "FAILED" \in answers[k] => ended[k] \cap {"FAILED", "error"} # {}
        /\ "COMPLETED" \in answers[k] => runs[k] > 0

\* A completed task stays completed once nothing else for it is in flight: however
\* often it is redelivered, it is not executed again while its record lives.
CompletedIsFinal ==
    [][\A k \in Settled : table'[k].status \in {"COMPLETED", "absent"} /\ InFlight(k)' = {}]_vars

\* Every execution ends in a final status or loses its record (FairSpec).
RunningEnds == \A k \in Task : table[k].status = "RUNNING" ~> table[k].status # "RUNNING"

----------------------------------------------------------------------------
(* What the code does not keep (checked in runs that expect a violation).  *)

\* "Task is currently running, don't execute again" (task_handler.go:207).
NeverTwiceAtOnce == \A k \in Task : Cardinality(Running(k)) <= 1

\* "For running tasks, return a running status result" (task_handler.go:247): the
\* server is not told of success before any execution has ended.
SuccessIsNotEarly ==
    \A k \in Task : "COMPLETED" \in answers[k] => ended[k] # {}
============================================================================
