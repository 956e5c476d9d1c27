----------------------- MODULE TaskLifecycleProofs -----------------------
(***************************************************************************)
(* Safety of TaskLifecycle for any number of tasks, goroutines, duplicate  *)
(* deliveries, cancellations and restarts.                                 *)
(***************************************************************************)
EXTENDS TaskLifecycle, FiniteSetTheorems, TLAPS

\* Nothing claims an outcome that no execution came to.
OutcomesAreReal ==
    /\ \A k \in Task : table[k].result # nil => table[k].result \in ended[k]
    /\ \A k \in Task : table[k].status = "COMPLETED" => "COMPLETED" \in ended[k]
    /\ \A w \in Worker :
          /\ At(w, "store") \/ At(w, "result") => worker[w].outcome \in ended[worker[w].task]
          /\ At(w, "answer") /\ worker[w].outcome \in Outcomes
                => worker[w].outcome \in ended[worker[w].task]

\* A task that got past PENDING was begun, in this process.
BegunIsBegun ==
    /\ \A k \in Task : table[k].status \notin {"absent", "PENDING"} => runs[k] > 0
    /\ \A w \in Worker : worker[w].at \in {"run", "store", "result", "answer"}
                            => runs[worker[w].task] > 0
    /\ cancelling # NoTask => runs[cancelling] > 0

IInv == TypeOK /\ RunningHasRunner /\ OutcomesAreReal /\ BegunIsBegun /\ AnswersHaveACause

USE DEF vars, bounds, ghosts, nil, Statuses, Outcomes, Records, Workers, Absent, New, Idle, Job,
        At, Become, Answer, CreateTask, Spawn

\* The invariants hold in a fresh process.
LEMMA InitHolds == Init => IInv
  BY TaskAssumption, BoundsAssumption
  DEF Init, IInv, TypeOK, RunningHasRunner, OutcomesAreReal, BegunIsBegun, AnswersHaveACause

\* What UpdateTaskStatus does to the table, and leaves alone.
LEMMA UpdateEffect ==
    ASSUME table \in [Task -> Records], NEW k \in Task, NEW s \in Statuses, UpdateTaskStatus(k, s)
    PROVE  /\ table' \in [Task -> Records]
           /\ \A j \in Task : table'[j].result = table[j].result
           /\ \A j \in Task \ {k} : table'[j] = table[j]
           /\ table'[k].status = IF Exists(k) THEN s ELSE "absent"
<1>1. CASE Exists(k)
  <2> DEFINE c == IF s = "RUNNING" THEN table[k].completedAt ELSE "set"
  <2>1. table' = [table EXCEPT ![k] = [status |-> s, completedAt |-> c, result |-> table[k].result]]
    BY <1>1 DEF UpdateTaskStatus
  <2>2. c \in {"unset", "set", "old"}
    OBVIOUS
  <2> HIDE DEF c
  <2> QED
    BY <1>1, <2>1, <2>2
<1>2. CASE ~Exists(k)
  BY <1>2 DEF UpdateTaskStatus, Exists
<1> QED
  BY <1>1, <1>2

\* What SetTaskResult does to the table, and leaves alone.
LEMMA ResultEffect ==
    ASSUME table \in [Task -> Records], NEW k \in Task, NEW r \in {nil, "COMPLETED", "FAILED"},
           SetTaskResult(k, r)
    PROVE  /\ table' \in [Task -> Records]
           /\ \A j \in Task \ {k} : table'[j] = table[j]
           /\ table'[k].result \in {table[k].result, r}
           /\ table'[k].status \in {table[k].status} \cup (IF Exists(k) THEN {r} \ {nil} ELSE {})
<1>1. CASE Exists(k)
  <2>1. table' = [table EXCEPT ![k] = [status |-> IF r = nil THEN table[k].status ELSE r,
                                      completedAt |-> table[k].completedAt, result |-> r]]
    BY <1>1 DEF SetTaskResult
  <2> QED
    BY <1>1, <2>1
<1>2. CASE ~Exists(k)
  BY <1>2 DEF SetTaskResult
<1> QED
  BY <1>1, <1>2

\* The answer CheckTaskStatus gives for a task that is not to be executed.
LEMMA ExistingType ==
    ASSUME TypeOK, NEW k \in Task
    PROVE  /\ Existing(k) \in {"RUNNING", "COMPLETED", "FAILED"}
           /\ Existing(k) # "RUNNING" => Existing(k) = table[k].result
  BY DEF Existing, TypeOK

\* Types, step by step.
LEMMA TypeNext == TypeOK /\ [Next]_vars => TypeOK'
<1> SUFFICES ASSUME TypeOK, [Next]_vars PROVE TypeOK'
    OBVIOUS
<1> USE TaskAssumption, BoundsAssumption DEF TypeOK
<1>1. ASSUME NEW k \in Task, Receive(k) PROVE TypeOK'
  <2>1. CASE UNCHANGED <<worker, answers>> /\ creating' = k
    BY <1>1, <2>1 DEF Receive
  <2>2. CASE Spawn(k) /\ UNCHANGED <<creating, answers>>
    BY <1>1, <2>2 DEF Receive
  <2>3. CASE Answer(k, Existing(k)) /\ UNCHANGED <<creating, worker>>
    BY <1>1, <2>3, ExistingType DEF Receive
  <2> QED
    BY <1>1, <2>1, <2>2, <2>3 DEF Receive
<1>2. CASE ReceiveNew
  BY <1>2 DEF ReceiveNew
<1>3. ASSUME NEW w \in Worker, Check(w) PROVE TypeOK'
  <2> DEFINE k == worker[w].task
  <2>1. k \in Task
    BY <1>3 DEF Check
  <2>2. \E job \in {Job("create", k, nil), Job("mark", k, nil), Job("answer", k, Existing(k))} :
            worker' = [worker EXCEPT ![w] = job]
    BY <1>3 DEF Check
  <2>3. Existing(k) \in {"RUNNING", "COMPLETED", "FAILED"}
    BY <2>1, ExistingType
  <2> QED
    BY <1>3, <2>1, <2>2, <2>3 DEF Check
<1>4. ASSUME NEW w \in Worker, Create(w) PROVE TypeOK'
  BY <1>4 DEF Create
<1>5. ASSUME NEW w \in Worker, Mark(w) PROVE TypeOK'
  BY <1>5, UpdateEffect DEF Mark
<1>6. ASSUME NEW w \in Worker, Run(w) PROVE TypeOK'
  BY <1>6 DEF Run
<1>7. ASSUME NEW w \in Worker, Store(w) PROVE TypeOK'
  <2> DEFINE s == IF worker[w].outcome = "error" THEN "FAILED" ELSE worker[w].outcome
  <2>1. worker[w].task \in Task /\ worker[w].outcome \in Outcomes /\ s \in Statuses
    BY <1>7 DEF Store
  <2>2. table' \in [Task -> Records]
    <3>1. UpdateTaskStatus(worker[w].task, s)
      BY <1>7 DEF Store
    <3> HIDE DEF s
    <3> QED
      BY <2>1, <3>1, UpdateEffect
  <2>3. worker' = [worker EXCEPT ![w] = Job("result", worker[w].task, worker[w].outcome)]
    BY <1>7 DEF Store
  <2> QED
    BY <1>7, <2>1, <2>2, <2>3 DEF Store
<1>8. ASSUME NEW w \in Worker, Result(w) PROVE TypeOK'
  <2> DEFINE r == IF worker[w].outcome = "error" THEN nil ELSE worker[w].outcome
  <2>1. worker[w].task \in Task /\ worker[w].outcome \in Outcomes /\ r \in {nil, "COMPLETED", "FAILED"}
    BY <1>8 DEF Result
  <2>2. table' \in [Task -> Records]
    <3>1. SetTaskResult(worker[w].task, r)
      BY <1>8 DEF Result
    <3> HIDE DEF r
    <3> QED
      BY <2>1, <3>1, ResultEffect
  <2>3. worker' = [worker EXCEPT ![w] = Job("answer", worker[w].task, worker[w].outcome)]
    BY <1>8 DEF Result
  <2> QED
    BY <1>8, <2>1, <2>2, <2>3 DEF Result
<1>9. ASSUME NEW w \in Worker, Reply(w) PROVE TypeOK'
  BY <1>9 DEF Reply
<1>10. ASSUME NEW k \in Task, Age(k) \/ CancelCheck(k) PROVE TypeOK'
  BY <1>10 DEF Age, CancelCheck
<1>11. CASE CleanupOldTasks
  BY <1>11 DEF CleanupOldTasks
<1>12. CASE CancelUpdate
  BY <1>12, UpdateEffect DEF CancelUpdate
<1>13. CASE Restart
  BY <1>13 DEF Restart
<1>14. CASE UNCHANGED vars
  BY <1>14
<1> QED
  BY <1>1, <1>2, <1>3, <1>4, <1>5, <1>6, <1>7, <1>8, <1>9, <1>10, <1>11, <1>12, <1>13, <1>14
  DEF Next, WorkerStep, Done

----------------------------------------------------------------------------
\* Steps that leave the table alone, and the steps of goroutines that are not
\* between Mark and Store, keep a RUNNING record's runner.
LEMMA RunnerNext == TypeOK /\ RunningHasRunner /\ [Next]_vars => RunningHasRunner'
<1> SUFFICES ASSUME TypeOK, RunningHasRunner, [Next]_vars,
                    NEW k \in Task, table'[k].status = "RUNNING"
             PROVE  (Running(k) \cup Storing(k))' # {}
    BY DEF RunningHasRunner
<1>a. TypeOK'
  BY TypeNext
<1> USE TaskAssumption DEF Running, Storing
<1>1. ASSUME table[k].status = "RUNNING",
             \A w \in Worker : At(w, "run") \/ At(w, "store") => worker'[w] = worker[w]
      PROVE  (Running(k) \cup Storing(k))' # {}
  BY <1>1 DEF RunningHasRunner
<1>2. ASSUME NEW j \in Task, Receive(j) PROVE (Running(k) \cup Storing(k))' # {}
  <2>1. UNCHANGED table
    BY <1>2 DEF Receive
  <2>2. \A w \in Worker : At(w, "run") \/ At(w, "store") => worker'[w] = worker[w]
    BY <1>2 DEF Receive, TypeOK
  <2> QED
    BY <1>1, <2>1, <2>2
<1>3. CASE ReceiveNew
  BY <1>1, <1>3 DEF ReceiveNew, TypeOK
<1>4. ASSUME NEW w \in Worker, Check(w) PROVE (Running(k) \cup Storing(k))' # {}
  BY <1>1, <1>4 DEF Check, TypeOK
<1>5. ASSUME NEW w \in Worker, Create(w) PROVE (Running(k) \cup Storing(k))' # {}
  BY <1>1, <1>5 DEF Create, TypeOK
<1>6. ASSUME NEW w \in Worker, Mark(w) PROVE (Running(k) \cup Storing(k))' # {}
  <2> DEFINE j == worker[w].task
  <2>1. j \in Task /\ worker' = [worker EXCEPT ![w] = Job("run", j, nil)] /\ UpdateTaskStatus(j, "RUNNING")
    BY <1>6 DEF Mark, TypeOK
  <2>2. CASE k = j
    BY <2>1, <2>2 DEF TypeOK
  <2>3. CASE k # j
    <3>1. table'[k] = table[k]
      BY <2>1, <2>3, UpdateEffect DEF TypeOK
    <3> QED
      BY <1>1, <1>6, <2>1, <3>1 DEF TypeOK, Mark
  <2> QED
    BY <2>2, <2>3
<1>7. ASSUME NEW w \in Worker, Run(w) PROVE (Running(k) \cup Storing(k))' # {}
  <2>1. PICK o \in Outcomes : worker' = [worker EXCEPT ![w] = Job("store", worker[w].task, o)]
    BY <1>7 DEF Run
  <2>2. PICK v \in Worker : worker[v].task = k /\ (At(v, "run") \/ At(v, "store"))
    BY <1>7 DEF Run, RunningHasRunner
  <2> QED
    BY <2>1, <2>2 DEF TypeOK
<1>8. ASSUME NEW w \in Worker, Store(w) PROVE (Running(k) \cup Storing(k))' # {}
  <2> DEFINE j == worker[w].task
             s == IF worker[w].outcome = "error" THEN "FAILED" ELSE worker[w].outcome
  <2>1. j \in Task /\ UpdateTaskStatus(j, s) /\ s \in Statuses /\ s # "RUNNING"
        /\ worker' = [worker EXCEPT ![w] = Job("result", j, worker[w].outcome)]
    BY <1>8 DEF Store, TypeOK
  <2> HIDE DEF s
  <2>2. table'[j].status # "RUNNING"
    BY <2>1, UpdateEffect DEF TypeOK
  <2>3. k # j /\ table'[k] = table[k]
    BY <2>1, <2>2, UpdateEffect DEF TypeOK
  <2>4. PICK v \in Worker : worker[v].task = k /\ (At(v, "run") \/ At(v, "store"))
    BY <2>3 DEF RunningHasRunner
  <2> QED
    BY <2>1, <2>3, <2>4 DEF TypeOK
<1>9. ASSUME NEW w \in Worker, Result(w) PROVE (Running(k) \cup Storing(k))' # {}
  <2> DEFINE j == worker[w].task
             r == IF worker[w].outcome = "error" THEN nil ELSE worker[w].outcome
  <2>1. j \in Task /\ SetTaskResult(j, r) /\ r \in {nil, "COMPLETED", "FAILED"}
        /\ worker' = [worker EXCEPT ![w] = Job("answer", j, worker[w].outcome)]
    BY <1>9 DEF Result, TypeOK
  <2> HIDE DEF r
  <2>2. table[k].status = "RUNNING"
    BY <2>1, ResultEffect DEF TypeOK
  <2> QED
    BY <1>1, <1>9, <2>1, <2>2 DEF Result, TypeOK
<1>10. ASSUME NEW w \in Worker, Reply(w) PROVE (Running(k) \cup Storing(k))' # {}
  BY <1>1, <1>10 DEF Reply, TypeOK
<1>11. ASSUME NEW j \in Task, Age(j) \/ CancelCheck(j) PROVE (Running(k) \cup Storing(k))' # {}
  BY <1>1, <1>11 DEF Age, CancelCheck, TypeOK
<1>12. CASE CleanupOldTasks
  BY <1>1, <1>12 DEF CleanupOldTasks
<1>13. CASE CancelUpdate
  <2>1. cancelling \in Task /\ UpdateTaskStatus(cancelling, "CANCELLED")
    BY <1>13 DEF CancelUpdate, TypeOK
  <2>2. table[k].status = "RUNNING"
    BY <2>1, UpdateEffect DEF TypeOK
  <2> QED
    BY <1>1, <1>13, <2>2 DEF CancelUpdate
<1>14. CASE Restart
  BY <1>14 DEF Restart
<1>15. CASE UNCHANGED vars
  BY <1>1, <1>15
<1> QED
  BY <1>2, <1>3, <1>4, <1>5, <1>6, <1>7, <1>8, <1>9, <1>10, <1>11, <1>12, <1>13, <1>14, <1>15
  DEF Next, WorkerStep, Done

----------------------------------------------------------------------------
\* Outcomes claimed are outcomes that happened.
LEMMA RealNext ==
    TypeOK /\ OutcomesAreReal /\ BegunIsBegun /\ AnswersHaveACause /\ [Next]_vars
        => (OutcomesAreReal /\ BegunIsBegun /\ AnswersHaveACause)'
<1> DEFINE Real == OutcomesAreReal /\ BegunIsBegun /\ AnswersHaveACause
<1> SUFFICES ASSUME TypeOK, Real, [Next]_vars PROVE Real'
    OBVIOUS
<1>a. TypeOK'
  BY TypeNext
<1> USE TaskAssumption DEF TypeOK, OutcomesAreReal, BegunIsBegun, AnswersHaveACause
<1>1. ASSUME NEW k \in Task, Receive(k) PROVE Real'
  <2>1. UNCHANGED <<table, cancelling, runs, ended>>
    BY <1>1 DEF Receive
  <2>2. CASE UNCHANGED <<worker, answers>>
    BY <2>1, <2>2
  <2>3. CASE Spawn(k) /\ UNCHANGED answers
    BY <2>1, <2>3
  <2>4. CASE Answerable(k) /\ Answer(k, Existing(k)) /\ UNCHANGED worker
    <3>1. Existing(k) = "FAILED" => "FAILED" \in ended[k]
      BY ExistingType
    <3>2. runs[k] > 0
      BY <2>4 DEF Answerable, ShouldExecute, Exists
    <3>3. Existing(k) \in {"RUNNING", "COMPLETED", "FAILED"}
      BY ExistingType
    <3> QED
      BY <2>1, <2>4, <3>1, <3>2, <3>3
  <2> QED
    BY <1>1, <2>2, <2>3, <2>4 DEF Receive
<1>2. CASE ReceiveNew
  BY <1>2 DEF ReceiveNew
<1>3. ASSUME NEW w \in Worker, Check(w) PROVE Real'
  <2> DEFINE k == worker[w].task
  <2>1. k \in Task /\ UNCHANGED <<table, cancelling, runs, ended, answers>>
    BY <1>3 DEF Check
  <2>2. CASE Become(w, Job("create", k, nil)) \/ Become(w, Job("mark", k, nil))
    <3>1. \A v \in Worker : v # w => worker'[v] = worker[v]
      BY <2>2
    <3>2. worker'[w].at \in {"create", "mark"}
      BY <2>2
    <3> QED
      BY <2>1, <3>1, <3>2
  <2>3. CASE Answerable(k) /\ Become(w, Job("answer", k, Existing(k)))
    <3>1. Existing(k) \in Outcomes => Existing(k) \in ended[k]
      BY <2>1, ExistingType
    <3>2. runs[k] > 0
      BY <2>1, <2>3 DEF Answerable, ShouldExecute, Exists
    <3> QED
      BY <2>1, <2>3, <3>1, <3>2
  <2> QED
    BY <1>3, <2>2, <2>3 DEF Check
<1>4. ASSUME NEW w \in Worker, Create(w) PROVE Real'
  BY <1>4 DEF Create
<1>5. ASSUME NEW w \in Worker, Mark(w) PROVE Real'
  <2> DEFINE k == worker[w].task
  <2>1. k \in Task /\ worker' = [worker EXCEPT ![w] = Job("run", k, nil)]
        /\ runs' = [runs EXCEPT ![k] = @ + 1] /\ UNCHANGED <<cancelling, ended, answers>>
        /\ UpdateTaskStatus(k, "RUNNING")
    BY <1>5 DEF Mark
  <2>2. /\ \A j \in Task : table'[j].result = table[j].result /\ (j # k => table'[j] = table[j])
        /\ table'[k].status # "COMPLETED"
    BY <2>1, UpdateEffect
  <2> QED
    BY <2>1, <2>2
<1>6. ASSUME NEW w \in Worker, Run(w) PROVE Real'
  <2>1. PICK o \in Outcomes : /\ worker' = [worker EXCEPT ![w] = Job("store", worker[w].task, o)]
                              /\ ended' = [ended EXCEPT ![worker[w].task] = @ \cup {o}]
    BY <1>6 DEF Run
  <2>2. UNCHANGED <<table, cancelling, runs, answers>> /\ worker[w].task \in Task /\ At(w, "run")
    BY <1>6 DEF Run
  <2> QED
    BY <2>1, <2>2
<1>7. ASSUME NEW w \in Worker, Store(w) PROVE Real'
  <2> DEFINE k == worker[w].task
             s == IF worker[w].outcome = "error" THEN "FAILED" ELSE worker[w].outcome
  <2>1. k \in Task /\ worker' = [worker EXCEPT ![w] = Job("result", k, worker[w].outcome)]
        /\ UpdateTaskStatus(k, s) /\ s \in Statuses /\ UNCHANGED <<cancelling, runs, ended, answers>>
        /\ runs[k] > 0 /\ worker[w].outcome \in ended[k]
        /\ (s = "COMPLETED" => "COMPLETED" \in ended[k])
    BY <1>7 DEF Store
  <2> HIDE DEF s
  <2>2. /\ \A j \in Task : table'[j].result = table[j].result /\ (j # k => table'[j] = table[j])
        /\ table'[k].status \in {s, "absent"}
    BY <2>1, UpdateEffect
  <2>3. OutcomesAreReal'
    <3>1. \A j \in Task : /\ table'[j].result # nil => table'[j].result \in ended'[j]
                          /\ table'[j].status = "COMPLETED" => "COMPLETED" \in ended'[j]
      BY <2>1, <2>2
    <3> QED
      BY <2>1, <3>1
  <2>4. BegunIsBegun'
    BY <2>1, <2>2
  <2>5. AnswersHaveACause'
    BY <2>1
  <2> QED
    BY <2>3, <2>4, <2>5
<1>8. ASSUME NEW w \in Worker, Result(w) PROVE Real'
  <2> DEFINE k == worker[w].task
             r == IF worker[w].outcome = "error" THEN nil ELSE worker[w].outcome
  <2>1. k \in Task /\ worker' = [worker EXCEPT ![w] = Job("answer", k, worker[w].outcome)]
        /\ SetTaskResult(k, r) /\ r \in {nil, "COMPLETED", "FAILED"}
        /\ UNCHANGED <<cancelling, runs, ended, answers>>
        /\ runs[k] > 0 /\ worker[w].outcome \in ended[k] /\ (r # nil => r \in ended[k])
    BY <1>8 DEF Result
  <2> HIDE DEF r
  <2>2. /\ table'[k].result \in {table[k].result, r} /\ \A j \in Task \ {k} : table'[j] = table[j]
        /\ table'[k].status \in {table[k].status} \cup ({r} \ {nil})
    BY <2>1, ResultEffect
  <2>3. \A v \in Worker : v # w => worker'[v] = worker[v]
    BY <2>1
  <2>4. worker'[w] = Job("answer", k, worker[w].outcome)
    BY <2>1
  <2>5. OutcomesAreReal'
    <3>1. \A j \in Task : /\ table'[j].result # nil => table'[j].result \in ended'[j]
                          /\ table'[j].status = "COMPLETED" => "COMPLETED" \in ended'[j]
      BY <2>1, <2>2
    <3> QED
      BY <2>1, <2>3, <2>4, <3>1
  <2>6. BegunIsBegun'
    BY <2>1, <2>2, <2>3, <2>4
  <2>7. AnswersHaveACause'
    BY <2>1
  <2> QED
    BY <2>5, <2>6, <2>7
<1>9. ASSUME NEW w \in Worker, Reply(w) PROVE Real'
  <2> DEFINE k == worker[w].task
             a == IF worker[w].outcome = "error" THEN "FAILED" ELSE "COMPLETED"
  <2>1. k \in Task /\ worker' = [worker EXCEPT ![w] = Idle]
        /\ UNCHANGED <<table, cancelling, runs, ended>> /\ runs[k] > 0
        /\ (a = "FAILED" => "error" \in ended[k])
    BY <1>9 DEF Reply
  <2>2. CASE UNCHANGED answers
    BY <2>1, <2>2
  <2>3. CASE Answer(k, a)
    BY <2>1, <2>3
  <2> QED
    BY <1>9, <2>2, <2>3 DEF Reply
<1>10. ASSUME NEW k \in Task, Age(k) PROVE Real'
  <2>1. \A j \in Task : table'[j].status = table[j].status /\ table'[j].result = table[j].result
    BY <1>10 DEF Age
  <2> QED
    BY <1>10, <2>1 DEF Age
<1>11. ASSUME NEW k \in Task, CancelCheck(k) PROVE Real'
  BY <1>11 DEF CancelCheck
<1>12. CASE CleanupOldTasks
  BY <1>12 DEF CleanupOldTasks
<1>13. CASE CancelUpdate
  <2>1. cancelling \in Task /\ UpdateTaskStatus(cancelling, "CANCELLED") /\ runs[cancelling] > 0
        /\ cancelling' = NoTask /\ UNCHANGED <<worker, runs, ended, answers>>
    BY <1>13 DEF CancelUpdate
  <2>2. /\ \A j \in Task : table'[j].result = table[j].result /\ (j # cancelling => table'[j] = table[j])
        /\ table'[cancelling].status # "COMPLETED"
    BY <2>1, UpdateEffect
  <2> QED
    BY <2>1, <2>2
<1>14. CASE Restart
  BY <1>14 DEF Restart
<1>15. CASE UNCHANGED vars
  BY <1>15
<1> QED
  BY <1>1, <1>2, <1>3, <1>4, <1>5, <1>6, <1>7, <1>8, <1>9, <1>10, <1>11, <1>12, <1>13, <1>14, <1>15
  DEF Next, WorkerStep, Done

----------------------------------------------------------------------------
(* TaskLifecycle implements TaskService.  The two counters of the mapping  *)
(* are cardinalities of sets of goroutines, which a step changes by one    *)
(* goroutine at most.                                                      *)

Owes(job, k) == job.task = k /\ job.at \in {"check", "create", "mark"}
Executes(job, k) == job.task = k /\ job.at = "run"

LEMMA CountsAreNumbers ==
    \A k \in Task : Cardinality(Committed(k)) \in Nat /\ Cardinality(Running(k)) \in Nat
<1> TAKE k \in Task
<1>1. Committed(k) \in SUBSET Worker /\ Running(k) \in SUBSET Worker
  BY DEF Committed, Running
<1> QED
  BY <1>1, WorkerAssumption, FS_Subset, FS_CardinalityType

\* The counters when one goroutine's job changes.
LEMMA JobChange ==
    ASSUME TypeOK, NEW w \in Worker, NEW job \in Workers, worker' = [worker EXCEPT ![w] = job],
           NEW k \in Task
    PROVE  /\ Cardinality(Committed(k)') = Cardinality(Committed(k))
                  + (IF Owes(job, k) THEN 1 ELSE 0) - (IF Owes(worker[w], k) THEN 1 ELSE 0)
           /\ Cardinality(Running(k)') = Cardinality(Running(k))
                  + (IF Executes(job, k) THEN 1 ELSE 0) - (IF Executes(worker[w], k) THEN 1 ELSE 0)
<1> DEFINE C == Committed(k)
           R == Running(k)
<1>1. IsFiniteSet(C) /\ IsFiniteSet(R)
  <2>1. C \in SUBSET Worker /\ R \in SUBSET Worker
    BY DEF Committed, Running
  <2> QED
    BY <2>1, WorkerAssumption, FS_Subset
<1>2. (w \in C <=> Owes(worker[w], k)) /\ (w \in R <=> Executes(worker[w], k))
  BY DEF Committed, Running, Owes, Executes
<1>3. Committed(k)' = IF Owes(job, k) THEN C \cup {w} ELSE C \ {w}
  BY DEF TypeOK, Committed, Owes
<1>4. Running(k)' = IF Executes(job, k) THEN R \cup {w} ELSE R \ {w}
  BY DEF TypeOK, Running, Executes
<1> HIDE DEF C, R
<1>5. /\ Cardinality(C \cup {w}) = IF w \in C THEN Cardinality(C) ELSE Cardinality(C) + 1
      /\ Cardinality(C \ {w}) = IF w \in C THEN Cardinality(C) - 1 ELSE Cardinality(C)
      /\ Cardinality(C) \in Nat
  BY <1>1, FS_AddElement, FS_RemoveElement, FS_CardinalityType
<1>6. /\ Cardinality(R \cup {w}) = IF w \in R THEN Cardinality(R) ELSE Cardinality(R) + 1
      /\ Cardinality(R \ {w}) = IF w \in R THEN Cardinality(R) - 1 ELSE Cardinality(R)
      /\ Cardinality(R) \in Nat
  BY <1>1, FS_AddElement, FS_RemoveElement, FS_CardinalityType
<1>7. Cardinality(Committed(k)') = Cardinality(C)
          + (IF Owes(job, k) THEN 1 ELSE 0) - (IF Owes(worker[w], k) THEN 1 ELSE 0)
  BY <1>2, <1>3, <1>5
<1>8. Cardinality(Running(k)') = Cardinality(R)
          + (IF Executes(job, k) THEN 1 ELSE 0) - (IF Executes(worker[w], k) THEN 1 ELSE 0)
  BY <1>2, <1>4, <1>6
<1> QED
  BY <1>7, <1>8 DEF C, R

\* Whether a task is settled, where at most one goroutine's job changes.
Busy == {"create", "mark", "run", "store", "result"}
Writes(job, k) == job.at \in Busy /\ job.task = k

LEMMA SettledSame ==
    ASSUME NEW k \in Task, table'[k].status = table[k].status,
           creating' = k <=> creating = k, cancelling' = k <=> cancelling = k,
           \/ UNCHANGED worker
           \/ /\ worker \in [Worker -> Workers]
              /\ \E w \in Worker, job \in Workers :
                    Become(w, job) /\ (Writes(job, k) <=> Writes(worker[w], k))
    PROVE  k \in Settled' <=> k \in Settled
<1>1. InFlight(k)' = InFlight(k)
  BY DEF InFlight, Writes, Busy
<1> QED
  BY <1>1 DEF Settled

\* No step settles a task but that of the goroutine whose result it was, and none
\* unsettles one but a cleanup or the end of the process.
LEMMA SettledKept ==
    ASSUME TypeOK, [Next]_vars, UNCHANGED <<sweeps, restarts>>
    PROVE  Settled' = Settled
<1> SUFFICES ASSUME NEW k \in Task PROVE k \in Settled' <=> k \in Settled
  BY DEF Settled
<1> USE TaskAssumption
<1>1. ASSUME table[k].status # "COMPLETED", table'[k].status # "COMPLETED"
      PROVE  k \in Settled' <=> k \in Settled
  BY <1>1 DEF Settled
<1>2. ASSUME NEW w \in Worker, Writes(worker[w], k), NEW job, Become(w, job), Writes(job, k)
      PROVE  k \in Settled' <=> k \in Settled
  <2>1. w \in InFlight(k) /\ w \in InFlight(k)'
    BY <1>2 DEF InFlight, Writes, Busy, TypeOK
  <2> QED
    BY <2>1 DEF Settled
<1>3. ASSUME NEW w \in Worker, NEW job \in Workers, Become(w, job),
             worker[w].at \in Busy, job.at \in Busy, job.task = worker[w].task,
             worker[w].task # k => table'[k] = table[k],
             UNCHANGED <<creating, cancelling>>
      PROVE  k \in Settled' <=> k \in Settled
  <2>1. CASE worker[w].task = k
    BY <1>2, <1>3, <2>1 DEF Writes
  <2>2. CASE worker[w].task # k
    <3>1. table'[k].status = table[k].status /\ ~Writes(worker[w], k) /\ ~Writes(job, k)
      BY <1>3, <2>2 DEF Writes
    <3> QED
      BY <1>3, <3>1, SettledSame DEF TypeOK
  <2> QED
    BY <2>1, <2>2
<1>4. ASSUME NEW j \in Task, Receive(j) PROVE k \in Settled' <=> k \in Settled
  <2>1. table' = table /\ creating = NoTask /\ UNCHANGED cancelling
    BY <1>4 DEF Receive
  <2>2. CASE ~Exists(j) /\ creating' = j /\ UNCHANGED worker
    BY <1>1, <2>1, <2>2, SettledSame DEF Exists
  <2>3. CASE Spawn(j) /\ UNCHANGED creating
    <3>1. PICK w \in Worker : worker[w] = Idle /\ Become(w, Job("check", j, nil))
      BY <2>3
    <3>2. ~Writes(worker[w], k) /\ ~Writes(Job("check", j, nil), k) /\ Job("check", j, nil) \in Workers
      BY <3>1 DEF Writes, Busy
    <3> QED
      BY <2>1, <2>3, <3>1, <3>2, SettledSame DEF TypeOK
  <2>4. CASE UNCHANGED <<creating, worker>>
    BY <2>1, <2>4, SettledSame
  <2> QED
    BY <1>4, <2>2, <2>3, <2>4 DEF Receive
<1>5. CASE ReceiveNew
  <2>1. creating \in Task /\ creating' = NoTask /\ UNCHANGED cancelling
    BY <1>5 DEF ReceiveNew, TypeOK
  <2>2. CASE creating = k
    <3>1. table'[k].status = "PENDING"
      BY <1>5, <2>2 DEF ReceiveNew, TypeOK
    <3> QED
      BY <2>2, <3>1 DEF Settled
  <2>3. CASE creating # k
    <3>1. PICK w \in Worker : worker[w] = Idle /\ Become(w, Job("check", creating, nil))
      BY <1>5 DEF ReceiveNew
    <3>2. ~Writes(worker[w], k) /\ ~Writes(Job("check", creating, nil), k)
          /\ Job("check", creating, nil) \in Workers
      BY <2>1, <3>1 DEF Writes, Busy
    <3>3. table'[k] = table[k]
      BY <1>5, <2>3 DEF ReceiveNew, TypeOK
    <3> QED
      BY <2>1, <2>3, <3>1, <3>2, <3>3, SettledSame DEF TypeOK
  <2> QED
    BY <2>2, <2>3
<1>6. ASSUME NEW w \in Worker, Check(w) PROVE k \in Settled' <=> k \in Settled
  <2> DEFINE j == worker[w].task
  <2>1. j \in Task /\ table' = table /\ UNCHANGED <<creating, cancelling>> /\ ~Writes(worker[w], k)
    BY <1>6 DEF Check, TypeOK, Writes, Busy
  <2>2. CASE Become(w, Job("answer", j, Existing(j)))
    <3> DEFINE job == Job("answer", j, Existing(j))
    <3>1. job \in Workers /\ ~Writes(job, k)
      BY <2>1, ExistingType DEF Writes, Busy
    <3> HIDE DEF job
    <3> QED
      BY <2>1, <2>2, <3>1, SettledSame DEF TypeOK, job
  <2>3. ASSUME NEW l \in {"create", "mark"}, Become(w, Job(l, j, nil)), ~Answerable(j)
        PROVE  k \in Settled' <=> k \in Settled
    <3>1. CASE j = k
      BY <1>1, <2>1, <2>3, <3>1 DEF Answerable, ShouldExecute, Exists
    <3>2. CASE j # k
      <4>1. ~Writes(Job(l, j, nil), k) /\ Job(l, j, nil) \in Workers
        BY <2>1, <3>2 DEF Writes
      <4> QED
        BY <2>1, <2>3, <4>1, SettledSame DEF TypeOK
    <3> QED
      BY <3>1, <3>2
  <2> QED
    BY <1>6, <2>2, <2>3 DEF Check, Answerable
<1>7. ASSUME NEW w \in Worker, Create(w) PROVE k \in Settled' <=> k \in Settled
  <2> DEFINE job == Job("mark", worker[w].task, nil)
  <2>1. /\ job \in Workers /\ Become(w, job) /\ worker[w].at \in Busy /\ job.at \in Busy
        /\ job.task = worker[w].task /\ UNCHANGED <<creating, cancelling>>
        /\ worker[w].task # k => table'[k] = table[k]
    BY <1>7 DEF Create, TypeOK, Busy
  <2> HIDE DEF job
  <2> QED
    BY <1>3, <2>1
<1>8. ASSUME NEW w \in Worker, Mark(w) PROVE k \in Settled' <=> k \in Settled
  <2> DEFINE job == Job("run", worker[w].task, nil)
  <2>1. /\ job \in Workers /\ Become(w, job) /\ worker[w].at \in Busy /\ job.at \in Busy
        /\ job.task = worker[w].task /\ UNCHANGED <<creating, cancelling>>
        /\ worker[w].task \in Task /\ UpdateTaskStatus(worker[w].task, "RUNNING")
    BY <1>8 DEF Mark, TypeOK, Busy
  <2>2. worker[w].task # k => table'[k] = table[k]
    BY <2>1, UpdateEffect DEF TypeOK
  <2> HIDE DEF job
  <2> QED
    BY <1>3, <2>1, <2>2
<1>9. ASSUME NEW w \in Worker, Run(w) PROVE k \in Settled' <=> k \in Settled
  <2>1. PICK o \in Outcomes : Become(w, Job("store", worker[w].task, o))
    BY <1>9 DEF Run
  <2> DEFINE job == Job("store", worker[w].task, o)
  <2>2. /\ job \in Workers /\ Become(w, job) /\ worker[w].at \in Busy /\ job.at \in Busy
        /\ job.task = worker[w].task /\ UNCHANGED <<creating, cancelling>>
        /\ worker[w].task # k => table'[k] = table[k]
    BY <1>9, <2>1 DEF Run, TypeOK, Busy
  <2> HIDE DEF job
  <2> QED
    BY <1>3, <2>2
<1>10. ASSUME NEW w \in Worker, Store(w) PROVE k \in Settled' <=> k \in Settled
  <2> DEFINE s == IF worker[w].outcome = "error" THEN "FAILED" ELSE worker[w].outcome
             job == Job("result", worker[w].task, worker[w].outcome)
  <2>1. /\ job \in Workers /\ Become(w, job) /\ worker[w].at \in Busy /\ job.at \in Busy
        /\ job.task = worker[w].task /\ UNCHANGED <<creating, cancelling>>
        /\ worker[w].task \in Task /\ s \in Statuses /\ UpdateTaskStatus(worker[w].task, s)
    BY <1>10 DEF Store, TypeOK, Busy
  <2> HIDE DEF s, job
  <2>2. worker[w].task # k => table'[k] = table[k]
    BY <2>1, UpdateEffect DEF TypeOK
  <2> QED
    BY <1>3, <2>1, <2>2
<1>11. ASSUME NEW w \in Worker, Reply(w) PROVE k \in Settled' <=> k \in Settled
  <2>1. Become(w, Idle) /\ Idle \in Workers /\ UNCHANGED <<table, creating, cancelling>>
        /\ ~Writes(worker[w], k) /\ ~Writes(Idle, k)
    BY <1>11 DEF Reply, Writes, Busy
  <2> QED
    BY <2>1, SettledSame DEF TypeOK
<1>12. ASSUME NEW j \in Task, Age(j) PROVE k \in Settled' <=> k \in Settled
  <2>1. table'[k].status = table[k].status
    BY <1>12 DEF Age, TypeOK
  <2> QED
    BY <1>12, <2>1, SettledSame DEF Age
<1>13. ASSUME NEW j \in Task, CancelCheck(j) PROVE k \in Settled' <=> k \in Settled
  BY <1>1, <1>13, SettledSame DEF CancelCheck
<1>14. CASE CancelUpdate
  <2>1. cancelling \in Task /\ cancelling' = NoTask /\ UNCHANGED <<creating, worker>>
        /\ UpdateTaskStatus(cancelling, "CANCELLED")
    BY <1>14 DEF CancelUpdate, TypeOK
  <2>2. CASE cancelling = k
    <3>1. table'[k].status # "COMPLETED"
      BY <2>1, <2>2, UpdateEffect DEF TypeOK
    <3> QED
      BY <2>2, <3>1 DEF Settled
  <2>3. CASE cancelling # k
    <3>1. table'[k] = table[k]
      BY <2>1, <2>3, UpdateEffect DEF TypeOK
    <3> QED
      BY <2>1, <2>3, <3>1, SettledSame
  <2> QED
    BY <2>2, <2>3
<1>15. ~CleanupOldTasks /\ ~Restart /\ \A w \in Worker : ~Result(w)
  BY DEF TypeOK, CleanupOldTasks, Restart, Result
<1>16. CASE UNCHANGED vars
  BY <1>16, SettledSame
<1> QED
  BY <1>4, <1>5, <1>6, <1>7, <1>8, <1>9, <1>10, <1>11, <1>12, <1>13, <1>14, <1>15, <1>16
  DEF Next, WorkerStep, Done

\* A step that leaves the goroutines and the task being received alone.
LEMMA QuietStep ==
    UNCHANGED <<worker, creating, deliveries, runs, ended, answers, Settled>> => UNCHANGED Service!vars
  BY DEF Service!vars, Owed, Live, Committed, Running

One(b) == IF b THEN 1 ELSE 0

LEMMA CountersType ==
    /\ Owed \in [Task -> Nat] /\ Live \in [Task -> Nat]
    /\ Owed' = [k \in Task |-> Owed'[k]] /\ Live' = [k \in Task |-> Live'[k]]
  BY CountsAreNumbers DEF Owed, Live

\* The counters of the mapping when one goroutine's job changes.
Recount(w, job, k) ==
    /\ Owed'[k] = Owed[k] + One(Owes(job, k)) - One(Owes(worker[w], k))
                          + One(creating' = k) - One(creating = k)
    /\ Live'[k] = Live[k] + One(Executes(job, k)) - One(Executes(worker[w], k))

LEMMA Counters ==
    ASSUME TypeOK, NEW w \in Worker, NEW job \in Workers, worker' = [worker EXCEPT ![w] = job],
           NEW k \in Task
    PROVE  Recount(w, job, k)
<1>1. /\ Cardinality(Committed(k)') = Cardinality(Committed(k))
                + (IF Owes(job, k) THEN 1 ELSE 0) - (IF Owes(worker[w], k) THEN 1 ELSE 0)
      /\ Cardinality(Running(k)') = Cardinality(Running(k))
                + (IF Executes(job, k) THEN 1 ELSE 0) - (IF Executes(worker[w], k) THEN 1 ELSE 0)
  BY JobChange
<1>2. /\ Owed[k] = Cardinality(Committed(k)) + One(creating = k)
      /\ Owed'[k] = Cardinality(Committed(k)') + One(creating' = k)
      /\ Live[k] = Cardinality(Running(k))
      /\ Live'[k] = Cardinality(Running(k)')
  BY DEF Owed, Live, One
<1> QED
  BY <1>1, <1>2, CountsAreNumbers DEF One, Recount

\* A counter that goes up, or down, by one for one task.
LEMMA OneUp ==
    ASSUME NEW f \in [Task -> Nat], NEW g, g = [j \in Task |-> g[j]], NEW k \in Task,
           \A j \in Task : g[j] = IF j = k THEN f[j] + 1 ELSE f[j]
    PROVE  g = [f EXCEPT ![k] = @ + 1]
  OBVIOUS

LEMMA OneDown ==
    ASSUME NEW f \in [Task -> Nat], NEW g, g = [j \in Task |-> g[j]], NEW k \in Task,
           \A j \in Task : g[j] = IF j = k THEN f[j] - 1 ELSE f[j]
    PROVE  g = [f EXCEPT ![k] = @ - 1]
  OBVIOUS

LEMMA Unmoved ==
    ASSUME NEW f \in [Task -> Nat], NEW g, g = [j \in Task |-> g[j]], \A j \in Task : g[j] = f[j]
    PROVE  g = f
  OBVIOUS

\* A goroutine that owes or executes something is counted.
LEMMA Counted ==
    ASSUME NEW w \in Worker, NEW k \in Task
    PROVE  /\ Owes(worker[w], k) => Owed[k] > 0
           /\ Executes(worker[w], k) => Live[k] > 0
<1>1. /\ Committed(k) \in SUBSET Worker /\ (Owes(worker[w], k) => w \in Committed(k))
      /\ Running(k) \in SUBSET Worker /\ (Executes(worker[w], k) => w \in Running(k))
  BY DEF Committed, Running, Owes, Executes
<1>2. /\ Owes(worker[w], k) => Cardinality(Committed(k)) # 0
      /\ Executes(worker[w], k) => Cardinality(Running(k)) # 0
  BY <1>1, WorkerAssumption, FS_Subset, FS_EmptySet
<1> QED
  BY <1>2, CountsAreNumbers DEF Owed, Live

\* What the server may be told has its cause in the abstract state, too.
LEMMA TellSimulates ==
    ASSUME NEW k \in Task, NEW s \in {"RUNNING", "COMPLETED", "FAILED"}, Answer(k, s),
           s # "FAILED" => runs[k] > 0,
           s = "FAILED" => ended[k] \cap {"FAILED", "error"} # {}
    PROVE  Service!Tell(k)
  BY DEF Service!Tell, Service!Caused

LEMMA ReceiveSimulates ==
    ASSUME IInv, NEW k \in Task, Receive(k)
    PROVE  Service!Receive(k)
<1>0. TypeOK /\ OutcomesAreReal /\ BegunIsBegun
  BY DEF IInv
<1> USE TaskAssumption, <1>0
<1>1. deliveries' = [deliveries EXCEPT ![k] = @ + 1] /\ UNCHANGED <<runs, ended>> /\ creating = NoTask
  BY DEF Receive
<1>s. Settled' = Settled
  BY SettledKept DEF Receive, Next
<1>2. CASE ~Exists(k) /\ creating' = k /\ UNCHANGED <<worker, answers>>
  <2>1. Live' = Live /\ k \notin Settled
    BY <1>2 DEF Live, Running, Exists, Settled
  <2>2. \A j \in Task : Committed(j)' = Committed(j)
    BY <1>2 DEF Committed
  <2>3. \A j \in Task : Owed'[j] = IF j = k THEN Owed[j] + 1 ELSE Owed[j]
    BY <1>1, <1>2, <2>2, CountsAreNumbers DEF Owed
  <2>4. Owed' = [Owed EXCEPT ![k] = @ + 1]
    BY <2>3, CountersType, OneUp
  <2> QED
    BY <1>1, <1>s, <1>2, <2>1, <2>4 DEF Service!Receive
<1>3. CASE ShouldExecute(k) /\ Spawn(k) /\ UNCHANGED <<creating, answers>>
  <2> DEFINE job == Job("check", k, nil)
  <2>1. PICK w \in Worker : worker[w] = Idle /\ worker' = [worker EXCEPT ![w] = job]
    BY <1>3
  <2>2. job \in Workers
    OBVIOUS
  <2>3. \A j \in Task : /\ ~Owes(worker[w], j) /\ ~Executes(worker[w], j)
                        /\ Owes(job, j) <=> j = k
                        /\ ~Executes(job, j)
    BY <2>1 DEF Owes, Executes
  <2> HIDE DEF job
  <2>a. \A j \in Task : Recount(w, job, j)
    BY <2>1, <2>2, Counters
  <2>4. \A j \in Task : /\ Owed'[j] = IF j = k THEN Owed[j] + 1 ELSE Owed[j]
                        /\ Live'[j] = Live[j]
    BY <1>3, <2>1, <2>2, <2>3, <2>a, CountersType DEF One, Recount
  <2>5. Owed' = [Owed EXCEPT ![k] = @ + 1] /\ Live' = Live
    BY <2>4, CountersType, OneUp, Unmoved
  <2>6. k \notin Settled
    BY <1>3 DEF ShouldExecute, Settled
  <2> QED
    BY <1>1, <1>s, <1>3, <2>5, <2>6 DEF Service!Receive
<1>4. CASE Answerable(k) /\ Answer(k, Existing(k)) /\ UNCHANGED <<creating, worker>>
  <2>1. Owed' = Owed /\ Live' = Live
    BY <1>4 DEF Owed, Live, Committed, Running
  <2>2. Existing(k) \in {"RUNNING", "COMPLETED", "FAILED"}
        /\ (Existing(k) = "FAILED" => "FAILED" \in ended[k])
    BY ExistingType DEF OutcomesAreReal
  <2>3. runs[k] > 0
    BY <1>4 DEF Answerable, ShouldExecute, Exists, BegunIsBegun
  <2>4. Service!Tell(k)
    BY <1>4, <2>2, <2>3, TellSimulates
  <2> QED
    BY <1>1, <1>s, <2>1, <2>4 DEF Service!Receive
<1> QED
  BY <1>2, <1>3, <1>4 DEF Receive

\* The last of a task's goroutines to record its result settles the task, if it completed.
LEMMA ResultSettles ==
    ASSUME IInv, NEW w \in Worker, Result(w), NEW k \in Task, k = worker[w].task,
           Owed' = Owed, Live' = Live
    PROVE  Settled' = Settled \/ Service!Settle(k)
<1> DEFINE r == IF worker[w].outcome = "error" THEN nil ELSE worker[w].outcome
           job == Job("answer", k, worker[w].outcome)
<1>0. TypeOK /\ OutcomesAreReal /\ BegunIsBegun /\ AnswersHaveACause
  BY DEF IInv
<1>1. /\ job \in Workers /\ Become(w, job) /\ SetTaskResult(k, r)
      /\ r \in {nil, "COMPLETED", "FAILED"} /\ worker[w].at = "result" /\ job.at = "answer"
      /\ UNCHANGED <<creating, cancelling, deliveries, runs, ended, answers>>
  BY <1>0 DEF Result, TypeOK
<1> HIDE DEF r, job
<1>2. \A j \in Task \ {k} : j \in Settled' <=> j \in Settled
  <2> TAKE j \in Task \ {k}
  <2>1. table'[j] = table[j] /\ ~Writes(worker[w], j) /\ ~Writes(job, j)
    BY <1>0, <1>1, ResultEffect DEF TypeOK, Writes, Busy
  <2> QED
    BY <1>0, <1>1, <2>1, SettledSame DEF TypeOK
<1>3. w \in InFlight(k)
  BY <1>1 DEF InFlight
<1>4. k \notin Settled /\ Settled \in SUBSET Task /\ Settled' \in SUBSET Task
  BY <1>3 DEF Settled
<1>5. CASE k \notin Settled'
  BY <1>2, <1>4, <1>5
<1>6. CASE k \in Settled'
  <2>1. Settled' = Settled \cup {k}
    BY <1>2, <1>4, <1>6
  <2>2. table'[k].status = "COMPLETED" /\ InFlight(k)' = {}
    BY <1>6 DEF Settled
  <2>3. OutcomesAreReal'
    BY <1>0, RealNext DEF Next, WorkerStep
  <2>4. "COMPLETED" \in ended[k]
    BY <1>1, <2>2, <2>3 DEF OutcomesAreReal
  <2>5. Running(k)' = {}
    BY <2>2 DEF Running, InFlight
  <2>6. Live'[k] = Cardinality(Running(k)')
    BY DEF Live
  <2>7. Live[k] = 0
    BY <2>5, <2>6, FS_EmptySet
  <2> QED
    BY <1>1, <2>1, <2>4, <2>7 DEF Service!Settle
<1> QED
  BY <1>5, <1>6

LEMMA WorkerSimulates ==
    ASSUME IInv, NEW w \in Worker, WorkerStep(w)
    PROVE  [Service!Next]_Service!vars
<1> DEFINE k == worker[w].task
           Same == Owed' = Owed /\ Live' = Live
<1>0. TypeOK /\ OutcomesAreReal /\ BegunIsBegun
  BY DEF IInv
<1> USE TaskAssumption, <1>0 DEF Service!vars
<1>1. k \in Task /\ UNCHANGED <<creating, deliveries>>
  BY DEF TypeOK, WorkerStep, Check, Create, Mark, Run, Store, Result, Reply
<1>s. Result(w) \/ Settled' = Settled
  <2>1. Result(w) \/ UNCHANGED <<sweeps, restarts>>
    BY DEF WorkerStep, Check, Create, Mark, Run, Store, Reply
  <2> QED
    BY <2>1, SettledKept DEF Next
<1>r. \A l : worker[w].at = l /\ l # "result" => Settled' = Settled
  BY <1>s DEF Result
<1>2. ASSUME NEW job \in Workers, worker' = [worker EXCEPT ![w] = job],
             \A j \in Task : (Owes(job, j) <=> Owes(worker[w], j))
                             /\ (Executes(job, j) <=> Executes(worker[w], j))
      PROVE  Same
  <2>a. \A j \in Task : Recount(w, job, j)
    BY <1>1, <1>2, Counters
  <2>1. \A j \in Task : Owed'[j] = Owed[j] /\ Live'[j] = Live[j]
    BY <1>1, <1>2, <2>a, CountersType DEF One, Recount
  <2> QED
    BY <2>1, CountersType, Unmoved
<1>3. ASSUME NEW l \in {"create", "mark"}, worker[w].at \in {"check", "create"},
             Become(w, Job(l, k, nil))
      PROVE  Same
  <2> DEFINE job == Job(l, k, nil)
  <2>1. /\ job \in Workers /\ worker' = [worker EXCEPT ![w] = job]
        /\ \A j \in Task : (Owes(job, j) <=> Owes(worker[w], j))
                           /\ (Executes(job, j) <=> Executes(worker[w], j))
    BY <1>1, <1>3 DEF Owes, Executes
  <2> HIDE DEF job
  <2> QED
    BY <1>2, <2>1
<1>4. ASSUME NEW l \in {"result", "answer"}, worker[w].at \in {"store", "result"},
             Become(w, Job(l, k, worker[w].outcome))
      PROVE  Same
  <2> DEFINE job == Job(l, k, worker[w].outcome)
  <2>1. /\ job \in Workers /\ worker' = [worker EXCEPT ![w] = job]
        /\ \A j \in Task : (Owes(job, j) <=> Owes(worker[w], j))
                           /\ (Executes(job, j) <=> Executes(worker[w], j))
    BY <1>1, <1>4 DEF TypeOK, Owes, Executes
  <2> HIDE DEF job
  <2> QED
    BY <1>2, <2>1
<1>5. CASE Check(w)
  <2>1. UNCHANGED <<runs, ended, answers, Settled>> /\ worker[w].at = "check"
    BY <1>r, <1>5 DEF Check
  <2>2. CASE Become(w, Job("create", k, nil)) \/ Become(w, Job("mark", k, nil))
    BY <1>1, <1>3, <2>1, <2>2
  <2>3. CASE Become(w, Job("answer", k, Existing(k)))
    <3> DEFINE job == Job("answer", k, Existing(k))
    <3>1. job \in Workers
      BY <1>1, ExistingType
    <3>2. \A j \in Task : /\ ~Owes(job, j) /\ ~Executes(job, j) /\ ~Executes(worker[w], j)
                          /\ Owes(worker[w], j) <=> j = k
      BY <2>1 DEF Owes, Executes
    <3>3. worker' = [worker EXCEPT ![w] = job]
      BY <2>3
    <3> HIDE DEF job
    <3>a. \A j \in Task : Recount(w, job, j)
      BY <1>1, <3>1, <3>2, <3>3, Counters
    <3>4. \A j \in Task : /\ Owed'[j] = IF j = k THEN Owed[j] - 1 ELSE Owed[j]
                          /\ Live'[j] = Live[j]
      BY <1>1, <3>1, <3>2, <3>3, <3>a, CountersType DEF One, Recount
    <3>5. Owed' = [Owed EXCEPT ![k] = @ - 1] /\ Live' = Live /\ Owed[k] > 0
      BY <1>1, <3>2, <3>4, CountersType, OneDown, Unmoved, Counted
    <3>6. Service!Drop(k)
      BY <1>1, <2>1, <3>5 DEF Service!Drop
    <3> QED
      BY <1>1, <3>6 DEF Service!Next
  <2> QED
    BY <1>5, <2>2, <2>3 DEF Check
<1>6. CASE Create(w)
  <2>1. Same
    BY <1>3, <1>6 DEF Create
  <2> QED
    BY <1>1, <1>r, <1>6, <2>1 DEF Create
<1>7. CASE Mark(w)
  <2> DEFINE job == Job("run", k, nil)
  <2>1. job \in Workers /\ worker' = [worker EXCEPT ![w] = job]
        /\ runs' = [runs EXCEPT ![k] = @ + 1] /\ UNCHANGED <<ended, answers>>
    BY <1>1, <1>7 DEF Mark
  <2>2. \A j \in Task : /\ ~Owes(job, j) /\ ~Executes(worker[w], j)
                        /\ Owes(worker[w], j) <=> j = k
                        /\ Executes(job, j) <=> j = k
    BY <1>7 DEF Mark, Owes, Executes
  <2> HIDE DEF job
  <2>a. \A j \in Task : Recount(w, job, j)
    BY <1>1, <2>1, <2>2, Counters
  <2>3. \A j \in Task : /\ Owed'[j] = IF j = k THEN Owed[j] - 1 ELSE Owed[j]
                        /\ Live'[j] = IF j = k THEN Live[j] + 1 ELSE Live[j]
    BY <1>1, <2>1, <2>2, <2>a, CountersType DEF One, Recount
  <2>4. /\ Owed' = [Owed EXCEPT ![k] = @ - 1] /\ Owed[k] > 0
        /\ Live' = [Live EXCEPT ![k] = @ + 1]
    BY <1>1, <2>2, <2>3, CountersType, OneDown, OneUp, Counted
  <2>5. Settled' = Settled /\ w \in InFlight(k)
    BY <1>r, <1>7 DEF Mark, InFlight
  <2>6. Service!Begin(k)
    BY <1>1, <2>1, <2>4, <2>5 DEF Service!Begin, Settled
  <2> QED
    BY <1>1, <2>6 DEF Service!Next
<1>8. CASE Run(w)
  <2>1. PICK o \in Outcomes : worker' = [worker EXCEPT ![w] = Job("store", k, o)]
                              /\ ended' = [ended EXCEPT ![k] = @ \cup {o}]
    BY <1>8 DEF Run
  <2> DEFINE job == Job("store", k, o)
  <2>2. job \in Workers /\ worker' = [worker EXCEPT ![w] = job]
        /\ UNCHANGED <<runs, answers>>
    BY <1>1, <1>8, <2>1 DEF Run
  <2>3. \A j \in Task : /\ ~Owes(job, j) /\ ~Owes(worker[w], j) /\ ~Executes(job, j)
                        /\ Executes(worker[w], j) <=> j = k
    BY <1>8 DEF Run, Owes, Executes
  <2> HIDE DEF job
  <2>a. \A j \in Task : Recount(w, job, j)
    BY <1>1, <2>2, <2>3, Counters
  <2>4. \A j \in Task : /\ Owed'[j] = Owed[j]
                        /\ Live'[j] = IF j = k THEN Live[j] - 1 ELSE Live[j]
    BY <1>1, <2>2, <2>3, <2>a, CountersType DEF One, Recount
  <2>5. Owed' = Owed /\ Live' = [Live EXCEPT ![k] = @ - 1] /\ Live[k] > 0
    BY <1>1, <2>3, <2>4, CountersType, OneDown, Unmoved, Counted
  <2>6. \E q \in Service!Outcomes : ended' = [ended EXCEPT ![k] = @ \cup {q}]
    BY <2>1 DEF Service!Outcomes
  <2>7. Service!End(k)
    BY <1>1, <1>r, <1>8, <2>2, <2>5, <2>6 DEF Run, Service!End
  <2> QED
    BY <1>1, <2>7 DEF Service!Next
<1>9. CASE Store(w)
  <2>1. Same
    BY <1>4, <1>9 DEF Store
  <2> QED
    BY <1>1, <1>r, <1>9, <2>1 DEF Store
<1>10. CASE Result(w)
  <2>1. Same
    BY <1>4, <1>10 DEF Result
  <2>2. UNCHANGED <<deliveries, runs, ended, answers>>
    BY <1>10 DEF Result
  <2>3. Settled' = Settled \/ Service!Settle(k)
    BY <1>1, <1>10, <2>1, ResultSettles
  <2> QED
    BY <1>1, <2>1, <2>2, <2>3 DEF Service!Next
<1>11. CASE Reply(w)
  <2> DEFINE a == IF worker[w].outcome = "error" THEN "FAILED" ELSE "COMPLETED"
  <2>1. Same
    <3>1. worker' = [worker EXCEPT ![w] = Idle] /\ Idle \in Workers
      BY <1>11 DEF Reply
    <3>2. \A j \in Task : /\ ~Owes(Idle, j) /\ ~Owes(worker[w], j)
                          /\ ~Executes(Idle, j) /\ ~Executes(worker[w], j)
      BY <1>11 DEF Reply, Owes, Executes
    <3> QED
      BY <1>2, <3>1, <3>2
  <2>2. UNCHANGED <<runs, ended, Settled>>
    BY <1>r, <1>11 DEF Reply
  <2>3. CASE Answer(k, a)
    <3>1. runs[k] > 0 /\ (a = "FAILED" => "error" \in ended[k])
      BY <1>1, <1>11 DEF Reply, BegunIsBegun, OutcomesAreReal
    <3>2. Service!Tell(k)
      BY <1>1, <2>3, <3>1, TellSimulates
    <3>3. Service!Report(k)
      BY <1>1, <2>1, <2>2, <3>2 DEF Service!Report
    <3> QED
      BY <1>1, <3>3 DEF Service!Next
  <2>4. CASE UNCHANGED answers
    BY <1>1, <2>1, <2>2, <2>4
  <2> QED
    BY <1>11, <2>3, <2>4 DEF Reply
<1> QED
  BY <1>5, <1>6, <1>7, <1>8, <1>9, <1>10, <1>11 DEF WorkerStep

\* Every step of the code is a step of the service or changes nothing it shows.
LEMMA StepSimulates == IInv /\ [Next]_vars => [Service!Next]_Service!vars
<1> SUFFICES ASSUME IInv, [Next]_vars PROVE [Service!Next]_Service!vars
    OBVIOUS
<1> USE TaskAssumption
<1>0. TypeOK
  BY DEF IInv
<1>1. ASSUME NEW k \in Task, Receive(k) PROVE Service!Next
  BY <1>1, ReceiveSimulates DEF Service!Next
<1>2. CASE ReceiveNew
  <2>1. creating \in Task
    BY <1>0, <1>2 DEF ReceiveNew, TypeOK
  <2> DEFINE job == Job("check", creating, nil)
  <2>2. PICK w \in Worker : worker[w] = Idle /\ worker' = [worker EXCEPT ![w] = job]
    BY <1>2 DEF ReceiveNew
  <2>3. job \in Workers /\ creating' = NoTask /\ UNCHANGED <<deliveries, runs, ended, answers>>
    BY <1>2, <2>1 DEF ReceiveNew
  <2>4. \A j \in Task : /\ ~Owes(worker[w], j) /\ ~Executes(worker[w], j)
                        /\ Owes(job, j) <=> j = creating
                        /\ ~Executes(job, j)
    BY <2>2 DEF Owes, Executes
  <2> HIDE DEF job
  <2>a. \A j \in Task : Recount(w, job, j)
    BY <1>0, <2>2, <2>3, Counters
  <2>5. \A j \in Task : Owed'[j] = Owed[j] /\ Live'[j] = Live[j]
    BY <1>0, <2>2, <2>3, <2>4, <2>a, CountersType DEF One, Recount
  <2>6. Owed' = Owed /\ Live' = Live
    BY <2>5, CountersType, Unmoved
  <2>7. Settled' = Settled
    BY <1>0, <1>2, SettledKept DEF ReceiveNew, Next
  <2> QED
    BY <2>3, <2>6, <2>7 DEF Service!vars
<1>3. ASSUME NEW w \in Worker, WorkerStep(w) PROVE [Service!Next]_Service!vars
  BY <1>3, WorkerSimulates
<1>4. ASSUME \/ \E k \in Task : Age(k) \/ CancelCheck(k)
             \/ CancelUpdate \/ UNCHANGED vars
      PROVE  UNCHANGED Service!vars
  <2>1. UNCHANGED <<worker, creating, deliveries, runs, ended, answers, sweeps, restarts>>
    BY <1>4 DEF Age, CancelCheck, CancelUpdate
  <2>2. Settled' = Settled
    BY <1>0, <2>1, SettledKept
  <2> QED
    BY <2>1, <2>2, QuietStep
<1>5. CASE CleanupOldTasks
  <2>1. UNCHANGED <<worker, creating, cancelling, deliveries, runs, ended, answers>>
    BY <1>5 DEF CleanupOldTasks
  <2>2. \A k \in Task : table'[k] = Absent \/ table'[k] = table[k]
    BY <1>5 DEF CleanupOldTasks
  <2>3. \A k \in Task : InFlight(k)' = InFlight(k)
    BY <2>1 DEF InFlight
  <2>4. Settled' \in SUBSET Settled
    BY <2>1, <2>2, <2>3 DEF Settled
  <2>5. \E S \in SUBSET Settled : Settled' = Settled \ S
    <3> WITNESS Settled \ Settled' \in SUBSET Settled
    <3> QED
      BY <2>4
  <2>6. Owed' = Owed /\ Live' = Live
    BY <2>1 DEF Owed, Live, Committed, Running
  <2>7. Service!Forget
    BY <2>1, <2>5, <2>6 DEF Service!Forget
  <2> QED
    BY <2>7 DEF Service!Next
<1>6. CASE Restart
  <2>1. \A k \in Task : Committed(k)' = {} /\ Running(k)' = {} /\ creating' # k
    BY <1>6 DEF Restart, Committed, Running
  <2>2. Owed' = [k \in Task |-> 0] /\ Live' = [k \in Task |-> 0]
    BY <2>1, FS_EmptySet DEF Owed, Live
  <2>3. Settled' = {}
    BY <1>6 DEF Restart, Settled
  <2> QED
    BY <1>6, <2>2, <2>3 DEF Restart, Service!Restart, Service!Next
<1> QED
  BY <1>1, <1>2, <1>3, <1>4, <1>5, <1>6 DEF Next, Done

\* The inductive invariant holds in every reachable state.
THEOREM Invariance == Spec => []IInv
<1>1. IInv /\ [Next]_vars => IInv'
  BY TypeNext, RunnerNext, RealNext DEF IInv
<1> QED
  BY <1>1, InitHolds, PTL DEF Spec

\* Type correctness; every goroutine at work has a task to work on.
THEOREM TypeCorrect == Spec => []TypeOK
<1>1. IInv => TypeOK
  BY DEF IInv
<1> QED
  BY <1>1, Invariance, PTL

\* No task is wedged in RUNNING (CheckTaskStatus, HandleTask).
THEOREM NoTaskIsStuck == Spec => []RunningHasRunner
<1>1. IInv => RunningHasRunner
  BY DEF IInv
<1> QED
  BY <1>1, Invariance, PTL

\* The answers the server gets have a cause in an execution (executeTask).
THEOREM AnswersAreCaused == Spec => []AnswersHaveACause
<1>1. IInv => AnswersHaveACause
  BY DEF IInv
<1> QED
  BY <1>1, Invariance, PTL

\* TaskLifecycle implements TaskService: seen from the server, the goroutines,
\* records, cleanups and cancellations of handleTaskMessage, executeTask and
\* HandleTask never begin an execution that no message is owed, nor one of a task that
\* is completed and settled, and never give an answer without a cause.
THEOREM Implements == Spec => ImplementsService
<1>1. Init => Service!Init
  <2> SUFFICES ASSUME Init PROVE Service!Init
    OBVIOUS
  <2>1. \A k \in Task : Committed(k) = {} /\ Running(k) = {} /\ creating # k
    BY TaskAssumption DEF Init, Committed, Running
  <2>2. Owed = [k \in Task |-> 0] /\ Live = [k \in Task |-> 0]
    BY <2>1, FS_EmptySet DEF Owed, Live
  <2>3. Settled = {}
    BY DEF Init, Settled
  <2> QED
    BY <2>2, <2>3 DEF Init, Service!Init
<1> QED
  BY <1>1, StepSimulates, Invariance, PTL DEF Spec, ImplementsService, Service!Spec

\* The number of messages bounds the executions begun and still owed.
LEMMA MessagesBound ==
    /\ Init => OneRunPerDelivery
    /\ IInv /\ OneRunPerDelivery /\ [Next]_vars => OneRunPerDelivery'
<1> DEFINE Bound == \A k \in Task : runs[k] + Owed[k] <= deliveries[k]
<1>1. TypeOK => (OneRunPerDelivery <=> Bound)
  BY CountsAreNumbers DEF OneRunPerDelivery, Owed, TypeOK
<1>2. TypeOK' => (OneRunPerDelivery' <=> Bound')
  BY <1>1, PTL
<1>3. Init => Bound
  <2> SUFFICES ASSUME Init PROVE Bound
    OBVIOUS
  <2>1. \A k \in Task : Committed(k) = {} /\ creating # k
    BY TaskAssumption DEF Init, Committed
  <2> QED
    BY <2>1, FS_EmptySet DEF Init, Owed
<1>4. ASSUME IInv, Bound, [Next]_vars PROVE Bound'
  <2>1. [Service!Next]_Service!vars
    BY <1>4, StepSimulates
  <2>2. /\ deliveries \in [Task -> Nat] /\ runs \in [Task -> Nat]
        /\ Owed \in [Task -> Nat] /\ Live \in [Task -> Nat]
    BY <1>4, CountersType DEF IInv, TypeOK
  <2>3. ASSUME NEW k \in Task, Service!Receive(k) PROVE Bound'
    BY <1>4, <2>2, <2>3 DEF Service!Receive
  <2>4. ASSUME NEW k \in Task, Service!Drop(k) \/ Service!Begin(k) PROVE Bound'
    BY <1>4, <2>2, <2>4 DEF Service!Drop, Service!Begin
  <2>5. CASE Service!Forget \/ \E k \in Task : Service!End(k) \/ Service!Report(k) \/ Service!Settle(k)
    BY <1>4, <2>5 DEF Service!End, Service!Report, Service!Settle, Service!Forget
  <2>6. CASE Service!Restart
    BY <1>4, <2>2, <2>6 DEF Service!Restart
  <2>7. CASE UNCHANGED Service!vars
    BY <1>4, <2>7 DEF Service!vars
  <2> QED
    BY <2>1, <2>3, <2>4, <2>5, <2>6, <2>7 DEF Service!Next
<1>5. Init => TypeOK
  BY InitHolds DEF IInv
<1>6. IInv /\ [Next]_vars => TypeOK /\ TypeOK'
  BY TypeNext DEF IInv
<1> QED
  BY <1>1, <1>2, <1>3, <1>4, <1>5, <1>6

\* One message leads to one execution at most (CheckTaskStatus, HandleTask).
THEOREM OneExecutionPerMessage == Spec => []OneRunPerDelivery
  BY MessagesBound, Invariance, PTL DEF Spec

\* A goroutine at work on another task, or one that only compares, leaves k alone.
LEMMA CompletedStep ==
    ASSUME TypeOK, [Next]_vars, NEW k \in Task, table[k].status = "COMPLETED", InFlight(k) = {},
           creating # k, cancelling # k
    PROVE  table'[k].status \in {"COMPLETED", "absent"} /\ InFlight(k)' = {}
<1> DEFINE Goal == table'[k].status \in {"COMPLETED", "absent"} /\ InFlight(k)' = {}
           Active == {"create", "mark", "run", "store", "result"}
<1> USE TaskAssumption
<1>1. \A w \in Worker : worker[w].at \in Active => worker[w].task # k
  BY DEF InFlight
<1>2. ASSUME table'[k].status \in {"COMPLETED", "absent"}, NEW w \in Worker, NEW job \in Workers,
             Become(w, job), job.at \in Active => job.task # k
      PROVE  Goal
  BY <1>1, <1>2 DEF InFlight, TypeOK
<1>3. ASSUME table'[k].status \in {"COMPLETED", "absent"}, UNCHANGED worker PROVE Goal
  BY <1>1, <1>3 DEF InFlight
<1>4. ASSUME NEW j \in Task, Receive(j) PROVE Goal
  <2>1. table' = table
    BY <1>4 DEF Receive
  <2>2. CASE Spawn(j)
    <3>1. PICK w \in Worker : Become(w, Job("check", j, nil))
      BY <2>2
    <3> QED
      BY <1>2, <2>1, <3>1
  <2>3. CASE UNCHANGED worker
    BY <1>3, <2>1, <2>3
  <2> QED
    BY <1>4, <2>2, <2>3 DEF Receive
<1>5. CASE ReceiveNew
  <2>1. creating \in Task /\ table'[k] = table[k]
    BY <1>5 DEF ReceiveNew, TypeOK
  <2>2. PICK w \in Worker : Become(w, Job("check", creating, nil))
    BY <1>5 DEF ReceiveNew
  <2> QED
    BY <1>2, <2>1, <2>2
<1>6. ASSUME NEW w \in Worker, Check(w) PROVE Goal
  <2> DEFINE j == worker[w].task
  <2>1. j \in Task /\ table' = table
    BY <1>6 DEF Check, TypeOK
  <2>2. CASE Become(w, Job("answer", j, Existing(j)))
    <3> DEFINE job == Job("answer", j, Existing(j))
    <3>1. job \in Workers /\ job.at \notin Active
      BY <2>1, ExistingType
    <3> HIDE DEF job
    <3> QED
      BY <1>2, <2>1, <2>2, <3>1 DEF job
  <2>3. CASE j # k /\ \E l \in {"create", "mark"} : Become(w, Job(l, j, nil))
    BY <1>2, <2>1, <2>3
  <2>4. j = k => Answerable(j)
    BY DEF Answerable, ShouldExecute, Exists
  <2> QED
    BY <1>6, <2>2, <2>3, <2>4 DEF Check, Answerable, Exists
<1>7. ASSUME NEW w \in Worker, Create(w) PROVE Goal
  <2>1. worker[w].task \in Task \ {k}
    BY <1>1, <1>7 DEF Create, TypeOK
  <2>2. table'[k] = table[k]
    BY <1>7, <2>1 DEF Create, TypeOK
  <2> QED
    BY <1>2, <1>7, <2>1, <2>2 DEF Create
<1>8. ASSUME NEW w \in Worker, Mark(w) PROVE Goal
  <2>1. worker[w].task \in Task \ {k}
    BY <1>1, <1>8 DEF Mark, TypeOK
  <2>2. table'[k] = table[k]
    BY <1>8, <2>1, UpdateEffect DEF Mark, TypeOK
  <2> QED
    BY <1>2, <1>8, <2>1, <2>2 DEF Mark
<1>9. ASSUME NEW w \in Worker, Run(w) PROVE Goal
  <2>1. worker[w].task \in Task \ {k} /\ table' = table
    BY <1>1, <1>9 DEF Run, TypeOK
  <2> QED
    BY <1>2, <1>9, <2>1 DEF Run
<1>10. ASSUME NEW w \in Worker, Store(w) PROVE Goal
  <2> DEFINE s == IF worker[w].outcome = "error" THEN "FAILED" ELSE worker[w].outcome
             job == Job("result", worker[w].task, worker[w].outcome)
  <2>1. worker[w].task \in Task \ {k} /\ s \in Statuses /\ job \in Workers
        /\ UpdateTaskStatus(worker[w].task, s) /\ Become(w, job) /\ job.task # k
    BY <1>1, <1>10 DEF Store, TypeOK
  <2> HIDE DEF s, job
  <2>2. table'[k] = table[k]
    BY <2>1, UpdateEffect DEF TypeOK
  <2> QED
    BY <1>2, <2>1, <2>2
<1>11. ASSUME NEW w \in Worker, Result(w) PROVE Goal
  <2> DEFINE r == IF worker[w].outcome = "error" THEN nil ELSE worker[w].outcome
             job == Job("answer", worker[w].task, worker[w].outcome)
  <2>1. worker[w].task \in Task \ {k} /\ r \in {nil, "COMPLETED", "FAILED"} /\ job \in Workers
        /\ SetTaskResult(worker[w].task, r) /\ Become(w, job) /\ job.task # k
    BY <1>1, <1>11 DEF Result, TypeOK
  <2> HIDE DEF r, job
  <2>2. table'[k] = table[k]
    BY <2>1, ResultEffect DEF TypeOK
  <2> QED
    BY <1>2, <2>1, <2>2
<1>12. ASSUME NEW w \in Worker, Reply(w) PROVE Goal
  <2>1. Become(w, Idle) /\ Idle \in Workers /\ table' = table
    BY <1>12 DEF Reply
  <2> QED
    BY <1>2, <2>1
<1>13. ASSUME NEW j \in Task, Age(j) \/ CancelCheck(j) PROVE Goal
  <2>1. table'[k].status = table[k].status
    BY <1>13 DEF Age, CancelCheck, TypeOK
  <2> QED
    BY <1>3, <1>13, <2>1 DEF Age, CancelCheck
<1>14. CASE CleanupOldTasks
  BY <1>3, <1>14 DEF CleanupOldTasks
<1>15. CASE CancelUpdate
  <2>1. cancelling \in Task \ {k} /\ UpdateTaskStatus(cancelling, "CANCELLED") /\ UNCHANGED worker
    BY <1>15 DEF CancelUpdate, TypeOK
  <2>2. table'[k] = table[k]
    BY <2>1, UpdateEffect DEF TypeOK
  <2> QED
    BY <1>3, <2>1, <2>2
<1>16. CASE Restart
  BY <1>16 DEF Restart, InFlight
<1>17. CASE UNCHANGED vars
  BY <1>3, <1>17
<1> QED
  BY <1>4, <1>5, <1>6, <1>7, <1>8, <1>9, <1>10, <1>11, <1>12, <1>13, <1>14, <1>15, <1>16, <1>17
  DEF Next, WorkerStep, Done

\* A completed task stays completed and is not executed again (CheckTaskStatus).
THEOREM CompletedStays == Spec => CompletedIsFinal
<1> DEFINE Stays == \A k \in Settled :
          table'[k].status \in {"COMPLETED", "absent"} /\ InFlight(k)' = {}
<1>1. IInv /\ [Next]_vars => [Stays]_vars
  BY CompletedStep DEF IInv, Settled
<1> QED
  BY <1>1, Invariance, PTL DEF Spec, CompletedIsFinal
============================================================================
